----------------------------- MODULE KeepAwake -----------------------------
(* findmy-keepawake.sh: the watcher that kills and starts FindMy.app when    *)
(* the cache grows old, in discrete time.  A tick is a second; the clocks    *)
(* count seconds, and a step that is due holds time back until it is taken.  *)
(* FindMy itself is external: what it may do is taken from the comments of   *)
(* the script (an instance fetches, then wedges; only a kill helps).         *)
EXTENDS Naturals

CONSTANTS
    CheckEvery, StaleAfter,   \* the tunables of the script
    KillPause, Settle,        \* the two sleeps of relaunch()
    FirstFetch,    \* the longest an instance takes to its first write
    FetchEvery,    \* the longest between two writes of a healthy one
    Old,           \* bound: the age at which we stop counting, or no file at all
    DiesFrom,      \* states in which FindMy may crash
    MaxRestarts    \* bound: times the watcher itself is started again

ASSUME KeepAwakeConstants ==
    /\ CheckEvery \in Nat \ {0} /\ StaleAfter \in Nat
    /\ KillPause \in Nat /\ Settle \in Nat
    /\ FirstFetch \in Nat /\ FetchEvery \in Nat /\ Old \in Nat
    /\ StaleAfter < Old
    /\ DiesFrom \subseteq {"fresh", "fetching", "wedged"}
    /\ MaxRestarts \in Nat

VARIABLES
    app,       \* FindMy: off, fresh (no write yet), fetching, or wedged
    up,        \* of a fresh instance: the time since it was started
    age,       \* newest_age: the time since the newest write of the cache
    pc,        \* the script: in the loop's sleep, or in one of relaunch()
    timer,     \* what is left of that sleep
    restarts   \* times the script was started again

vars == <<app, up, age, pc, timer, restarts>>

TypeOK ==
    /\ app \in {"off", "fresh", "fetching", "wedged"}
    /\ up \in Nat /\ age \in 0 .. Old /\ timer \in Nat
    /\ pc \in {"sleep", "killed", "settle"}
    /\ restarts \in 0 .. MaxRestarts

(* What open -a does: nothing to an instance that is there, wedged or not.   *)
OpenApp ==
    IF app = "off" THEN app' = "fresh" /\ up' = 0 ELSE UNCHANGED <<app, up>>

(* The script was just started.  The cache may have any age; of one that is  *)
(* stale by then the age is not counted.                                     *)
Init ==
    /\ app \in {"fresh", "fetching", "wedged"} /\ up = 0
    /\ age \in 0 .. StaleAfter \cup {Old} /\ (app = "fetching" => age <= FetchEvery)
    /\ pc = "sleep" /\ timer = CheckEvery
    /\ restarts = 0

-----------------------------------------------------------------------------
(* Time, and FindMy. *)

(* Mutant: the sleep does not end when its time is over. *)
TickOver ==
    /\ app = "fresh" => up < FirstFetch
    /\ app = "fetching" => age < FetchEvery
    /\ timer' = timer - 1
    /\ up' = IF app = "fresh" THEN up + 1 ELSE up
    /\ age' = IF age = Old THEN Old ELSE age + 1
    /\ UNCHANGED <<app, pc, restarts>>

(* A write that is due, or a step of the script that is due, comes first.    *)
Tick ==
    /\ timer > 0
    /\ app = "fresh" => up < FirstFetch
    /\ app = "fetching" => age < FetchEvery
    /\ timer' = timer - 1
    /\ up' = IF app = "fresh" THEN up + 1 ELSE up
    /\ age' = IF age = Old THEN Old ELSE age + 1
    /\ UNCHANGED <<app, pc, restarts>>

Writes ==
    /\ app \in {"fresh", "fetching"}
    /\ app' = "fetching"
    /\ up' = 0 /\ age' = 0
    /\ UNCHANGED <<pc, timer, restarts>>

Wedges ==
    /\ app = "fetching" /\ app' = "wedged"
    /\ UNCHANGED <<up, age, pc, timer, restarts>>

Dies ==
    /\ app \in DiesFrom
    /\ app' = "off" /\ up' = 0
    /\ UNCHANGED <<age, pc, timer, restarts>>

-----------------------------------------------------------------------------
(* The script. *)

(* Mutant: the check is of the wrong tunable. *)
StaleTooSoon == age > CheckEvery

(* Mutant: only a process that is gone is noticed. *)
StaleNever == age > Old

Stale == age > StaleAfter

(* Mutant: FindMy is asked to quit, and a wedged instance does not.          *)
CheckGently ==
    /\ pc = "sleep" /\ timer = 0
    /\ IF app = "off" \/ Stale
       THEN /\ app' = (IF app = "wedged" THEN app ELSE "off") /\ up' = 0
            /\ pc' = "killed" /\ timer' = KillPause
       ELSE timer' = CheckEvery /\ UNCHANGED <<app, up, pc>>
    /\ UNCHANGED <<age, restarts>>

(* One iteration of the loop: pgrep, then newest_age; relaunch kills first.  *)
Check ==
    /\ pc = "sleep" /\ timer = 0
    /\ IF app = "off" \/ Stale
       THEN app' = "off" /\ up' = 0 /\ pc' = "killed" /\ timer' = KillPause
       ELSE timer' = CheckEvery /\ UNCHANGED <<app, up, pc>>
    /\ UNCHANGED <<age, restarts>>

Open ==
    /\ pc = "killed" /\ timer = 0
    /\ OpenApp
    /\ pc' = "settle" /\ timer' = Settle
    /\ UNCHANGED <<age, restarts>>

Settled ==
    /\ pc = "settle" /\ timer = 0
    /\ pc' = "sleep" /\ timer' = CheckEvery
    /\ UNCHANGED <<app, up, age, restarts>>

(* The script dies, anywhere, and launchd starts it again: open -a, and into *)
(* the loop.                                                                 *)
Restart ==
    /\ restarts < MaxRestarts
    /\ restarts' = restarts + 1
    /\ OpenApp
    /\ pc' = "sleep" /\ timer' = CheckEvery
    /\ UNCHANGED age

Script == Check \/ Open \/ Settled

Next == Tick \/ Writes \/ Wedges \/ Dies \/ Script \/ Restart

Spec == Init /\ [][Next]_vars

(* Time goes on, and the script takes the steps that are due; so does an     *)
(* instance of FindMy that has not wedged.                                   *)
Due == Writes /\ (app = "fresh" => up = FirstFetch) /\ (app = "fetching" => age = FetchEvery)

FairSpec == Spec /\ WF_vars(Tick) /\ WF_vars(Script) /\ WF_vars(Due)

-----------------------------------------------------------------------------
(* "leaves a healthy FindMy alone", "flags a real wedge without false        *)
(* positives" (findmy-keepawake.sh:11-18): what is killed was wedged.        *)
LeavesHealthyAlone ==
    [][pc = "sleep" /\ pc' = "killed" => app \in {"off", "wedged"}]_vars

(* "worst-case staleness = STALE_AFTER + CHECK_EVERY + relaunch spin-up"     *)
(* (findmy-keepawake.sh:17-18), once there was a write; a restart of the     *)
(* script costs one more check interval.                                     *)
WorstAge == StaleAfter + CheckEvery * (restarts + 1) + KillPause + FirstFetch

StalenessBounded == age <= WorstAge \/ age = Old

(* However FindMy wedges or dies, it fetches again. *)
KeepsFetching == []<>(app = "fetching")
=============================================================================
