----------------------------- MODULE Freshness -----------------------------
(* What the cache_updated sensor and the health file tell of the source:     *)
(* the poll loop of the bridge (runtime.py) next to the watcher that keeps   *)
(* FindMy fetching, in one time.  A poll takes no time here; its pauses do.  *)
(* Ages stop at Old, like the age of the cache.                              *)
(*                                                                           *)
(* There is one age of the cache: FindMy (external) writes its files in one  *)
(* go.  The watcher also looks at FamilyMembers (findmy-keepawake.sh:26),    *)
(* which the bridge does not read (runtime.py:28); nothing here is said of a *)
(* FindMy that would rewrite only that one.                                  *)
EXTENDS KeepAwake

CONSTANTS
    PollEvery,   \* poll_interval_seconds
    MaxFailed    \* bound: polls in a row that do not get to _publish_cache_mtime

ASSUME FreshnessConstants == PollEvery \in Nat \ {0} /\ MaxFailed \in Nat

VARIABLES
    conn,      \* the connection: "up", "broken" (not noticed yet), or "down"
    wait,      \* what is left of _stop.wait
    failed,    \* polls in a row that failed
    noted,     \* the age of the mtime in _last
    missed,    \* the publish of that mtime did not reach the broker
    touched    \* the age of the health file

feed      == <<conn, wait, failed, noted, missed, touched>>
freshVars == <<vars, feed>>

FreshTypeOK ==
    /\ TypeOK
    /\ conn \in {"up", "broken", "down"}
    /\ wait \in 0 .. PollEvery /\ failed \in 0 .. MaxFailed
    /\ noted \in 0 .. Old /\ touched \in 0 .. Old
    /\ missed \in BOOLEAN

(* A new process: nothing published, and no connection yet. *)
FreshInit ==
    /\ Init
    /\ conn = "down" /\ wait = 0 /\ failed = 0
    /\ noted = Old /\ missed = FALSE /\ touched = Old

-----------------------------------------------------------------------------
Older(a) == IF a = Old THEN Old ELSE a + 1

(* A poll that is due comes before time goes on. *)
Pass ==
    /\ wait > 0 /\ Tick
    /\ wait' = wait - 1
    /\ noted' = Older(noted) /\ touched' = Older(touched)
    /\ UNCHANGED <<conn, failed, missed>>

Source == (Writes \/ Wedges \/ Dies) /\ UNCHANGED feed

Watcher == (Script \/ Restart) /\ UNCHANGED feed

(* _touch_health: the flag that it looks at outlives a connection that broke. *)
Touched == IF conn = "down" THEN touched ELSE 0

(* Mutant: the first mtime that was published is also the last one. *)
PollOnce ==
    /\ wait = 0 /\ wait' = PollEvery
    /\ failed' = 0
    /\ \/ noted # Old /\ UNCHANGED <<noted, missed>> /\ touched' \in {touched, Touched}
       \/ /\ noted = Old
          /\ noted' = age /\ missed' = (conn # "up") /\ touched' = Touched
    /\ UNCHANGED <<vars, conn>>

(* poll_once up to its last step: an mtime that is not the last one noted is *)
(* noted and published, at QoS 0.  What else the poll publishes touches the  *)
(* health file too.                                                          *)
PollDone ==
    /\ wait = 0 /\ wait' = PollEvery
    /\ failed' = 0
    /\ \/ noted = age /\ UNCHANGED <<noted, missed>> /\ touched' \in {touched, Touched}
       \/ /\ noted # age
          /\ noted' = age /\ missed' = (conn # "up") /\ touched' = Touched
    /\ UNCHANGED <<vars, conn>>

(* The key or the files cannot be read, or a record raises on the way.       *)
PollFails ==
    /\ wait = 0 /\ wait' = PollEvery
    /\ failed < MaxFailed /\ failed' = failed + 1
    /\ touched' \in {touched, Touched}
    /\ UNCHANGED <<vars, conn, noted, missed>>

Poll == PollDone \/ PollFails

Break  == conn = "up" /\ conn' = "broken" /\ UNCHANGED <<vars, wait, failed, noted, missed, touched>>
Notice == conn = "broken" /\ conn' = "down" /\ UNCHANGED <<vars, wait, failed, noted, missed, touched>>

(* Mutant: _on_connect does not touch the health file. *)
ConnectQuietly ==
    /\ conn = "down" /\ conn' = "up"
    /\ UNCHANGED <<vars, wait, failed, noted, missed, touched>>

Connect ==
    /\ conn = "down" /\ conn' = "up"
    /\ touched' = 0
    /\ UNCHANGED <<vars, wait, failed, noted, missed>>

Connection == Break \/ Notice \/ Connect

FreshNext == Pass \/ Source \/ Watcher \/ Poll \/ Connection

FreshSpec == FreshInit /\ [][FreshNext]_freshVars

DueWrite == Due /\ UNCHANGED feed

FairFreshSpec ==
    /\ FreshSpec
    /\ WF_freshVars(Pass) /\ WF_freshVars(Script /\ UNCHANGED feed)
    /\ WF_freshVars(DueWrite) /\ WF_freshVars(Poll)

-----------------------------------------------------------------------------
(* The worst age of what the polls note: the cache was as old as it gets, or *)
(* it was written right after a poll and every poll since but one failed.    *)
WorstNoted == WorstAge + PollEvery * (MaxFailed + 1)

(* The cache_updated sensor exposes when Find My last fetched (README.md:55; *)
(* runtime.py:99-112): while no publish of it was lost, it is never older    *)
(* than the watcher lets the cache get plus the polls that may fail.         *)
ShownIsFresh == ~missed => noted <= WorstNoted \/ noted = Old

(* With a connection, a check of the health file's age that allows for that  *)
(* much (_touch_health, paho_publisher.py:165-190) finds the bridge alive,   *)
(* although a poll that finds nothing new touches nothing.                   *)
HealthIsTouched == conn # "down" => touched <= WorstNoted \/ noted = Old

(* A publish of the mtime that was lost is never longer ago than that: by    *)
(* then FindMy, kept at it by the watcher, has written again, and a poll has *)
(* noted and published the new mtime (runtime.py:109-112).                   *)
LossIsRecent == missed => noted <= WorstNoted

(* What the dedup holds back after a lost publish is made up for once the    *)
(* connection stays, because the watcher keeps FindMy writing.               *)
MissedIsMadeUp == <>[](conn = "up") => <>[]~missed
=============================================================================
