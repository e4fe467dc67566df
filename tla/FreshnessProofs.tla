-------------------------- MODULE FreshnessProofs --------------------------
(* Theorems about the watcher (KeepAwake) and about the bridge next to it     *)
(* (Freshness), for every value of the tunables.                             *)
EXTENDS Freshness, TLAPS

(* The watcher alone.                                                        *)

LEMMA WatcherStep == ASSUME TypeOK, [Next]_vars PROVE TypeOK'
<1> USE KeepAwakeConstants DEF TypeOK
<1>1. CASE Tick
  BY <1>1 DEF Tick
<1>2. CASE Writes
  BY <1>2 DEF Writes
<1>3. CASE Wedges
  BY <1>3 DEF Wedges
<1>4. CASE Dies
  BY <1>4 DEF Dies
<1>5. CASE Check
  BY <1>5 DEF Check
<1>6. CASE Open
  BY <1>6 DEF Open, OpenApp
<1>7. CASE Settled
  BY <1>7 DEF Settled
<1>8. CASE Restart
  BY <1>8 DEF Restart, OpenApp
<1>9. CASE UNCHANGED vars
  BY <1>9 DEF vars
<1> QED
  BY <1>1, <1>2, <1>3, <1>4, <1>5, <1>6, <1>7, <1>8, <1>9 DEF Next, Script

(* The types are an invariant of the watcher, whatever its tunables.         *)
THEOREM WatcherTyped == Spec => []TypeOK
<1>1. Init => TypeOK
  BY KeepAwakeConstants DEF Init, TypeOK
<1>2. TypeOK /\ [Next]_vars => TypeOK'
  BY WatcherStep
<1> QED
  BY <1>1, <1>2, PTL DEF Spec

-----------------------------------------------------------------------------
(* A healthy instance is in time, and a fresh one is either in its settle    *)
(* time or has the rest of it before the next check.                         *)
InTime ==
    /\ app = "fresh" => up <= FirstFetch
    /\ app = "fetching" => age <= FetchEvery

CheckIsFar ==
    /\ pc = "killed" => app = "off"
    /\ app = "fresh" /\ pc = "sleep" => up + timer >= CheckEvery

HealthInv == TypeOK /\ InTime /\ CheckIsFar

(* What the tunables and FindMy must satisfy: the first write comes within   *)
(* one check interval, later ones within the staleness threshold.            *)
Paced == FirstFetch < CheckEvery /\ FetchEvery <= StaleAfter

LEMMA HealthInductive ==
    ASSUME HealthInv, [Next]_vars PROVE (InTime /\ CheckIsFar)'
<1> USE KeepAwakeConstants DEF HealthInv, TypeOK, InTime, CheckIsFar
<1>1. CASE Tick
  BY <1>1 DEF Tick
<1>2. CASE Writes
  BY <1>2 DEF Writes
<1>3. CASE Wedges
  BY <1>3 DEF Wedges
<1>4. CASE Dies
  BY <1>4 DEF Dies
<1>5. CASE Check
  BY <1>5 DEF Check
<1>6. CASE Open
  BY <1>6 DEF Open, OpenApp
<1>7. CASE Settled
  BY <1>7 DEF Settled
<1>8. CASE Restart
  BY <1>8 DEF Restart, OpenApp
<1>9. CASE UNCHANGED vars
  BY <1>9 DEF vars
<1> QED
  BY <1>1, <1>2, <1>3, <1>4, <1>5, <1>6, <1>7, <1>8, <1>9 DEF Next, Script

LEMMA HealthHolds == Spec => []HealthInv
<1>1. Init => InTime /\ CheckIsFar
  BY KeepAwakeConstants DEF Init, InTime, CheckIsFar
<1>2. HealthInv /\ [Next]_vars => (InTime /\ CheckIsFar)'
  BY HealthInductive
<1> QED
  BY <1>1, <1>2, WatcherTyped, PTL DEF Spec, HealthInv

(* "leaves a healthy FindMy alone": an instance that is killed had wedged,   *)
(* for all tunables under which healthy instances are in time.               *)
THEOREM HealthyIsLeftAlone == ASSUME Paced PROVE Spec => LeavesHealthyAlone
<1>1. HealthInv /\ [Next]_vars
          => [pc = "sleep" /\ pc' = "killed" => app \in {"off", "wedged"}]_vars
  <2> SUFFICES ASSUME HealthInv, Next, pc = "sleep", pc' = "killed"
               PROVE  app \in {"off", "wedged"}
    BY DEF vars
  <2>1. Check
    BY DEF Next, Script, Tick, Writes, Wedges, Dies, Open, Settled, Restart
  <2>2. timer = 0 /\ (app = "off" \/ age > StaleAfter)
    BY <2>1 DEF Check, Stale
  <2> QED
    BY <2>2, KeepAwakeConstants DEF HealthInv, TypeOK, InTime, CheckIsFar, Paced
<1> QED
  BY <1>1, HealthHolds, PTL DEF Spec, LeavesHealthyAlone

-----------------------------------------------------------------------------
(* How old the cache is, at most, at each point of the script: L seconds     *)
(* when FindMy is killed, and the time since it was opened after that.       *)
Lag(r) == CheckEvery * (r + 1)

TimerInv ==
    /\ pc = "sleep"  => timer <= CheckEvery
    /\ pc = "killed" => timer <= KillPause
    /\ pc = "settle" => timer <= Settle

AgeBound(L) ==
    \/ age = Old
    \/ /\ pc = "sleep" /\ app \in {"off", "wedged"} => age + timer <= L
       /\ pc = "killed" => age + timer <= L + KillPause
       /\ pc = "settle" /\ app # "fresh" => age + timer <= Settle
       /\ app = "fresh" => age <= L + KillPause + up

AgeInv == AgeBound(StaleAfter + Lag(restarts))

(* A fresh instance does not die before its first write, and the script      *)
(* looks again soon after it opened one.                                     *)
Settles == "fresh" \notin DiesFrom /\ Settle <= StaleAfter

LEMMA LagGrows ==
    ASSUME NEW r \in Nat
    PROVE  /\ Lag(r) \in Nat /\ CheckEvery <= Lag(r)
           /\ Lag(r + 1) = Lag(r) + CheckEvery
           /\ \A s \in Nat : r <= s => Lag(r) <= Lag(s)
<1> USE KeepAwakeConstants
<1>1. \A s \in Nat : CheckEvery * (s + 1) = CheckEvery * s + CheckEvery /\ CheckEvery * s \in Nat
  OBVIOUS
<1>2. CheckEvery * ((r + 1) + 1) = CheckEvery * (r + 1) + CheckEvery
  OBVIOUS
<1>3. ASSUME NEW s \in Nat, r <= s PROVE CheckEvery * r <= CheckEvery * s
  <2>1. PICK d \in Nat : s = r + d
    BY <1>3
  <2>2. CheckEvery * (r + d) = CheckEvery * r + CheckEvery * d
    OBVIOUS
  <2>3. CheckEvery * d \in Nat /\ CheckEvery * r \in Nat
    OBVIOUS
  <2> QED
    BY <2>1, <2>2, <2>3
<1> QED
  BY <1>1, <1>2, <1>3 DEF Lag

LEMMA AgeStep ==
    ASSUME Paced, Settles, HealthInv, TimerInv, [Next]_vars,
           NEW L \in Nat, NEW M \in Nat, StaleAfter + CheckEvery <= L, L <= M,
           Restart => M = L + CheckEvery, AgeBound(L)
    PROVE  TimerInv' /\ AgeBound(M)'
<1> USE KeepAwakeConstants
    DEF HealthInv, TypeOK, InTime, CheckIsFar, TimerInv, AgeBound, Paced, Settles
<1>1. CASE Tick
  BY <1>1 DEF Tick
<1>2. CASE Writes
  BY <1>2 DEF Writes
<1>3. CASE Wedges
  BY <1>3 DEF Wedges
<1>4. CASE Dies
  BY <1>4 DEF Dies
<1>5. CASE Check
  BY <1>5 DEF Check, Stale
<1>6. CASE Open
  BY <1>6 DEF Open, OpenApp
<1>7. CASE Settled
  BY <1>7 DEF Settled
<1>8. CASE Restart
  BY <1>8 DEF Restart, OpenApp
<1>9. CASE UNCHANGED vars
  BY <1>9 DEF vars
<1> QED
  BY <1>1, <1>2, <1>3, <1>4, <1>5, <1>6, <1>7, <1>8, <1>9 DEF Next, Script

LEMMA AgeInductive ==
    ASSUME Paced, Settles, HealthInv, TimerInv, AgeInv, [Next]_vars
    PROVE  TimerInv' /\ AgeInv'
<1>1. restarts \in Nat /\ restarts' \in Nat
  BY WatcherStep DEF HealthInv, TypeOK
<1>2. restarts' = restarts \/ restarts' = restarts + 1
  BY DEF Next, Script, Tick, Writes, Wedges, Dies, Check, Open, Settled, Restart, vars
<1>3. Restart => restarts' = restarts + 1
  BY DEF Restart
<1>4. PICK L \in Nat : L = StaleAfter + Lag(restarts)
  BY <1>1, LagGrows, KeepAwakeConstants
<1>5. PICK M \in Nat : M = StaleAfter + Lag(restarts')
  BY <1>1, LagGrows, KeepAwakeConstants
<1>6. StaleAfter + CheckEvery <= L
  BY <1>1, <1>4, LagGrows, KeepAwakeConstants
<1>7. restarts' = restarts + 1 => M = L + CheckEvery
  BY <1>1, <1>4, <1>5, LagGrows, KeepAwakeConstants
<1>8. L <= M /\ (Restart => M = L + CheckEvery)
  BY <1>2, <1>3, <1>4, <1>5, <1>7, KeepAwakeConstants
<1>9. AgeBound(L)
  BY <1>4 DEF AgeInv
<1>10. TimerInv' /\ AgeBound(M)'
  BY <1>6, <1>8, <1>9, AgeStep
<1> QED
  BY <1>5, <1>10 DEF AgeInv, AgeBound

(* "worst-case staleness = STALE_AFTER + CHECK_EVERY + relaunch spin-up",    *)
(* plus a check interval for each time the script itself was started again.  *)
THEOREM WorstAgeHolds == ASSUME Paced, Settles PROVE Spec => []StalenessBounded
<1>1. Init => TimerInv /\ AgeInv
  <2> SUFFICES ASSUME Init PROVE TimerInv /\ AgeInv
    OBVIOUS
  <2>1. Lag(restarts) = CheckEvery
    BY KeepAwakeConstants DEF Init, Lag
  <2> QED
    BY <2>1, KeepAwakeConstants DEF Init, TimerInv, AgeInv, AgeBound
<1>2. HealthInv /\ TimerInv /\ AgeInv /\ [Next]_vars => TimerInv' /\ AgeInv'
  BY AgeInductive
<1>3. HealthInv /\ AgeInv /\ TimerInv => StalenessBounded
  <2> SUFFICES ASSUME HealthInv, AgeInv, TimerInv, age # Old PROVE age <= WorstAge
    BY DEF StalenessBounded
  <2>1. Lag(restarts) \in Nat /\ CheckEvery <= Lag(restarts)
    BY LagGrows DEF HealthInv, TypeOK
  <2>2. WorstAge = StaleAfter + Lag(restarts) + KillPause + FirstFetch
    BY DEF WorstAge, Lag
  <2> QED
    BY <2>1, <2>2, KeepAwakeConstants
       DEF HealthInv, TypeOK, InTime, CheckIsFar, AgeInv, AgeBound, Paced, Settles
<1>4. Spec => []HealthInv
  BY HealthHolds
<1> QED
  BY <1>1, <1>2, <1>3, <1>4, PTL DEF Spec
-----------------------------------------------------------------------------
(* The bridge next to it.                                                    *)

LEMMA OlderTyped == ASSUME NEW a \in 0 .. Old PROVE Older(a) \in 0 .. Old
  BY KeepAwakeConstants DEF Older

LEMMA TouchedTyped == FreshTypeOK => Touched \in {0, touched} /\ Touched \in 0 .. Old
  BY KeepAwakeConstants DEF FreshTypeOK, Touched

-----------------------------------------------------------------------------
(* The bridge does nothing to the watcher: the composition implements it.    *)

LEMMA FreshInitial == FreshInit => Init
  BY DEF FreshInit

LEMMA FreshImplements ==
    ASSUME [FreshNext]_freshVars
    PROVE  [Next]_vars
<1>1. CASE Pass \/ Source \/ Watcher
  BY <1>1 DEF Pass, Source, Watcher, Next
<1>2. CASE Poll \/ Connection \/ UNCHANGED freshVars
  BY <1>2 DEF Poll, PollDone, PollFails, Connection, Break, Notice, Connect, freshVars
<1> QED
  BY <1>1, <1>2 DEF FreshNext

(* What is said of the watcher holds of the source next to the bridge too.   *)
THEOREM SourceIsWatched == FreshSpec => Spec
  BY FreshInitial, FreshImplements, PTL DEF FreshSpec, Spec

LEMMA FreshTypeStep ==
    ASSUME FreshTypeOK, [FreshNext]_freshVars
    PROVE  FreshTypeOK'
<1>1. TypeOK'
  BY FreshImplements, WatcherStep DEF FreshTypeOK
<1> USE KeepAwakeConstants, FreshnessConstants
<1>2. CASE Pass
  <2>1. noted' \in 0 .. Old /\ touched' \in 0 .. Old
    BY <1>2, OlderTyped DEF Pass, FreshTypeOK
  <2> QED
    BY <1>1, <1>2, <2>1 DEF Pass, FreshTypeOK
<1>3. CASE Source \/ Watcher \/ UNCHANGED freshVars
  BY <1>1, <1>3 DEF Source, Watcher, feed, freshVars, FreshTypeOK
<1>4. CASE Poll
  <2>1. touched' \in 0 .. Old /\ noted' \in 0 .. Old /\ missed' \in BOOLEAN
    BY <1>4, TouchedTyped DEF Poll, PollDone, PollFails, FreshTypeOK, TypeOK
  <2>2. wait' \in 0 .. PollEvery
    BY <1>4 DEF Poll, PollDone, PollFails
  <2>3. failed' \in 0 .. MaxFailed
    BY <1>4 DEF Poll, PollDone, PollFails, FreshTypeOK
  <2>4. conn' = conn
    BY <1>4 DEF Poll, PollDone, PollFails
  <2> QED
    BY <1>1, <2>1, <2>2, <2>3, <2>4 DEF FreshTypeOK
<1>5. CASE Connection
  BY <1>1, <1>5 DEF Connection, Break, Notice, Connect, FreshTypeOK
<1> QED
  BY <1>2, <1>3, <1>4, <1>5 DEF FreshNext

(* The types are an invariant of bridge and watcher, whatever the tunables.  *)
THEOREM FreshTyped == FreshSpec => []FreshTypeOK
<1>1. FreshInit => FreshTypeOK
  <2> SUFFICES ASSUME FreshInit PROVE FreshTypeOK
    OBVIOUS
  <2>1. TypeOK
    BY KeepAwakeConstants DEF FreshInit, Init, TypeOK
  <2>2. wait \in 0 .. PollEvery /\ failed \in 0 .. MaxFailed
    BY FreshnessConstants DEF FreshInit
  <2>3. noted \in 0 .. Old /\ touched \in 0 .. Old
    BY KeepAwakeConstants DEF FreshInit
  <2> QED
    BY <2>1, <2>2, <2>3 DEF FreshInit, FreshTypeOK
<1>2. FreshTypeOK /\ [FreshNext]_freshVars => FreshTypeOK'
  BY FreshTypeStep
<1> QED
  BY <1>1, <1>2, PTL DEF FreshSpec

-----------------------------------------------------------------------------
(* The time since the last poll that was done is Polls(failed) - wait.       *)
Polls(f) == PollEvery * (f + 1)

LEMMA PollsGrow ==
    ASSUME NEW f \in Nat
    PROVE  /\ Polls(f) \in Nat /\ PollEvery <= Polls(f)
           /\ Polls(f + 1) = Polls(f) + PollEvery
           /\ \A g \in Nat : f <= g => Polls(f) <= Polls(g)
<1> USE FreshnessConstants
<1>1. \A g \in Nat : PollEvery * (g + 1) = PollEvery * g + PollEvery /\ PollEvery * g \in Nat
  OBVIOUS
<1>2. PollEvery * ((f + 1) + 1) = PollEvery * (f + 1) + PollEvery
  OBVIOUS
<1>3. ASSUME NEW g \in Nat, f <= g PROVE PollEvery * f <= PollEvery * g
  <2>1. PICK d \in Nat : g = f + d
    BY <1>3
  <2>2. PollEvery * (f + d) = PollEvery * f + PollEvery * d
    OBVIOUS
  <2>3. PollEvery * d \in Nat /\ PollEvery * f \in Nat
    OBVIOUS
  <2> QED
    BY <2>1, <2>2, <2>3
<1> QED
  BY <1>1, <1>2, <1>3 DEF Polls

LEMMA WorstAgeTyped == TypeOK => WorstAge \in Nat
<1> SUFFICES ASSUME TypeOK PROVE WorstAge \in Nat
  OBVIOUS
<1>1. Lag(restarts) \in Nat
  BY LagGrows DEF TypeOK
<1>2. WorstAge = StaleAfter + Lag(restarts) + KillPause + FirstFetch
  BY DEF WorstAge, Lag
<1> QED
  BY <1>1, <1>2, KeepAwakeConstants

LEMMA WorstAgeGrows ==
    ASSUME TypeOK, [Next]_vars
    PROVE  WorstAge \in Nat /\ WorstAge' \in Nat /\ WorstAge <= WorstAge'
<1> USE KeepAwakeConstants
<1>1. restarts \in Nat /\ (restarts' = restarts \/ restarts' = restarts + 1)
  BY DEF TypeOK, Next, Script, Tick, Writes, Wedges, Dies, Check, Open, Settled, Restart, vars
<1>2. Lag(restarts) \in Nat /\ Lag(restarts + 1) = Lag(restarts) + CheckEvery
  BY <1>1, LagGrows
<1>3. /\ WorstAge = StaleAfter + Lag(restarts) + KillPause + FirstFetch
      /\ WorstAge' = StaleAfter + Lag(restarts') + KillPause + FirstFetch
  BY DEF WorstAge, Lag
<1> QED
  BY <1>1, <1>2, <1>3

(* What is noted is the mtime of the cache, or that of a cache that was      *)
(* overwritten after the last poll that was done, when it was at its worst   *)
(* age at most; with a connection, the health file is not older.             *)
NotedBound(w, p) == noted = age \/ noted = Old \/ noted + wait <= w + p

NotedInv ==
    /\ age <= noted
    /\ NotedBound(WorstAge, Polls(failed))
    /\ conn # "down" => touched <= noted

(* A step, with the bounds before and after it as numbers.                   *)
LEMMA NotedStep ==
    ASSUME FreshTypeOK, FreshTypeOK', [FreshNext]_freshVars, age <= noted,
           NEW v \in Nat, NEW w \in Nat, NEW p \in Nat, NEW q \in Nat,
           v <= w, PollEvery <= q, age <= v \/ age = Old,
           failed' = failed => q = p, PollFails => q = p + PollEvery,
           NotedBound(v, p)
    PROVE  (age <= noted)' /\ NotedBound(w, q)'
<1> USE KeepAwakeConstants, FreshnessConstants DEF NotedBound, FreshTypeOK, TypeOK
<1>1. CASE Pass
  BY <1>1 DEF Pass, Tick, Older
<1>2. CASE Source
  BY <1>2 DEF Source, Writes, Wedges, Dies, feed
<1>3. CASE Watcher
  BY <1>3 DEF Watcher, Script, Check, Open, Settled, Restart, feed
<1>4. CASE PollDone
  <2>1. noted' = age' /\ age' \in Nat
    BY <1>4 DEF PollDone, vars
  <2> QED
    BY <2>1
<1>5. CASE PollFails
  BY <1>5 DEF PollFails, vars
<1>6. CASE Connection \/ UNCHANGED freshVars
  <2>1. UNCHANGED <<age, noted, wait, failed>>
    BY <1>6 DEF Connection, Break, Notice, Connect, freshVars, feed, vars
  <2> QED
    BY <2>1
<1> QED
  BY <1>1, <1>2, <1>3, <1>4, <1>5, <1>6 DEF FreshNext, Poll

LEMMA TouchedStep ==
    ASSUME FreshTypeOK, age <= noted, conn # "down" => touched <= noted, [FreshNext]_freshVars
    PROVE  (conn # "down" => touched <= noted)'
<1> USE KeepAwakeConstants DEF FreshTypeOK, TypeOK
<1>1. CASE Pass
  BY <1>1 DEF Pass, Older
<1>2. CASE Source \/ Watcher \/ UNCHANGED freshVars
  BY <1>2 DEF Source, Watcher, feed, freshVars
<1>3. CASE Poll
  BY <1>3 DEF Poll, PollDone, PollFails, Touched, vars
<1>4. CASE Connection
  BY <1>4 DEF Connection, Break, Notice, Connect
<1> QED
  BY <1>1, <1>2, <1>3, <1>4 DEF FreshNext

LEMMA NotedInductive ==
    ASSUME FreshTypeOK, StalenessBounded, NotedInv, [FreshNext]_freshVars
    PROVE  NotedInv'
<1>1. FreshTypeOK' /\ failed \in Nat /\ failed' \in Nat
  BY FreshTypeStep, FreshnessConstants DEF FreshTypeOK
<1>2. WorstAge \in Nat /\ WorstAge' \in Nat /\ WorstAge <= WorstAge'
  BY FreshImplements, WorstAgeGrows DEF FreshTypeOK
<1>3. PICK v \in Nat : v = WorstAge
  BY <1>2
<1>4. PICK w \in Nat : w = WorstAge'
  BY <1>2
<1>5. PICK p \in Nat : p = Polls(failed)
  BY <1>1, PollsGrow
<1>6. PICK q \in Nat : q = Polls(failed')
  BY <1>1, PollsGrow
<1>7. v <= w /\ PollEvery <= q /\ (age <= v \/ age = Old)
  BY <1>1, <1>2, <1>3, <1>4, <1>6, PollsGrow DEF StalenessBounded
<1>8. (failed' = failed => q = p) /\ (PollFails => q = p + PollEvery)
  BY <1>1, <1>5, <1>6, PollsGrow DEF PollFails
<1>9. NotedBound(v, p) /\ age <= noted
  BY <1>3, <1>5 DEF NotedInv
<1>10. (age <= noted)' /\ NotedBound(w, q)'
  BY <1>1, <1>7, <1>8, <1>9, NotedStep
<1>11. (conn # "down" => touched <= noted)'
  BY TouchedStep DEF NotedInv
<1> QED
  BY <1>4, <1>6, <1>10, <1>11 DEF NotedInv, NotedBound

LEMMA NotedInit == FreshInit => NotedInv
  BY KeepAwakeConstants DEF FreshInit, Init, NotedInv, NotedBound

LEMMA NotedHolds == ASSUME Paced, Settles PROVE FreshSpec => []NotedInv
<1>1. FreshTypeOK /\ StalenessBounded /\ NotedInv /\ [FreshNext]_freshVars => NotedInv'
  BY NotedInductive
<1>2. FreshSpec => []FreshTypeOK
  BY FreshTyped
<1>3. Spec => []StalenessBounded
  BY WorstAgeHolds
<1>4. FreshSpec => Spec
  BY SourceIsWatched
<1> QED
  BY <1>1, <1>2, <1>3, <1>4, NotedInit, PTL DEF FreshSpec

LEMMA NotedIsBounded ==
    ASSUME FreshTypeOK, NotedInv, StalenessBounded
    PROVE  noted <= WorstNoted \/ noted = Old
<1> USE KeepAwakeConstants, FreshnessConstants
<1>1. failed \in Nat /\ failed <= MaxFailed /\ wait \in Nat /\ noted \in Nat
  BY DEF FreshTypeOK
<1>2. Polls(failed) \in Nat /\ Polls(MaxFailed) \in Nat /\ Polls(failed) <= Polls(MaxFailed)
  BY <1>1, PollsGrow
<1>3. WorstAge \in Nat
  BY WorstAgeTyped DEF FreshTypeOK
<1>4. WorstNoted = WorstAge + Polls(MaxFailed)
  BY DEF WorstNoted, Polls
<1>5. noted = Old \/ noted <= WorstAge \/ noted + wait <= WorstAge + Polls(failed)
  BY DEF NotedInv, NotedBound, StalenessBounded
<1> QED
  BY <1>1, <1>2, <1>3, <1>4, <1>5

(* While no publish of it was lost, the cache_updated sensor is never older  *)
(* than the watcher lets the cache get plus the polls that fail in a row,    *)
(* for all tunables.                                                         *)
THEOREM ShownIsFreshHolds == ASSUME Paced, Settles PROVE FreshSpec => []ShownIsFresh
<1>1. FreshTypeOK /\ NotedInv /\ StalenessBounded => ShownIsFresh
  BY NotedIsBounded DEF ShownIsFresh
<1>2. (FreshSpec => []FreshTypeOK) /\ (FreshSpec => []NotedInv) /\ (Spec => []StalenessBounded)
  BY FreshTyped, NotedHolds, WorstAgeHolds
<1> QED
  BY <1>1, <1>2, SourceIsWatched, PTL

(* With a connection, the health file is never older than that: what is      *)
(* noted was published when it changed, or the connection was made since.    *)
THEOREM HealthIsTouchedHolds == ASSUME Paced, Settles PROVE FreshSpec => []HealthIsTouched
<1>1. FreshTypeOK /\ NotedInv /\ StalenessBounded => HealthIsTouched
  <2> SUFFICES ASSUME FreshTypeOK, NotedInv, StalenessBounded, conn # "down", noted # Old
               PROVE  touched <= WorstNoted
    BY DEF HealthIsTouched
  <2>1. noted <= WorstNoted /\ touched <= noted
    BY NotedIsBounded DEF NotedInv
  <2>2. noted \in Nat /\ touched \in Nat
    BY KeepAwakeConstants DEF FreshTypeOK
  <2>3. WorstNoted \in Nat
    <3>1. WorstAge \in Nat /\ Polls(MaxFailed) \in Nat
      BY WorstAgeTyped, PollsGrow, FreshnessConstants DEF FreshTypeOK
    <3> QED
      BY <3>1 DEF WorstNoted, Polls
  <2> QED
    BY <2>1, <2>2, <2>3
<1>2. (FreshSpec => []FreshTypeOK) /\ (FreshSpec => []NotedInv) /\ (Spec => []StalenessBounded)
  BY FreshTyped, NotedHolds, WorstAgeHolds
<1> QED
  BY <1>1, <1>2, SourceIsWatched, PTL

-----------------------------------------------------------------------------
(* Ages are counted beyond the worst one. *)
Counted == StaleAfter + Lag(MaxRestarts) + KillPause + FirstFetch + Polls(MaxFailed) < Old

LEMMA WorstIsCounted ==
    ASSUME FreshTypeOK, Counted
    PROVE  WorstNoted \in Nat /\ WorstNoted < Old
<1> USE KeepAwakeConstants, FreshnessConstants
<1>1. restarts \in Nat /\ restarts <= MaxRestarts
  BY DEF FreshTypeOK, TypeOK
<1>2. Lag(restarts) \in Nat /\ Lag(MaxRestarts) \in Nat /\ Lag(restarts) <= Lag(MaxRestarts)
  BY <1>1, LagGrows
<1>3. Polls(MaxFailed) \in Nat
  BY PollsGrow
<1>4. WorstNoted = StaleAfter + Lag(restarts) + KillPause + FirstFetch + Polls(MaxFailed)
  BY DEF WorstNoted, WorstAge, Lag, Polls
<1> QED
  BY <1>2, <1>3, <1>4 DEF Counted

(* What was published and lost is not the Old that stands for nothing yet.   *)
MissedInv == missed => noted # Old

LEMMA MissedStep ==
    ASSUME FreshTypeOK, StalenessBounded, NotedInv, MissedInv, Counted, [FreshNext]_freshVars
    PROVE  MissedInv'
<1> USE KeepAwakeConstants, FreshnessConstants DEF MissedInv, FreshTypeOK, TypeOK
<1>1. CASE Pass
  <2> SUFFICES ASSUME missed, noted + 1 = Old PROVE FALSE
    BY <1>1 DEF Pass, Older
  <2>1. wait > 0 /\ failed \in Nat /\ failed <= MaxFailed /\ noted \in Nat /\ age \in Nat
    BY <1>1 DEF Pass
  <2>2. WorstAge \in Nat /\ WorstNoted = WorstAge + Polls(MaxFailed) /\ WorstNoted < Old
    BY WorstAgeTyped, WorstIsCounted DEF WorstNoted, Polls
  <2>3. /\ Polls(failed) \in Nat /\ Polls(MaxFailed) \in Nat
        /\ Polls(failed) <= Polls(MaxFailed) /\ PollEvery <= Polls(failed)
    BY <2>1, PollsGrow
  <2>4. noted <= WorstAge \/ noted + wait <= WorstAge + Polls(failed)
    BY <2>1 DEF NotedInv, NotedBound, StalenessBounded
  <2> QED
    BY <2>1, <2>2, <2>3, <2>4
<1>2. CASE PollDone
  <2>1. CASE noted = age
    BY <1>2, <2>1 DEF PollDone
  <2>2. CASE noted # age
    <3>1. noted' = age /\ age # Old
      BY <1>2, <2>2 DEF PollDone, NotedInv
    <3> QED
      BY <3>1
  <2> QED
    BY <2>1, <2>2
<1>3. CASE Source \/ Watcher \/ PollFails \/ Connection \/ UNCHANGED freshVars
  BY <1>3 DEF Source, Watcher, PollFails, Connection, Break, Notice, Connect, feed, freshVars
<1> QED
  BY <1>1, <1>2, <1>3 DEF FreshNext, Poll

(* A lost publish of the cache time is made up for within that time, as long *)
(* as ages are counted so far: the safety behind MissedIsMadeUp.             *)
THEOREM LossIsRecentHolds == ASSUME Paced, Settles, Counted PROVE FreshSpec => []LossIsRecent
<1>1. FreshInit => MissedInv
  BY DEF FreshInit, MissedInv
<1>2. FreshTypeOK /\ StalenessBounded /\ NotedInv /\ MissedInv /\ [FreshNext]_freshVars => MissedInv'
  BY MissedStep
<1>3. FreshTypeOK /\ StalenessBounded /\ NotedInv /\ MissedInv => LossIsRecent
  BY NotedIsBounded DEF MissedInv, LossIsRecent
<1>4. (FreshSpec => []FreshTypeOK) /\ (FreshSpec => []NotedInv) /\ (Spec => []StalenessBounded)
  BY FreshTyped, NotedHolds, WorstAgeHolds
<1> QED
  BY <1>1, <1>2, <1>3, <1>4, SourceIsWatched, PTL DEF FreshSpec
=============================================================================
