-------------------------- MODULE KeySourceProofs --------------------------
(* KeySource implements CacheFeed, and its retry is enough, for every number *)
(* of files and every bound.                                                 *)
EXTENDS KeySource, TLAPS

(* What collect has read in this attempt lies between the contents when the  *)
(* poll began and the contents now.                                          *)
ReadInv ==
    /\ TypeOK
    /\ \A f \in File : floor[f] <= data[f].ver
    /\ pc \in {"look", "open"} =>
          \A f \in 1 .. at - 1 : floor[f] <= read[f] /\ read[f] <= data[f].ver

LEMMA InitReadInv == Init => ReadInv
<1> SUFFICES ASSUME Init PROVE ReadInv
  OBVIOUS
<1>1. data \in [File -> Content]
  BY DEF Init, Content, Form
<1>2. 1 \in 1 .. NFiles + 1
  BY KeySourceConstants
<1>3. \A f \in File : floor[f] <= data[f].ver
  BY DEF Init
<1>4. read \in [File -> Nat] /\ feed \in [File -> Nat] /\ floor \in [File -> Nat]
  BY DEF Init
<1>5. keychain = 1 /\ key = 0 /\ pc = "idle" /\ forced = FALSE /\ at = 1
  BY Zenon DEF Init
<1>6. keychain \in Nat \ {0} /\ key \in Nat /\ at \in 1 .. NFiles + 1
  BY <1>2, <1>5
<1>7. /\ pc \in {"idle", "key", "look", "open"} /\ forced \in BOOLEAN
      /\ pc # "open" /\ pc \notin {"look", "open"}
  BY <1>5
<1>8. TypeOK
  BY <1>1, <1>4, <1>6, <1>7, Zenon DEF TypeOK
<1> QED
  BY <1>3, <1>7, <1>8, Zenon DEF ReadInv

LEMMA StepReadInv == ReadInv /\ [Next]_vars => ReadInv'
<1> SUFFICES ASSUME ReadInv, [Next]_vars PROVE ReadInv'
  OBVIOUS
<1> USE KeySourceConstants DEF ReadInv, TypeOK
<1>1. CASE Rewrite
  <2>1. PICK f \in File, form \in Form :
            data' = [data EXCEPT ![f] = [ver |-> data[f].ver + 1, key |-> keychain,
                                         form |-> form]]
    BY <1>1 DEF Rewrite
  <2>2. [ver |-> data[f].ver + 1, key |-> keychain, form |-> form] \in Content
    BY DEF Content
  <2>3. data' \in [File -> Content]
    BY <2>1, <2>2
  <2>4. \A g \in File : data[g].ver \in Nat /\ data'[g].ver \in Nat
    BY <2>3 DEF Content
  <2>5. \A g \in File : data'[g].ver = IF g = f THEN data[g].ver + 1 ELSE data[g].ver
    BY <2>1
  <2>6. \A g \in File : data[g].ver <= data'[g].ver
    <3> SUFFICES ASSUME NEW g \in File PROVE data[g].ver <= data'[g].ver
      OBVIOUS
    <3> QED
      BY <2>4, <2>5
  <2>7. \A g \in File : floor[g] <= data'[g].ver
    <3> SUFFICES ASSUME NEW g \in File PROVE floor[g] <= data'[g].ver
      OBVIOUS
    <3> QED
      BY <2>4, <2>6
  <2>8. pc \in {"look", "open"} => \A g \in 1 .. at - 1 : read[g] <= data'[g].ver
    <3> SUFFICES ASSUME pc \in {"look", "open"}, NEW g \in 1 .. at - 1
                 PROVE  read[g] <= data'[g].ver
      OBVIOUS
    <3>1. g \in File
      BY DEF File
    <3> QED
      BY <2>4, <2>6, <3>1
  <2> QED
    BY <1>1, <2>3, <2>7, <2>8 DEF Rewrite
<1>2. CASE Rotate
  BY <1>2 DEF Rotate
<1>3. CASE Begin
  <2>1. Version \in [File -> Nat]
    BY DEF Version, Content
  <2>2. \A f \in File : data[f].ver \in Nat
    BY DEF Content
  <2>3. \A f \in File : floor'[f] <= data'[f].ver
    BY <1>3, <2>2 DEF Begin, Version
  <2> QED
    BY <1>3, <2>1, <2>3 DEF Begin
<1>4. CASE CachedKey \/ Extract \/ ExtractFails
  BY <1>4 DEF CachedKey, Extract, ExtractFails
<1>5. CASE Look \/ Open
  <2>1. at \in File /\ data[at].ver \in Nat
    BY <1>5 DEF Look, Open, Content
  <2>2. CASE Took
    <3>1. at' \in 1 .. NFiles + 1 /\ read' \in [File -> Nat]
      BY <2>1, <2>2 DEF Took, File
    <3>2. \A f \in 1 .. at' - 1 : floor[f] <= read'[f] /\ read'[f] <= data[f].ver
      BY <1>5, <2>1, <2>2 DEF Took, Look, Open, File
    <3> QED
      BY <1>5, <2>2, <3>1, <3>2 DEF Took, Look, Open
  <2>3. CASE pc' = "open" /\ UNCHANGED <<at, read>>
    BY <1>5, <2>1, <2>3 DEF Look, Open
  <2> QED
    BY <1>5, <2>2, <2>3 DEF Look, Open
<1>6. CASE OpenOdd \/ OpenFails
  BY <1>6 DEF OpenOdd, OpenFails
<1>7. CASE Return
  BY <1>7 DEF Return
<1>8. CASE UNCHANGED vars
  BY <1>8 DEF vars
<1> QED
  BY <1>1, <1>2, <1>3, <1>4, <1>5, <1>6, <1>7, <1>8 DEF Next, Poll

(* Every variable keeps its type.                                            *)
THEOREM KeySourceTyped == Spec => []TypeOK
<1>1. ReadInv => TypeOK
  BY DEF ReadInv
<1> QED
  BY <1>1, InitReadInv, StepReadInv, PTL DEF Spec

(* What a successful poll returns of a file (collect, runtime.py:35-51) is a *)
(* content the file had during that poll, also after the retry with a forced *)
(* key and when files are rewritten, removed or re-keyed in between.         *)
THEOREM KeySourceImplementsFeed == Spec => ImplementsFeed
<1>1. Init => Feed!FeedInit
  BY DEF Init, Feed!FeedInit, Version
<1>2. ReadInv /\ [Next]_vars => [Feed!FeedNext]_(Feed!feedVars)
  <2> SUFFICES ASSUME ReadInv, [Next]_vars PROVE [Feed!FeedNext]_(Feed!feedVars)
    OBVIOUS
  <2> USE KeySourceConstants DEF ReadInv, TypeOK, Feed!feedVars
  <2>1. CASE Rewrite
    <3>1. PICK f \in File, form \in Form :
              data' = [data EXCEPT ![f] = [ver |-> data[f].ver + 1, key |-> keychain,
                                           form |-> form]]
      BY <2>1 DEF Rewrite
    <3>2. Version' = [Version EXCEPT ![f] = @ + 1]
      BY <3>1 DEF Version
    <3>3. Feed!Write
      BY <2>1, <3>2 DEF Rewrite, Feed!Write
    <3> QED
      BY <3>3 DEF Feed!FeedNext
  <2>2. CASE Begin
    <3>1. Feed!Begin
      BY <2>2 DEF Begin, Feed!Begin, Version
    <3> QED
      BY <3>1 DEF Feed!FeedNext
  <2>3. CASE Return
    <3>1. \A f \in File : floor[f] <= read[f] /\ read[f] <= Version[f]
      BY <2>3 DEF Return, File, Version
    <3>2. Feed!Return
      BY <2>3, <3>1 DEF Return, Feed!Return, Version
    <3> QED
      BY <3>2 DEF Feed!FeedNext
  <2>4. CASE Rotate \/ CachedKey \/ Extract \/ Look \/ Open
    <3>1. Version' = Version /\ UNCHANGED <<floor, feed>> /\ (pc # "idle" <=> pc' # "idle")
      BY <2>4 DEF Rotate, CachedKey, Extract, NeedsKey, Look, Open, Took, Version
    <3> QED
      BY <3>1
  <2>5. CASE ExtractFails \/ OpenOdd \/ OpenFails
    <3>1. Version' = Version /\ UNCHANGED <<floor, feed>> /\ pc # "idle"
      BY <2>5 DEF ExtractFails, NeedsKey, OpenOdd, OpenFails, Version
    <3>2. CASE pc' = "idle"
      <4>1. Feed!GiveUp
        BY <3>1, <3>2 DEF Feed!GiveUp
      <4> QED
        BY <4>1 DEF Feed!FeedNext
    <3>3. CASE pc' # "idle"
      BY <3>1, <3>3
    <3> QED
      BY <3>2, <3>3
  <2>6. CASE UNCHANGED vars
    BY <2>6 DEF vars, Version
  <2> QED
    BY <2>1, <2>2, <2>3, <2>4, <2>5, <2>6 DEF Next, Poll
<1> QED
  BY <1>1, <1>2, InitReadInv, StepReadInv, PTL DEF Spec, ImplementsFeed, Feed!FeedSpec

(* During a poll, what earlier polls returned is no newer than its floor.    *)
FeedInv == \A f \in File : feed[f] <= data[f].ver /\ (pc # "idle" => feed[f] <= floor[f])

LEMMA StepFeedInv ==
    ASSUME ReadInv, FeedInv, [Next]_vars
    PROVE  FeedInv' /\ \A f \in File : feed[f] <= feed'[f]
<1> USE DEF ReadInv, FeedInv
<1>0. TypeOK /\ TypeOK' /\ \A f \in File : data[f].ver \in Nat /\ data'[f].ver \in Nat
  <2>1. ReadInv'
    BY StepReadInv
  <2>2. TypeOK /\ TypeOK'
    BY <2>1
  <2> QED
    BY <2>2 DEF TypeOK, Content
<1>1. \A f \in File : feed[f] \in Nat /\ floor[f] \in Nat /\ read[f] \in Nat
  BY <1>0 DEF TypeOK
<1>2. CASE Rewrite
  <2>1. PICK f \in File, form \in Form :
            data' = [data EXCEPT ![f] = [ver |-> data[f].ver + 1, key |-> keychain,
                                         form |-> form]]
    BY <1>2 DEF Rewrite
  <2>2. \A g \in File : data'[g].ver = IF g = f THEN data[g].ver + 1 ELSE data[g].ver
    BY <1>0, <2>1 DEF TypeOK
  <2>3. UNCHANGED <<pc, floor, feed>>
    BY <1>2 DEF Rewrite
  <2> SUFFICES ASSUME NEW g \in File
               PROVE  /\ feed'[g] <= data'[g].ver /\ feed[g] <= feed'[g]
                      /\ pc' # "idle" => feed'[g] <= floor'[g]
    OBVIOUS
  <2> QED
    BY <1>0, <1>1, <2>2, <2>3
<1>3. CASE Begin
  BY <1>0, <1>1, <1>3 DEF Begin, Version
<1>4. CASE Return
  <2>1. \A f \in File : floor[f] <= read[f] /\ read[f] <= data[f].ver
    BY <1>4, KeySourceConstants DEF Return, File
  <2>2. pc # "idle" /\ pc' = "idle" /\ feed' = read /\ UNCHANGED data
    BY <1>4 DEF Return
  <2> QED
    BY <1>0, <1>1, <2>1, <2>2
<1>5. CASE \/ Rotate \/ CachedKey \/ Extract \/ ExtractFails \/ Look \/ Open \/ OpenOdd
           \/ OpenFails \/ UNCHANGED vars
  <2>1. UNCHANGED <<data, floor, feed>> /\ (pc' # "idle" => pc # "idle")
    BY <1>5 DEF Rotate, CachedKey, Extract, ExtractFails, NeedsKey, Look, Open, OpenOdd,
                OpenFails, Took, vars
  <2> QED
    BY <1>1, <2>1
<1> QED
  BY <1>2, <1>3, <1>4, <1>5 DEF Next, Poll

(* No poll returns an older content of a file than a poll before it did.     *)
THEOREM KeySourceNeverGoesBack == Spec => Feed!FeedNeverGoesBack
<1>1. Init => FeedInv
  <2> SUFFICES ASSUME Init PROVE FeedInv
    OBVIOUS
  <2>1. pc = "idle"
    BY Zenon DEF Init
  <2>2. \A f \in File : feed[f] = 0 /\ data[f].ver = 0
    BY DEF Init
  <2> QED
    BY <2>1, <2>2 DEF FeedInv
<1>2. ReadInv /\ FeedInv /\ [Next]_vars => FeedInv'
  BY StepFeedInv
<1>3. ReadInv /\ FeedInv /\ [Next]_vars
          => [\A f \in File : feed[f] <= feed'[f]]_(Feed!feedVars)
  BY StepFeedInv
<1> QED
  BY <1>1, <1>2, <1>3, InitReadInv, StepReadInv, PTL DEF Spec, Feed!FeedNeverGoesBack

-----------------------------------------------------------------------------
(* Keys only go up.  In a retry, a file under a newer key than the one in    *)
(* hand was written in this poll; so was one that is gone since it was       *)
(* looked at.                                                                *)
RetryInv ==
    /\ key <= keychain /\ \A f \in File : data[f].key <= keychain
    /\ forced /\ pc \in {"look", "open"} =>
          \A f \in File : key < data[f].key => floor[f] < data[f].ver
    /\ pc = "open" => data[at].form # "absent" \/ floor[at] < data[at].ver

LEMMA StepRetryInv == ReadInv /\ RetryInv /\ [Next]_vars => RetryInv'
<1> SUFFICES ASSUME ReadInv, RetryInv, [Next]_vars PROVE RetryInv'
  OBVIOUS
<1>1. /\ keychain \in Nat /\ key \in Nat /\ (pc = "open" => at \in File)
      /\ \A f \in File : data[f].ver \in Nat /\ data[f].key \in Nat
      /\ \A f \in File : floor[f] \in Nat /\ floor[f] <= data[f].ver
  BY DEF ReadInv, TypeOK, Content
<1>2. CASE Rewrite
  <2>1. PICK f \in File, form \in Form :
            data' = [data EXCEPT ![f] = [ver |-> data[f].ver + 1, key |-> keychain,
                                         form |-> form]]
    BY <1>2 DEF Rewrite
  <2>2. \A g \in File : \/ data'[g] = data[g]
                        \/ data'[g].key = keychain /\ data'[g].ver = data[g].ver + 1
    BY <2>1 DEF ReadInv, TypeOK
  <2>3. UNCHANGED <<keychain, key, pc, forced, at, floor>>
    BY <1>2 DEF Rewrite
  <2>4. \A g \in File : data'[g] = data[g] \/ floor[g] < data'[g].ver
    <3> SUFFICES ASSUME NEW g \in File PROVE data'[g] = data[g] \/ floor[g] < data'[g].ver
      OBVIOUS
    <3> QED
      BY <1>1, <2>2
  <2>5. \A g \in File : data'[g].key <= keychain
    BY <1>1, <2>2 DEF RetryInv
  <2> QED
    BY <1>1, <2>3, <2>4, <2>5 DEF RetryInv
<1>3. CASE Rotate
  <2>1. keychain' = keychain + 1 /\ UNCHANGED <<data, key, pc, forced, at, floor>>
    BY <1>3 DEF Rotate
  <2>2. key <= keychain' /\ \A f \in File : data[f].key <= keychain'
    BY <1>1, <2>1 DEF RetryInv
  <2> QED
    BY <2>1, <2>2 DEF RetryInv
<1>4. CASE Extract
  <2>1. key' = keychain /\ pc' = "look" /\ UNCHANGED <<keychain, data>>
    BY <1>4 DEF Extract
  <2>2. \A f \in File : ~(key' < data[f].key)
    BY <1>1, <2>1 DEF RetryInv
  <2> QED
    BY <1>1, <2>1, <2>2 DEF RetryInv
<1>5. CASE Begin \/ CachedKey \/ ExtractFails \/ OpenOdd \/ OpenFails \/ Return
  <2>1. UNCHANGED <<keychain, data, key>> /\ pc' # "open" /\ (pc' = "look" => ~forced')
    BY <1>5 DEF Begin, CachedKey, ExtractFails, OpenOdd, OpenFails, Return
  <2> QED
    BY <2>1 DEF RetryInv
<1>6. CASE Look \/ Open
  <2>1. /\ UNCHANGED <<keychain, data, key, forced, floor>> /\ pc \in {"look", "open"}
        /\ pc' = "open" => pc = "look" /\ at' = at /\ data[at].form # "absent"
    BY <1>6 DEF Look, Open, Took
  <2> QED
    BY <2>1 DEF RetryInv
<1>7. CASE UNCHANGED vars
  BY <1>7 DEF vars, RetryInv
<1> QED
  BY <1>2, <1>3, <1>4, <1>5, <1>6, <1>7 DEF Next, Poll

(* The safety behind Recovers: with a forced key that was extracted in this  *)
(* poll, only a write of FindMy during the poll can make its retry fail on   *)
(* files that are readable when it gives up.                                 *)
THEOREM RetryIsEnoughHolds == Spec => RetryIsEnough
<1>1. Init => RetryInv
  BY DEF Init, RetryInv
<1>2. ReadInv /\ RetryInv /\ [Next]_vars
          => [pc = "open" /\ pc' = "idle" /\ AllReadable => Version # floor]_vars
  <2> SUFFICES ASSUME ReadInv, RetryInv, [Next]_vars, pc = "open", pc' = "idle", AllReadable
               PROVE  Version # floor
    OBVIOUS
  <2>1. at \in File /\ floor[at] \in Nat /\ key \in Nat /\ keychain \in Nat /\ data[at].ver \in Nat
    BY DEF ReadInv, TypeOK, Content
  <2>2. OpenFails /\ forced
    BY <2>1 DEF Next, Rewrite, Rotate, Poll, Begin, CachedKey, Extract, ExtractFails, NeedsKey,
                Look, Open, Took, OpenOdd, OpenFails, Return, Readable, AllReadable, vars
  <2>3. data[at].form = "absent" \/ (data[at].key = keychain /\ data[at].key # key)
    BY <2>1, <2>2 DEF OpenFails, Readable, AllReadable
  <2>4. floor[at] < data[at].ver
    <3>1. CASE data[at].form = "absent"
      BY <3>1 DEF RetryInv
    <3>2. CASE data[at].key = keychain /\ data[at].key # key
      BY <2>1, <2>2, <3>2 DEF RetryInv
    <3> QED
      BY <2>3, <3>1, <3>2
  <2>5. Version[at] = data[at].ver
    BY <2>1 DEF Version
  <2> QED
    BY <2>1, <2>4, <2>5
<1> QED
  BY <1>1, <1>2, InitReadInv, StepReadInv, StepRetryInv, PTL DEF Spec, RetryIsEnough
=============================================================================
