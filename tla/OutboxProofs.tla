---------------------------- MODULE OutboxProofs ----------------------------
(* For any capacity and any number of events, failing appends and crashes:   *)
(* nothing is lost before it was acknowledged, and first deliveries are in   *)
(* the order of enqueue.                                                     *)
EXTENDS Outbox, TLAPS

(* What drain read is what the file still holds, and the lines behind it are *)
(* through.                                                                  *)
Reading ==
    pc # "idle" =>
        /\ lines = file /\ at <= Len(file) + 1
        /\ pc = "rewrite" => at <= Len(file)
        /\ \A j \in 1 .. Len(file) : j < at => file[j] = Corrupt \/ file[j] \in arrived

(* A line that is not ended is there, and was not promised to anyone.        *)
Ends == unended => Len(file) > 0 /\ file[Len(file)] \notin taken

Numbered ==
    /\ \A e \in taken \cup late \cup arrived : 0 < e /\ e < next
    /\ \A i \in 1 .. Len(file) : file[i] < next

(* Events are in the file in the order of enqueue.                           *)
Sorted ==
    \A i, j \in 1 .. Len(file) : i < j /\ file[j] # Corrupt => file[i] < file[j]

(* What paho still holds is behind nothing that is not through.              *)
LateInOrder ==
    \A e \in late : \A d \in taken \ glued : d < e => d \in arrived \cup late

InFile(e) == \E i \in 1 .. Len(file) : file[i] = e

Safe == \A e \in taken : e \in arrived \cup glued \/ InFile(e)

Inv == TypeOK /\ Reading /\ Ends /\ Numbered /\ Sorted /\ LateInOrder /\ Safe

LEMMA SafeIsNothingLost ==
    ASSUME TypeOK
    PROVE  Safe <=> NothingLost
<1>1. DOMAIN file = 1 .. Len(file)
  BY DEF TypeOK
<1> QED
  BY <1>1 DEF Safe, InFile, NothingLost

LEMMA InvInit == Init => Inv
<1> SUFFICES ASSUME Init PROVE Inv
  OBVIOUS
<1>1. file = <<>> /\ lines = <<>> /\ Len(file) = 0
  BY DEF Init
<1>2. TypeOK
  <2>1. file \in Seq(Line) /\ lines \in Seq(Line)
    BY <1>1
  <2>2. Len(file) <= MaxPending
    BY <1>1, OutboxConstants
  <2>3. next \in Nat \ {0} /\ at \in Nat \ {0} /\ {drained, torn, crashes} \subseteq Nat
    BY DEF Init
  <2>4. unended \in BOOLEAN /\ late \subseteq Nat /\ taken \subseteq Nat /\ glued \subseteq taken /\ arrived \subseteq Nat
    BY Zenon DEF Init
  <2>5. pc \in {"idle", "publish", "rewrite"}
    BY DEF Init
  <2> QED
    BY <2>1, <2>2, <2>3, <2>4, <2>5, Zenon DEF TypeOK
<1> QED
  BY <1>1, <1>2 DEF Init, Inv, Reading, Ends, Numbered, Sorted, LateInOrder, Safe

-----------------------------------------------------------------------------
(* enqueue. *)

(* The lines before the one that is written stay as they are.                *)
LEMMA WrittenLines ==
    ASSUME TypeOK, Ends, NEW line \in Nat, Written(line)
    PROVE  /\ file' \in Seq(Nat)
           /\ unended  => /\ Len(file') = Len(file) /\ file'[Len(file)] = Corrupt
                          /\ \A i \in 1 .. Len(file) : i # Len(file) => file'[i] = file[i]
           /\ ~unended => /\ Len(file') = Len(file) + 1 /\ file'[Len(file) + 1] = line
                          /\ \A i \in 1 .. Len(file) : file'[i] = file[i]
<1>1. CASE unended
  BY <1>1 DEF Written, TypeOK, Ends, Line, Corrupt
<1>2. CASE ~unended
  BY <1>2 DEF Written, TypeOK, Line
<1> QED
  BY <1>1, <1>2

(* So they stay in order below a line that is new or corrupt.                *)
LEMMA WrittenInv ==
    ASSUME Inv, Called, ~Full, NEW line \in {Corrupt, next}, Written(line)
    PROVE  /\ file' \in Seq(Line) /\ Len(file') <= MaxPending /\ Len(file') > 0
           /\ file'[Len(file')] \in {Corrupt, line}
           /\ \A i \in 1 .. Len(file') : file'[i] < next'
           /\ Sorted'
           /\ \A e \in taken : InFile(e) => InFile(e)'
<1>0. next \in Nat \ {0} /\ line \in Nat /\ MaxPending \in Nat /\ Len(file) \in Nat
  BY OutboxConstants DEF Inv, TypeOK, Corrupt
<1>1. next' = next + 1 /\ Len(file) < MaxPending
  BY <1>0 DEF Called, Full
<1>2. /\ file' \in Seq(Nat)
      /\ unended  => /\ Len(file') = Len(file) /\ file'[Len(file)] = Corrupt
                     /\ \A i \in 1 .. Len(file) : i # Len(file) => file'[i] = file[i]
      /\ ~unended => /\ Len(file') = Len(file) + 1 /\ file'[Len(file) + 1] = line
                     /\ \A i \in 1 .. Len(file) : file'[i] = file[i]
  BY <1>0, WrittenLines DEF Inv
<1>3. \A i \in 1 .. Len(file) : file[i] \in Nat /\ file[i] < next
  BY DEF Inv, TypeOK, Numbered, Line
<1>4. unended => Len(file) > 0 /\ file[Len(file)] \notin taken
  BY DEF Inv, Ends
<1>5. CASE unended
  <2>1. Len(file') = Len(file) /\ Len(file) > 0 /\ file'[Len(file)] = Corrupt
    BY <1>2, <1>4, <1>5
  <2>2. \A i \in 1 .. Len(file) : i # Len(file) => file'[i] = file[i]
    BY <1>2, <1>5
  <2>3. \A i \in 1 .. Len(file') : file'[i] < next'
    BY <1>0, <1>1, <1>3, <2>1, <2>2 DEF Corrupt
  <2>4. Sorted'
    <3> SUFFICES ASSUME NEW i \in 1 .. Len(file'), NEW j \in 1 .. Len(file'),
                        i < j, file'[j] # Corrupt
                 PROVE  file'[i] < file'[j]
      BY DEF Sorted
    <3>1. i # Len(file) /\ j # Len(file) /\ i \in 1 .. Len(file) /\ j \in 1 .. Len(file)
      BY <1>0, <2>1
    <3>2. file'[i] = file[i] /\ file'[j] = file[j]
      BY <2>2, <3>1
    <3> QED
      BY <3>1, <3>2 DEF Inv, Sorted
  <2>5. ASSUME NEW e \in taken, InFile(e) PROVE InFile(e)'
    <3>1. PICK i \in 1 .. Len(file) : file[i] = e
      BY <2>5 DEF InFile
    <3>2. i # Len(file)
      BY <1>4, <1>5, <3>1
    <3> QED
      BY <2>1, <2>2, <3>1, <3>2 DEF InFile
  <2> QED
    BY <1>0, <1>1, <1>2, <2>1, <2>3, <2>4, <2>5 DEF Line
<1>6. CASE ~unended
  <2>1. Len(file') = Len(file) + 1 /\ file'[Len(file) + 1] = line
    BY <1>2, <1>6
  <2>2. \A i \in 1 .. Len(file) : file'[i] = file[i]
    BY <1>2, <1>6
  <2>3. \A i \in 1 .. Len(file') : i \in 1 .. Len(file) \/ i = Len(file) + 1
    BY <1>0, <2>1
  <2>4. \A i \in 1 .. Len(file') : file'[i] < next'
    BY <1>0, <1>1, <1>3, <2>1, <2>2, <2>3 DEF Corrupt
  <2>5. Sorted'
    <3> SUFFICES ASSUME NEW i \in 1 .. Len(file'), NEW j \in 1 .. Len(file'),
                        i < j, file'[j] # Corrupt
                 PROVE  file'[i] < file'[j]
      BY DEF Sorted
    <3>1. i \in 1 .. Len(file)
      BY <1>0, <2>1, <2>3
    <3>2. CASE j \in 1 .. Len(file)
      BY <2>2, <3>1, <3>2 DEF Inv, Sorted
    <3>3. CASE j = Len(file) + 1
      <4>1. file'[j] = next
        BY <2>1, <3>3
      <4> QED
        BY <1>3, <2>2, <3>1, <4>1
    <3> QED
      BY <2>3, <3>2, <3>3
  <2>6. ASSUME NEW e \in taken, InFile(e) PROVE InFile(e)'
    BY <1>0, <2>1, <2>2, <2>6 DEF InFile
  <2> QED
    BY <1>0, <1>1, <1>2, <2>1, <2>4, <2>5, <2>6 DEF Line
<1> QED
  BY <1>5, <1>6
LEMMA InvEnqueue ==
    ASSUME Inv, Enqueue
    PROVE  Inv'
<1>0. next \in Nat \ {0} /\ next' = next + 1 /\ pc = "idle" /\ pc' = "idle"
  BY DEF Enqueue, Called, Inv, TypeOK
<1>1. Called /\ ~Full /\ Written(next)
  BY DEF Enqueue
<1>2. /\ file' \in Seq(Line) /\ Len(file') <= MaxPending
      /\ \A i \in 1 .. Len(file') : file'[i] < next'
      /\ Sorted'
      /\ \A e \in taken : InFile(e) => InFile(e)'
  BY <1>0, <1>1, WrittenInv
<1>3. TypeOK'
  <2>1. next' \in Nat \ {0}
    BY <1>0
  <2>2. taken' \subseteq Nat /\ glued' \subseteq taken' /\ unended' \in BOOLEAN
    <3>1. next \in Nat
      BY <1>0
    <3> QED
      BY <3>1, Zenon DEF Enqueue, Inv, TypeOK
  <2> QED
    BY <1>2, <2>1, <2>2, Zenon DEF Enqueue, Inv, TypeOK
<1>4. Numbered'
  BY <1>0, <1>2 DEF Enqueue, Inv, TypeOK, Numbered
<1>5. LateInOrder'
  BY <1>0 DEF Enqueue, Inv, TypeOK, LateInOrder, Numbered
<1>6. Safe'
  <2>1. next \in glued' \/ \E i \in 1 .. Len(file') : file'[i] = next
    <3>1. CASE unended
      BY <3>1 DEF Enqueue
    <3>2. CASE ~unended
      <4>1. Len(file') = Len(file) + 1 /\ file'[Len(file) + 1] = next /\ Len(file) \in Nat
        BY <1>0, <1>1, <3>2, WrittenLines DEF Inv, TypeOK
      <4> QED
        BY <4>1
    <3> QED
      BY <3>1, <3>2
  <2>2. \A e \in taken : e \in arrived' \cup glued' \/ InFile(e)'
    BY <1>2 DEF Enqueue, Inv, Safe
  <2>3. taken' = taken \cup {next}
    BY DEF Enqueue
  <2> QED
    BY <2>1, <2>2, <2>3 DEF Safe, InFile
<1> QED
  BY <1>0, <1>2, <1>3, <1>4, <1>5, <1>6 DEF Enqueue, Inv, Reading, Ends

LEMMA InvEnqueueTorn ==
    ASSUME Inv, EnqueueTorn
    PROVE  Inv'
<1>0. next \in Nat \ {0} /\ next' = next + 1 /\ pc = "idle" /\ pc' = "idle"
  BY DEF EnqueueTorn, Called, Inv, TypeOK
<1>1. PICK part \in {Corrupt, next} : Written(part)
  BY DEF EnqueueTorn
<1>2. /\ file' \in Seq(Line) /\ Len(file') <= MaxPending /\ Len(file') > 0
      /\ file'[Len(file')] \in {Corrupt, part}
      /\ \A i \in 1 .. Len(file') : file'[i] < next'
      /\ Sorted'
      /\ \A e \in taken : InFile(e) => InFile(e)'
  BY <1>0, <1>1, WrittenInv DEF EnqueueTorn
<1>3. TypeOK'
  BY <1>0, <1>2 DEF EnqueueTorn, Inv, TypeOK
<1>4. Numbered' /\ LateInOrder'
  BY <1>0, <1>2 DEF EnqueueTorn, Inv, TypeOK, Numbered, LateInOrder
<1>5. Ends'
  BY <1>0, <1>2 DEF EnqueueTorn, Inv, TypeOK, Ends, Numbered, Corrupt
<1>6. Safe'
  BY <1>2 DEF EnqueueTorn, Inv, Safe
<1> QED
  BY <1>0, <1>2, <1>3, <1>4, <1>5, <1>6 DEF Inv, Reading

-----------------------------------------------------------------------------
(* drain. *)

(* What comes after the lines that are through: the file that Rewrite leaves. *)
LEMMA TailLines ==
    ASSUME TypeOK, NEW n \in 1 .. Len(file)
    PROVE  /\ SubSeq(file, n, Len(file)) \in Seq(Nat)
           /\ Len(SubSeq(file, n, Len(file))) = Len(file) - n + 1
           /\ \A i \in 1 .. (Len(file) - n + 1) : SubSeq(file, n, Len(file))[i] = file[n + i - 1]
  BY DEF TypeOK, Line

(* An event that is not through is not before the place drain is at.         *)
LEMMA NotYetThrough ==
    ASSUME Inv, pc # "idle", NEW d \in taken \ (arrived \cup glued)
    PROVE  \E i \in at .. Len(file) : file[i] = d
<1>1. PICK i \in 1 .. Len(file) : file[i] = d
  BY DEF Inv, Safe, InFile
<1>2. d # Corrupt
  BY DEF Inv, Numbered, TypeOK, Corrupt
<1>3. ~(i < at)
  BY <1>1, <1>2 DEF Inv, Reading
<1> QED
  BY <1>1, <1>3 DEF Inv, TypeOK

(* So what is before the event at this place is through.                     *)
LEMMA EarlierArrived ==
    ASSUME Inv, AtEvent, NEW d \in taken \ glued, d < lines[at]
    PROVE  d \in arrived
<1>0. at \in 1 .. Len(file) /\ lines = file /\ file[at] # Corrupt /\ Len(file) \in Nat
  BY DEF AtEvent, Inv, Reading, TypeOK
<1> SUFFICES ASSUME d \notin arrived PROVE FALSE
  OBVIOUS
<1>1. PICK i \in at .. Len(file) : file[i] = d
  BY NotYetThrough DEF AtEvent
<1>2. d # Corrupt /\ i \in 1 .. Len(file)
  BY <1>0 DEF Inv, Numbered, TypeOK, Corrupt
<1>3. i # at /\ d \in Nat /\ file[at] \in Nat
  BY <1>0, <1>1, <1>2 DEF Inv, TypeOK, Line
<1>4. file[at] < file[i]
  BY <1>0, <1>1, <1>2, <1>3 DEF Inv, Sorted
<1> QED
  BY <1>0, <1>1, <1>3, <1>4

LEMMA InvPublishOk ==
    ASSUME Inv, PublishOk
    PROVE  Inv'
<1>0. /\ at \in 1 .. Len(file) /\ lines = file /\ lines[at] \in Nat /\ pc = "publish" /\ pc' = pc
      /\ UNCHANGED <<file, unended, next, lines, taken, glued>> /\ Len(file) \in Nat
  BY DEF PublishOk, AtEvent, Inv, Reading, TypeOK, Line
<1>1. arrived' = arrived \cup {lines[at]} \cup late /\ late' = {} /\ at' = at + 1
  BY DEF PublishOk
<1>2. TypeOK'
  <2>1. at' \in Nat \ {0} /\ drained' \in Nat
    BY DEF PublishOk, Inv, TypeOK
  <2>2. arrived' \subseteq Nat /\ late' \subseteq Nat
    BY <1>0, <1>1 DEF Inv, TypeOK
  <2> QED
    BY <2>1, <2>2, Zenon DEF PublishOk, Inv, TypeOK
<1>3. Reading'
  BY <1>0, <1>1 DEF Inv, Reading
<1>4. Numbered'
  <2>1. 0 < lines[at] /\ lines[at] < next
    BY <1>0 DEF PublishOk, AtEvent, Corrupt, Inv, Numbered
  <2> QED
    BY <1>0, <1>1, <2>1 DEF Inv, Numbered
<1>5. Ends' /\ Sorted' /\ LateInOrder'
  BY <1>0, <1>1 DEF Inv, Ends, Sorted, LateInOrder
<1>6. Safe'
  BY <1>0, <1>1 DEF Inv, Safe, InFile
<1> QED
  BY <1>2, <1>3, <1>4, <1>5, <1>6 DEF Inv

LEMMA InvPublishFails ==
    ASSUME Inv, PublishFails
    PROVE  Inv'
<1>0. /\ at \in 1 .. Len(file) /\ lines = file /\ lines[at] \in Nat /\ lines[at] # Corrupt
      /\ UNCHANGED <<file, unended, next, lines, at, arrived, taken, glued>> /\ Len(file) \in Nat
      /\ pc' = "rewrite"
  BY DEF PublishFails, AtEvent, Inv, Reading, TypeOK, Line
<1>1. late' \in {late, late \cup {lines[at]}} /\ AtEvent
  BY DEF PublishFails
<1>2. TypeOK'
  BY <1>0, <1>1 DEF PublishFails, Inv, TypeOK
<1>3. Reading'
  BY <1>0 DEF Inv, Reading, PublishFails, AtEvent
<1>4. Numbered'
  BY <1>0, <1>1 DEF Inv, Numbered, Corrupt
<1>5. LateInOrder'
  <2> SUFFICES ASSUME NEW e \in late', NEW d \in taken \ glued, d < e
               PROVE  d \in arrived \cup late'
    BY <1>0 DEF LateInOrder
  <2>1. CASE e \in late
    BY <1>1, <2>1 DEF Inv, LateInOrder
  <2>2. CASE e = lines[at]
    BY <1>1, <2>2, EarlierArrived
  <2> QED
    BY <1>1, <2>1, <2>2
<1>6. Ends' /\ Sorted' /\ Safe'
  BY <1>0 DEF Inv, Ends, Sorted, Safe, InFile
<1> QED
  BY <1>2, <1>3, <1>4, <1>5, <1>6 DEF Inv

LEMMA InvTruncate ==
    ASSUME Inv, Truncate
    PROVE  Inv'
<1>0. /\ lines = file /\ at = Len(file) + 1 /\ pc # "idle" /\ pc' = "idle" /\ file' = <<>>
      /\ Len(file') = 0 /\ unended' = FALSE /\ Len(file) \in Nat
      /\ UNCHANGED <<next, late, taken, glued, arrived>>
  BY DEF Truncate, Inv, Reading, TypeOK
<1>1. TypeOK'
  <2>1. file' \in Seq(Line) /\ Len(file') <= MaxPending
    BY <1>0, OutboxConstants
  <2> QED
    BY <2>1, <1>0, Zenon DEF Truncate, Inv, TypeOK
<1>2. Safe'
  <2> SUFFICES ASSUME NEW d \in taken \ (arrived \cup glued) PROVE FALSE
    BY <1>0 DEF Safe
  <2>1. PICK i \in at .. Len(file) : file[i] = d
    BY <1>0, NotYetThrough
  <2> QED
    BY <1>0, <2>1
<1> QED
  BY <1>0, <1>1, <1>2 DEF Inv, Reading, Ends, Numbered, Sorted, LateInOrder

LEMMA InvRewrite ==
    ASSUME Inv, Rewrite
    PROVE  Inv'
<1>0. /\ lines = file /\ at \in 1 .. Len(file) /\ pc # "idle" /\ pc' = "idle" /\ Len(file) \in Nat
      /\ UNCHANGED <<unended, next, late, taken, glued, arrived>>
  BY DEF Rewrite, Inv, Reading, TypeOK
<1>1. CASE drained > 0
  <2>0. file' = SubSeq(file, at, Len(file))
    BY <1>0, <1>1 DEF Rewrite
  <2>1. /\ file' \in Seq(Nat) /\ Len(file') = Len(file) - at + 1
        /\ \A i \in 1 .. Len(file') : file'[i] = file[at + i - 1]
    BY <1>0, <2>0, TailLines DEF Inv
  <2>2. \A i \in 1 .. Len(file') : at + i - 1 \in 1 .. Len(file)
    BY <1>0, <2>1
  <2>3. TypeOK'
    <3>1. file' \in Seq(Line) /\ Len(file') <= MaxPending
      BY <1>0, <2>1, OutboxConstants DEF Inv, TypeOK, Line
    <3> QED
      BY <3>1, Zenon DEF Rewrite, Inv, TypeOK
  <2>4. Ends'
    <3>1. Len(file') > 0 /\ file'[Len(file')] = file[Len(file)]
      BY <1>0, <2>1
    <3> QED
      BY <1>0, <3>1 DEF Inv, Ends
  <2>5. Numbered'
    BY <1>0, <2>1, <2>2 DEF Inv, Numbered
  <2>6. Sorted'
    <3> SUFFICES ASSUME NEW i \in 1 .. Len(file'), NEW j \in 1 .. Len(file'),
                        i < j, file'[j] # Corrupt
                 PROVE  file'[i] < file'[j]
      BY DEF Sorted
    <3>1. at + i - 1 < at + j - 1
      BY <1>0
    <3>2. file[at + i - 1] < file[at + j - 1]
      BY <2>1, <2>2, <3>1 DEF Inv, Sorted
    <3> QED
      BY <2>1, <3>2
  <2>7. Safe'
    <3> SUFFICES ASSUME NEW d \in taken \ (arrived \cup glued) PROVE InFile(d)'
      BY <1>0 DEF Safe
    <3>1. PICK i \in at .. Len(file) : file[i] = d
      BY <1>0, NotYetThrough
    <3>2. i - at + 1 \in 1 .. Len(file') /\ at + (i - at + 1) - 1 = i
      BY <1>0, <2>1, <3>1
    <3>3. file'[i - at + 1] = d
      BY <2>1, <3>1, <3>2
    <3> QED
      BY <3>2, <3>3 DEF InFile
  <2> QED
    BY <1>0, <2>3, <2>4, <2>5, <2>6, <2>7 DEF Inv, Reading, LateInOrder
<1>2. CASE ~(drained > 0)
  <2>1. file' = file
    BY <1>2 DEF Rewrite
  <2>2. TypeOK'
    BY <2>1, Zenon DEF Rewrite, Inv, TypeOK
  <2> QED
    BY <1>0, <2>1, <2>2 DEF Inv, Reading, Ends, Numbered, Sorted, LateInOrder, Safe, InFile
<1> QED
  BY <1>1, <1>2

(* The steps of drain that touch neither the file nor what arrived.          *)
LEMMA InvDrain ==
    ASSUME Inv, Drain \/ SkipCorrupt
    PROVE  Inv'
<1>0. UNCHANGED <<file, unended, next, late, taken, glued, arrived, torn, crashes>> /\ Len(file) \in Nat
  BY DEF Drain, SkipCorrupt, Inv, TypeOK
<1>1. TypeOK'
  <2>1. at' \in Nat \ {0} /\ drained' \in Nat
    BY DEF Drain, SkipCorrupt, Inv, TypeOK
  <2>2. lines' \in Seq(Line) /\ pc' \in {"idle", "publish", "rewrite"}
    BY DEF Drain, SkipCorrupt, Inv, TypeOK
  <2> QED
    BY <1>0, <2>1, <2>2, Zenon DEF Inv, TypeOK
<1>2. Reading'
  <2>1. CASE Drain
    BY <1>0, <2>1 DEF Drain, Reading
  <2>2. CASE SkipCorrupt
    BY <1>0, <2>2 DEF SkipCorrupt, Inv, Reading, TypeOK
  <2> QED
    BY <2>1, <2>2
<1> QED
  BY <1>0, <1>1, <1>2 DEF Inv, Ends, Numbered, Sorted, LateInOrder, Safe, InFile

-----------------------------------------------------------------------------
(* The rest. *)

LEMMA InvElse ==
    ASSUME Inv, EnqueueFull \/ LateArrives \/ Crash \/ UNCHANGED outboxVars
    PROVE  Inv'
<1>1. CASE EnqueueFull
  <2>1. next' \in Nat \ {0} /\ next' = next + 1 /\ next \in Nat
    BY <1>1 DEF EnqueueFull, Called, Inv, TypeOK
  <2>2. TypeOK'
    BY <1>1, <2>1, Zenon DEF EnqueueFull, Inv, TypeOK
  <2>3. Numbered'
    BY <1>1, <2>1 DEF EnqueueFull, Inv, Numbered, TypeOK, Line
  <2> QED
    BY <1>1, <2>2, <2>3 DEF EnqueueFull, Called, Inv, Reading, Ends, Sorted, LateInOrder, Safe, InFile
<1>2. CASE LateArrives
  <2>1. TypeOK'
    BY <1>2, Zenon DEF LateArrives, Inv, TypeOK
  <2> QED
    BY <1>2, <2>1 DEF LateArrives, Inv, Reading, Ends, Numbered, Sorted, LateInOrder, Safe, InFile
<1>3. CASE Crash
  <2>1. TypeOK'
    <3>1. at' \in Nat \ {0} /\ drained' \in Nat /\ crashes' \in Nat /\ lines' \in Seq(Line)
      BY <1>3 DEF Crash, Inv, TypeOK
    <3> QED
      BY <1>3, <3>1, Zenon DEF Crash, Inv, TypeOK
  <2> QED
    BY <1>3, <2>1 DEF Crash, Inv, Reading, Ends, Numbered, Sorted, LateInOrder, Safe, InFile
<1>4. CASE UNCHANGED outboxVars
  <2>1. TypeOK'
    BY <1>4, Zenon DEF outboxVars, Inv, TypeOK
  <2> QED
    BY <1>4, <2>1 DEF outboxVars, Inv, Reading, Ends, Numbered, Sorted, LateInOrder, Safe, InFile
<1> QED
  BY <1>1, <1>2, <1>3, <1>4

LEMMA InvHolds == Spec => []Inv
<1>1. Inv /\ [Next]_outboxVars => Inv'
  BY InvEnqueue, InvEnqueueTorn, InvPublishOk, InvPublishFails, InvTruncate, InvRewrite,
     InvDrain, InvElse DEF Next, DrainSteps
<1> QED
  BY InvInit, <1>1, PTL DEF Spec

(* No call of enqueue and no drain breaks the capacity or the types.         *)
THEOREM OutboxTyped == Spec => []TypeOK
<1>1. Inv => TypeOK
  BY DEF Inv
<1> QED
  BY InvHolds, <1>1, PTL

(* What enqueue has returned for stays in the file until the broker has it,  *)
(* through every failing publish, rewrite and crash of the process           *)
(* (outbox.py:83-104); what is glued to a torn line is lost.                 *)
THEOREM NothingIsLost == Spec => []NothingLost
<1>1. Inv => NothingLost
  BY SafeIsNothingLost DEF Inv
<1> QED
  BY InvHolds, <1>1, PTL

LEMMA FirstArrivals ==
    ASSUME Inv, PublishOk \/ LateArrives
    PROVE  \A e \in arrived' \ arrived : \A d \in taken \ glued : d < e => d \in arrived'
<1>1. CASE PublishOk
  <2> SUFFICES ASSUME NEW e \in arrived' \ arrived, NEW d \in taken \ glued, d < e
               PROVE  d \in arrived'
    OBVIOUS
  <2>1. arrived' = arrived \cup {lines[at]} \cup late /\ AtEvent
    BY <1>1 DEF PublishOk
  <2>2. CASE e \in late
    BY <2>1, <2>2 DEF Inv, LateInOrder
  <2>3. CASE e = lines[at]
    BY <2>1, <2>3, EarlierArrived
  <2> QED
    BY <2>1, <2>2, <2>3
<1>2. CASE LateArrives
  BY <1>2 DEF LateArrives, Inv, LateInOrder
<1> QED
  BY <1>1, <1>2

(* First deliveries are in the order of enqueue: drain stops at the first    *)
(* event that fails (outbox.py:94), and paho holds back only what is next.   *)
THEOREM DrainsInOrder == Spec => FirstInOrder
<1>1. ASSUME Inv, [Next]_outboxVars
      PROVE  [\A e \in arrived' \ arrived : \A d \in taken \ glued : d < e => d \in arrived']_outboxVars
  <2>1. CASE UNCHANGED arrived
    BY <2>1
  <2>2. UNCHANGED arrived \/ PublishOk \/ LateArrives
    BY <1>1 DEF Next, DrainSteps, Enqueue, EnqueueFull, EnqueueTorn, Drain, SkipCorrupt,
                PublishFails, Truncate, Rewrite, Crash, outboxVars
  <2> QED
    BY <1>1, <2>1, <2>2, FirstArrivals
<1> QED
  BY InvHolds, <1>1, PTL DEF Spec, FirstInOrder

-----------------------------------------------------------------------------
(* The refinement.  What waits is what was promised and has not arrived: by  *)
(* Safe all of it is in the file.                                            *)

LEMMA WaitingIs ==
    ASSUME Inv, Inv'
    PROVE  Waiting = Promised \ arrived /\ Waiting' = Promised' \ arrived'
<1>1. DOMAIN file = 1 .. Len(file) /\ DOMAIN file' = 1 .. Len(file')
  BY DEF Inv, TypeOK
<1>2. Waiting = Promised \ arrived
  BY <1>1 DEF Waiting, Promised, Inv, Safe, InFile
<1>3. Waiting' = Promised' \ arrived'
  BY <1>1 DEF Waiting, Promised, Inv, Safe, InFile
<1> QED
  BY <1>2, <1>3

(* One event is promised, unless its line is behind a torn one.              *)
LEMMA EnqueuePuts ==
    ASSUME Inv, Inv', Enqueue
    PROVE  Queue!Put \/ UNCHANGED Queue!queueVars
<1> DEFINE W == Promised \ arrived
           D == Promised \cap arrived
<1>1. Waiting = W /\ Waiting' = W'
  BY WaitingIs
<1>2. next \in 1 .. MaxEvents /\ \A d \in W \cup D : d < next
  BY DEF Enqueue, Called, Inv, TypeOK, Numbered, Promised
<1>3. arrived' = arrived /\ taken' = taken \cup {next} /\ next \notin taken \cup glued \cup arrived
  BY DEF Enqueue, Inv, TypeOK, Numbered
<1>4. CASE unended
  <2>1. W' = W /\ D' = D
    BY <1>3, <1>4 DEF Enqueue, Promised
  <2> QED
    BY <1>1, <2>1 DEF Queue!queueVars
<1>5. CASE ~unended
  <2>1. W' = W \cup {next} /\ D' = D
    BY <1>3, <1>5 DEF Enqueue, Promised
  <2> HIDE DEF W, D
  <2>2. \E e \in 1 .. MaxEvents : (\A d \in W \cup D : d < e) /\ W' = W \cup {e}
    BY <1>2, <2>1
  <2> QED
    BY <1>1, <2>1, <2>2 DEF Queue!Put, D
<1> QED
  BY <1>4, <1>5

(* What arrives for the first time passes nothing that waits.                *)
LEMMA ArrivalDelivers ==
    ASSUME Inv, Inv', UNCHANGED <<taken, glued>>, arrived \subseteq arrived',
           \A e \in arrived' \ arrived : \A d \in taken \ glued : d < e => d \in arrived'
    PROVE  Queue!Deliver
<1> DEFINE D == Promised \cap (arrived' \ arrived)
<1>1. Waiting = Promised \ arrived /\ Waiting' = Promised' \ arrived' /\ Promised' = Promised
  BY WaitingIs DEF Promised
<1>2. D \in SUBSET Waiting /\ Waiting' = Waiting \ D
  BY <1>1
<1>3. \A e \in D : \A d \in Waiting : d < e => d \in D
  BY <1>1 DEF Promised
<1>4. (Promised \cap arrived)' = (Promised \cap arrived) \cup D
  BY <1>1
<1> HIDE DEF D
<1> QED
  BY <1>2, <1>3, <1>4 DEF Queue!Deliver

LEMMA OthersStutter ==
    ASSUME Inv, Inv', UNCHANGED <<arrived, taken, glued>>
    PROVE  UNCHANGED Queue!queueVars
<1>1. Waiting = Promised \ arrived /\ Waiting' = Promised' \ arrived' /\ Promised' = Promised
  BY WaitingIs DEF Promised
<1> QED
  BY <1>1 DEF Queue!queueVars

(* The outbox implements the abstract queue, for any capacity and any number *)
(* of torn lines, timeouts and crashes.                                      *)
THEOREM OutboxIsQueue == Spec => ImplementsQueue
<1>1. Init => Queue!QueueInit
  BY DEF Init, Queue!QueueInit, Waiting, Promised
<1>2. ASSUME Inv, Inv', [Next]_outboxVars PROVE [Queue!QueueNext]_(Queue!queueVars)
  <2>1. CASE Enqueue
    BY <1>2, <2>1, EnqueuePuts DEF Queue!QueueNext
  <2>2. CASE PublishOk \/ LateArrives
    <3>1. UNCHANGED <<taken, glued>> /\ arrived \subseteq arrived'
      BY <2>2 DEF PublishOk, LateArrives
    <3>2. \A e \in arrived' \ arrived : \A d \in taken \ glued : d < e => d \in arrived'
      BY <1>2, <2>2, FirstArrivals
    <3> QED
      BY <1>2, <3>1, <3>2, ArrivalDelivers DEF Queue!QueueNext
  <2>3. CASE UNCHANGED <<arrived, taken, glued>>
    BY <1>2, <2>3, OthersStutter
  <2>4. Enqueue \/ PublishOk \/ LateArrives \/ UNCHANGED <<arrived, taken, glued>>
    BY <1>2 DEF Next, DrainSteps, EnqueueFull, EnqueueTorn, Drain, SkipCorrupt,
                PublishFails, Truncate, Rewrite, Crash, outboxVars
  <2> QED
    BY <2>1, <2>2, <2>3, <2>4
<1> QED
  BY <1>1, <1>2, InvHolds, PTL DEF Spec, ImplementsQueue, Queue!QueueSpec
=============================================================================
