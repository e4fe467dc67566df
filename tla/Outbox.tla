------------------------------- MODULE Outbox -------------------------------
(* The disk-backed queue of the toolkit (outbox.py), drained through          *)
(* publish_event_with_ack (paho_publisher.py).  Events are numbered in the    *)
(* order in which enqueue is called with them.  The lock is held for a whole  *)
(* enqueue and for a whole drain, so an enqueue is one step, at pc = "idle".  *)
EXTENDS Naturals, Sequences

CONSTANTS
    MaxPending,    \* max_pending
    MaxEvents,     \* bound: calls of enqueue
    MaxTorn,       \* bound: appends that fail with a part of the line written
    MaxCrashes     \* bound: times the process dies

ASSUME OutboxConstants ==
    MaxPending \in Nat /\ MaxEvents \in Nat /\ MaxTorn \in Nat /\ MaxCrashes \in Nat

Corrupt == 0        \* a line that json.loads rejects

VARIABLES
    file,      \* the lines of the file: events, or Corrupt
    unended,   \* its last line has no newline
    next,      \* the event of the next call of enqueue
    pc,        \* drain: idle, in its loop, or after it
    lines, at, drained,   \* its local variables
    late,      \* what publish_event_with_ack gave to paho and gave up waiting for
    torn, crashes,
    taken,     \* history: events whose enqueue wrote a line and returned
    glued,     \* history: those of them written behind an unended line
    arrived    \* history: events the broker has taken

outboxVars == <<file, unended, next, pc, lines, at, drained, late, torn, crashes,
                taken, glued, arrived>>

Line == Nat

TypeOK ==
    /\ file \in Seq(Line) /\ Len(file) <= MaxPending
    /\ unended \in BOOLEAN /\ next \in Nat \ {0}
    /\ pc \in {"idle", "publish", "rewrite"}
    /\ lines \in Seq(Line) /\ at \in Nat \ {0} /\ drained \in Nat
    /\ late \subseteq Nat /\ torn \in Nat /\ crashes \in Nat
    /\ taken \subseteq Nat /\ glued \subseteq taken /\ arrived \subseteq Nat

Init ==
    /\ file = <<>> /\ unended = FALSE /\ next = 1
    /\ pc = "idle" /\ lines = <<>> /\ at = 1 /\ drained = 0
    /\ late = {} /\ torn = 0 /\ crashes = 0
    /\ taken = {} /\ glued = {} /\ arrived = {}

-----------------------------------------------------------------------------
(* enqueue. *)

Called == pc = "idle" /\ next <= MaxEvents /\ next' = next + 1

(* A line written behind an unended one is a part of that one. *)
Written(line) ==
    file' = IF unended THEN [file EXCEPT ![Len(file)] = Corrupt] ELSE Append(file, line)

Full == Len(file) >= MaxPending

(* Mutant: the cap is off by one. *)
EnqueueOneMore ==
    /\ Called /\ Len(file) <= MaxPending
    /\ Written(next) /\ unended' = FALSE
    /\ taken' = taken \cup {next}
    /\ glued' = IF unended THEN glued \cup {next} ELSE glued
    /\ UNCHANGED <<pc, lines, at, drained, late, torn, crashes, arrived>>

Enqueue ==
    /\ Called /\ ~Full
    /\ Written(next) /\ unended' = FALSE
    /\ taken' = taken \cup {next}
    /\ glued' = IF unended THEN glued \cup {next} ELSE glued
    /\ UNCHANGED <<pc, lines, at, drained, late, torn, crashes, arrived>>

(* The event is dropped, with a line in the log. *)
EnqueueFull ==
    /\ Called /\ Full
    /\ UNCHANGED <<file, unended, pc, lines, at, drained, late, torn, crashes,
                   taken, glued, arrived>>

(* The disk is full: the write raises with a part of the line, or all of it  *)
(* but the newline, in the file.                                             *)
EnqueueTorn ==
    /\ Called /\ ~Full /\ torn < MaxTorn
    /\ torn' = torn + 1
    /\ \E part \in {Corrupt, next} : Written(part)
    /\ unended' = TRUE
    /\ UNCHANGED <<pc, lines, at, drained, late, crashes, taken, glued, arrived>>

-----------------------------------------------------------------------------
(* drain. *)

Drain ==
    /\ pc = "idle" /\ file # <<>>
    /\ pc' = "publish" /\ lines' = file /\ at' = 1 /\ drained' = 0
    /\ UNCHANGED <<file, unended, next, late, torn, crashes, taken, glued, arrived>>

AtEvent == pc = "publish" /\ at <= Len(lines) /\ lines[at] # Corrupt

SkipCorrupt ==
    /\ pc = "publish" /\ at <= Len(lines) /\ lines[at] = Corrupt
    /\ at' = at + 1
    /\ UNCHANGED <<file, unended, next, pc, lines, drained, late, torn, crashes,
                   taken, glued, arrived>>

(* publish_fn returns True: the PUBACK of this event came in time, and with  *)
(* it whatever paho held back before.                                        *)
PublishOk ==
    /\ AtEvent
    /\ arrived' = arrived \cup {lines[at]} \cup late /\ late' = {}
    /\ at' = at + 1 /\ drained' = drained + 1
    /\ UNCHANGED <<file, unended, next, pc, lines, torn, crashes, taken, glued>>

(* Mutant: a failing event does not hold up the others. *)
PublishSkips ==
    /\ AtEvent
    /\ at' = at + 1
    /\ late' \in {late, late \cup {lines[at]}}
    /\ UNCHANGED <<file, unended, next, pc, lines, drained, torn, crashes, taken, glued,
                   arrived>>

(* It returns False or raises: no connection, or no PUBACK within the time;  *)
(* in the second case paho keeps the event and will send it.                 *)
PublishFails ==
    /\ AtEvent
    /\ pc' = "rewrite"
    /\ late' \in {late, late \cup {lines[at]}}
    /\ UNCHANGED <<file, unended, next, lines, at, drained, torn, crashes, taken, glued,
                   arrived>>

(* Everything is through: write_text("").                                    *)
Truncate ==
    /\ pc = "publish" /\ at = Len(lines) + 1
    /\ file' = <<>> /\ unended' = FALSE /\ pc' = "idle"
    /\ UNCHANGED <<next, lines, at, drained, late, torn, crashes, taken, glued, arrived>>

(* Mutant: the tail starts behind the event that failed. *)
RewriteShort ==
    /\ pc = "rewrite"
    /\ file' = IF drained > 0 THEN SubSeq(lines, at + 1, Len(lines)) ELSE file
    /\ unended' = (unended /\ file' # <<>>) /\ pc' = "idle"
    /\ UNCHANGED <<next, lines, at, drained, late, torn, crashes, taken, glued, arrived>>

(* Mutant: what was published stays until everything is through. *)
RewriteNothing ==
    /\ pc = "rewrite" /\ pc' = "idle"
    /\ UNCHANGED <<file, unended, next, lines, at, drained, late, torn, crashes, taken,
                   glued, arrived>>

(* The rest, with the failing event first, replaces the file; nothing is     *)
(* written if no event was published before it.                              *)
Rewrite ==
    /\ pc = "rewrite" /\ pc' = "idle"
    /\ file' = IF drained > 0 THEN SubSeq(lines, at, Len(lines)) ELSE file
    /\ UNCHANGED <<unended, next, lines, at, drained, late, torn, crashes, taken, glued,
                   arrived>>

-----------------------------------------------------------------------------
(* The world. *)

(* paho sends what it still holds. *)
LateArrives ==
    /\ late # {} /\ late' = {}
    /\ arrived' = arrived \cup late
    /\ UNCHANGED <<file, unended, next, pc, lines, at, drained, torn, crashes, taken, glued>>

(* The process dies and another one opens the same file. *)
Crash ==
    /\ crashes < MaxCrashes /\ crashes' = crashes + 1
    /\ pc' = "idle" /\ lines' = <<>> /\ at' = 1 /\ drained' = 0 /\ late' = {}
    /\ UNCHANGED <<file, unended, next, torn, taken, glued, arrived>>

DrainSteps == Drain \/ SkipCorrupt \/ PublishFails \/ Truncate \/ Rewrite

Next ==
    \/ Enqueue \/ EnqueueFull \/ EnqueueTorn
    \/ DrainSteps \/ PublishOk \/ LateArrives \/ Crash

Spec == Init /\ [][Next]_outboxVars

(* drain is called again and again, and the broker can be reached again and  *)
(* again.                                                                    *)
FairSpec == Spec /\ WF_outboxVars(DrainSteps \/ PublishOk) /\ SF_outboxVars(PublishOk)

-----------------------------------------------------------------------------
(* An event is dropped from the file only after its PUBACK, whatever fails   *)
(* or dies in between; the exception are events behind a torn line, which    *)
(* drain takes for one corrupt line together.                                *)
NothingLost ==
    \A e \in taken : e \in arrived \cup glued \/ \E i \in DOMAIN file : file[i] = e

(* "Try to publish every queued event in FIFO order": no event reaches the   *)
(* broker for the first time before one that was enqueued earlier.           *)
FirstInOrder ==
    [][\A e \in arrived' \ arrived : \A d \in taken \ glued : d < e => d \in arrived']_outboxVars

(* Every event that was written arrives, through timeouts and restarts.      *)
EveryEventArrives ==
    \A e \in 1 .. MaxEvents : e \in taken \ glued ~> e \in arrived

(* What was promised: a line was written for it, and not behind a torn one.  *)
Promised == taken \ glued

Waiting == {e \in Promised \ arrived : \E i \in DOMAIN file : file[i] = e}

Queue == INSTANCE EventQueue
            WITH Event <- 1 .. MaxEvents, pending <- Waiting, delivered <- Promised \cap arrived

(* The file is a queue: rewrites, torn lines, crashes and late answers are   *)
(* steps that change nothing of what waits, or deliver what is in front.     *)
ImplementsQueue == Queue!QueueSpec
=============================================================================
