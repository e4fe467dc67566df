----------------------------- MODULE EventQueue -----------------------------
(* What a queue for publish_event_with_ack promises (the docstrings of        *)
(* outbox.py): an event that was taken in waits until it is delivered, and   *)
(* first deliveries are in the order of intake.  Later deliveries of the     *)
(* same event (at least once) change nothing here.  Outbox is shown to       *)
(* implement this, through torn lines, timeouts and crashes.                 *)
EXTENDS Naturals

CONSTANT Event     \* the events, numbered in the order of intake

VARIABLES
    pending,       \* taken in, and not delivered yet
    delivered      \* delivered at least once

queueVars == <<pending, delivered>>

QueueInit == pending = {} /\ delivered = {}

Put ==
    /\ \E e \in Event : (\A d \in pending \cup delivered : d < e) /\ pending' = pending \cup {e}
    /\ UNCHANGED delivered

(* One event, or several that were held up: no event that waits is passed.   *)
Deliver ==
    /\ \E D \in SUBSET pending :
          /\ \A e \in D : \A d \in pending : d < e => d \in D
          /\ delivered' = delivered \cup D
          /\ pending' = pending \ D

QueueNext == Put \/ Deliver

QueueSpec == QueueInit /\ [][QueueNext]_queueVars
=============================================================================
