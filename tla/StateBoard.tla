----------------------------- MODULE StateBoard -----------------------------
(* What the bridge promises of the values that Home Assistant finds at the    *)
(* broker: each comes from the source, is never replaced by an older one and *)
(* is never newer than what the source has now.  A value is the number of    *)
(* the write of the source that made it.  Some values are blank: to show one *)
(* is to take away what was there, and nothing else takes a value away (not  *)
(* --clear, which removes configs only).  It does not promise that the       *)
(* newest value gets there.  Bridge is shown to implement this.              *)
EXTENDS Naturals

CONSTANT Place     \* where a value is shown

VARIABLES
    clock,     \* writes of the source so far
    source,    \* what the source has for a place (0: no value)
    blank,     \* the values that are empty: a place, and the write that made them
    board      \* what was last shown there (0: nothing yet)

boardVars == <<clock, source, blank, board>>

BoardInit ==
    /\ clock = 0 /\ blank = {}
    /\ source = [p \in Place |-> 0] /\ board = [p \in Place |-> 0]

SourceWrites ==
    /\ clock' = clock + 1
    /\ source' \in [Place -> 0 .. clock + 1]
    /\ \A p \in Place : source'[p] \in {clock + 1, 0, source[p]}
    /\ blank \subseteq blank'
    /\ \A b \in blank' \ blank : b \in Place \X {clock + 1} /\ source'[b[1]] = clock + 1
    /\ UNCHANGED board

Show ==
    /\ board' # board
    /\ \E p \in Place : \E v \in 1 .. clock :
          /\ board[p] <= v
          /\ source[p] # 0 => v <= source[p]
          /\ board' = [board EXCEPT ![p] = v]
    /\ UNCHANGED <<clock, source, blank>>

BoardNext == SourceWrites \/ Show

BoardSpec == BoardInit /\ [][BoardNext]_boardVars
=============================================================================
