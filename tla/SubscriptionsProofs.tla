------------------------ MODULE SubscriptionsProofs ------------------------
(* For any topics and any number of lost connections: no message that the    *)
(* broker sends is without a handler, and no topic without a subscription.   *)
EXTENDS Subscriptions, TLAPS

(* The topic that subscribe is about is in the map by the time it is sent,   *)
(* and so is what the client may still read of a connection that was lost.   *)
Inv == TypeOK /\ NoneIgnored /\ inbox \subseteq map /\ (pc # "app" => cur \in map)

LEMMA InvInit == Init => Inv
<1> SUFFICES ASSUME Init PROVE Inv
  OBVIOUS
<1>1. births \in 0 .. MaxBirths /\ drops \in 0 .. MaxDrops
  BY SubscriptionsConstants DEF Init
<1>2. cur \in Topics
  BY SubscriptionsConstants DEF Init
<1> QED
  BY <1>1, <1>2, Zenon DEF Init, Inv, TypeOK, NoneIgnored

LEMMA InvMain ==
    ASSUME Inv, Main
    PROVE  Inv'
<1>1. CASE Subscribe
  BY <1>1 DEF Subscribe, Inv, TypeOK, NoneIgnored, loopVars, linkVars
<1>2. CASE IfConnected
  BY <1>2 DEF IfConnected, Inv, TypeOK, NoneIgnored, loopVars, linkVars
<1>3. CASE SendNow
  <2>1. subscribed' \subseteq map /\ subscribed \subseteq subscribed'
    BY <1>3 DEF SendNow, Send, Inv, NoneIgnored
  <2> QED
    BY <1>3, <2>1 DEF SendNow, Inv, TypeOK, NoneIgnored, loopVars
<1> QED
  BY <1>1, <1>2, <1>3 DEF Main

LEMMA InvLoop ==
    ASSUME Inv, BeginLoop \/ LoopSends \/ LoopEnds \/ LoopRaises
    PROVE  Inv'
<1>1. CASE BeginLoop
  BY <1>1 DEF BeginLoop, Inv, TypeOK, NoneIgnored, mainVars, linkVars
<1>2. CASE LoopSends
  <2>1. PICK t \in left : left' = left \ {t} /\ Send(t)
    BY <1>2 DEF LoopSends
  <2>2. subscribed' \subseteq map /\ subscribed \subseteq subscribed'
    BY <2>1 DEF Send, Inv, TypeOK, NoneIgnored
  <2> QED
    BY <1>2, <2>1, <2>2 DEF LoopSends, Inv, TypeOK, NoneIgnored, mainVars
<1>3. CASE LoopEnds
  BY <1>3 DEF LoopEnds, Inv, TypeOK, NoneIgnored, mainVars, linkVars
<1>4. CASE LoopRaises
  BY <1>4 DEF LoopRaises, Inv, TypeOK, NoneIgnored, mainVars, linkVars
<1> QED
  BY <1>1, <1>2, <1>3, <1>4

LEMMA InvCallbacks ==
    ASSUME Inv, Connect \/ OnConnect \/ OnDisconnect \/ OnMessage
    PROVE  Inv'
<1>1. CASE Connect
  BY <1>1 DEF Connect, Inv, TypeOK, NoneIgnored, mainVars
<1>2. CASE OnConnect
  BY <1>2 DEF OnConnect, Inv, TypeOK, NoneIgnored, mainVars, linkVars
<1>3. CASE OnDisconnect
  BY <1>3 DEF OnDisconnect, Inv, TypeOK, NoneIgnored, mainVars
<1>4. CASE OnMessage
  <2>1. PICK t \in inbox : inbox' = inbox \ {t} /\ ignored' = (ignored \/ t \notin map)
    BY <1>4 DEF OnMessage
  <2>2. t \in map
    BY DEF Inv, TypeOK, NoneIgnored
  <2>3. ~ignored'
    BY <2>1, <2>2 DEF Inv, NoneIgnored
  <2> QED
    BY <1>4, <2>1, <2>3 DEF OnMessage, Inv, TypeOK, NoneIgnored, mainVars, loopVars
<1> QED
  BY <1>1, <1>2, <1>3, <1>4

LEMMA InvWorld ==
    ASSUME Inv, Break \/ Birth \/ UNCHANGED vars
    PROVE  Inv'
<1>1. CASE Break
  BY <1>1, SubscriptionsConstants DEF Break, Inv, TypeOK, NoneIgnored, mainVars, loopVars
<1>2. CASE Birth
  BY <1>2, SubscriptionsConstants DEF Birth, Inv, TypeOK, NoneIgnored, mainVars, loopVars
<1>3. CASE UNCHANGED vars
  BY <1>3 DEF vars, Inv, TypeOK, NoneIgnored, mainVars, loopVars, linkVars
<1> QED
  BY <1>1, <1>2, <1>3

LEMMA InvHolds == Spec => []Inv
<1>1. Inv /\ [Next]_vars => Inv'
  BY InvMain, InvLoop, InvCallbacks, InvWorld DEF Next, NetworkThread
<1> QED
  BY InvInit, <1>1, PTL DEF Spec

(* Types, and that the keys which the loop of _on_connect goes through are   *)
(* still in the map: nothing takes a handler out (paho_publisher.py:195).    *)
THEOREM SubscriptionsTyped == Spec => []TypeOK
<1>1. Inv => TypeOK
  BY DEF Inv
<1> QED
  BY InvHolds, <1>1, PTL

(* No message finds the map without its topic (paho_publisher.py:299-302).   *)
THEOREM NoMessageIgnored == Spec => []NoneIgnored
<1>1. Inv => NoneIgnored
  BY DEF Inv
<1> QED
  BY InvHolds, <1>1, PTL

-----------------------------------------------------------------------------
(* On a live connection, a topic is subscribed to, or still to come in the   *)
(* loop, or the one that subscribe is about to send.                         *)
Reapplied ==
    net = "up" =>
        /\ netpc \in {"connected", "loop", "idle"} => connected
        /\ netpc = "loop" => seen \subseteq subscribed \cup left
        /\ netpc = "idle" => map \subseteq subscribed \cup (IF pc = "app" THEN {} ELSE {cur})

LEMMA ReappliedMain == ASSUME Inv, Reapplied, Main PROVE Reapplied'
<1>1. CASE Subscribe
  BY <1>1 DEF Subscribe, Reapplied, Inv, loopVars, linkVars
<1>2. CASE IfConnected
  BY <1>2 DEF IfConnected, Reapplied, Inv, TypeOK, loopVars, linkVars
<1>3. CASE SendNow
  <2>1. UNCHANGED <<map, cur, connected, netpc, left, seen, net>> /\ pc = "send" /\ pc' = "app"
    BY <1>3 DEF SendNow, loopVars
  <2>2. net = "up" => subscribed' = subscribed \cup {cur}
    BY <1>3 DEF SendNow, Send
  <2> QED
    BY <2>1, <2>2 DEF Reapplied
<1> QED
  BY <1>1, <1>2, <1>3 DEF Main

LEMMA ReappliedThread == ASSUME Inv, Reapplied, NetworkThread PROVE Reapplied'
<1>1. CASE Connect
  BY <1>1 DEF Connect, Reapplied, mainVars
<1>2. CASE OnConnect
  BY <1>2 DEF OnConnect, Reapplied, mainVars, linkVars
<1>3. CASE BeginLoop
  BY <1>3 DEF BeginLoop, Reapplied, mainVars, linkVars
<1>4. CASE LoopSends
  <2>1. PICK t \in left : left' = left \ {t} /\ Send(t)
    BY <1>4 DEF LoopSends
  <2>2. UNCHANGED <<connected, netpc, seen, net>> /\ netpc = "loop"
    BY <1>4 DEF LoopSends
  <2>3. net = "up" => subscribed' = subscribed \cup {t}
    BY <2>1 DEF Send
  <2> QED
    BY <2>1, <2>2, <2>3 DEF Reapplied
<1>5. CASE LoopEnds
  BY <1>5 DEF LoopEnds, Reapplied, mainVars, linkVars
<1>6. CASE LoopRaises
  BY <1>6 DEF LoopRaises, Reapplied, mainVars, linkVars
<1>7. CASE OnDisconnect
  BY <1>7 DEF OnDisconnect, Reapplied, mainVars
<1>8. CASE OnMessage
  BY <1>8 DEF OnMessage, Reapplied, mainVars, loopVars
<1> QED
  BY <1>1, <1>2, <1>3, <1>4, <1>5, <1>6, <1>7, <1>8 DEF NetworkThread

LEMMA ReappliedStep == ASSUME Inv, Reapplied, [Next]_vars PROVE Reapplied'
<1>1. CASE Break
  BY <1>1 DEF Break, Reapplied
<1>2. CASE Birth
  BY <1>2 DEF Birth, Reapplied, mainVars, loopVars
<1>3. CASE UNCHANGED vars
  BY <1>3 DEF vars, Reapplied, mainVars, loopVars, linkVars
<1> QED
  BY <1>1, <1>2, <1>3, ReappliedMain, ReappliedThread DEF Next

(* Whenever the network thread has dealt with a connection that is up, and   *)
(* no subscribe is under way, the broker has every topic of the map: the     *)
(* safety behind Resubscribed, however often the connection is lost and      *)
(* wherever a subscribe meets _on_connect.                                   *)
THEOREM NothingIsForgotten == Spec => []NothingForgotten
<1>1. Init => Reapplied
  BY DEF Init, Reapplied
<1>2. Inv /\ Reapplied /\ [Next]_vars => Reapplied'
  BY ReappliedStep
<1>3. Reapplied => NothingForgotten
  BY DEF Reapplied, NothingForgotten
<1> QED
  BY <1>1, <1>2, <1>3, InvHolds, PTL DEF Spec
=============================================================================
