-------------------------- MODULE BridgeSafetyProofs --------------------------
(* OnlineWhileUp, ConfigsHeld and OnlineImpliesSession, for every set of     *)
(* records and entities and every bound.                                     *)
(*                                                                           *)
(* The invariants speak of the sets of messages on the wire and in paho's    *)
(* queue, not of their order; the first lemmas say what each operation does  *)
(* to these sets.                                                            *)
EXTENDS BridgeProofs

OnWire  == {<<wire[i].topic, wire[i].body>> : i \in DOMAIN wire}
Waiting == {<<out[i].topic, out[i].body>> : i \in DOMAIN out}

-----------------------------------------------------------------------------
(* What the operations do to the two sets.                                   *)

(* The set of the bodies of a sequence after Append.                         *)
LEMMA AppendedPairs ==
    ASSUME NEW S, NEW s \in Seq(S), NEW x \in S
    PROVE  /\ DOMAIN Append(s, x) = 1 .. (Len(s) + 1)
           /\ \A i \in DOMAIN s : Append(s, x)[i] = s[i]
           /\ Append(s, x)[Len(s) + 1] = x
           /\ DOMAIN s = 1 .. Len(s) /\ Len(s) \in Nat
  OBVIOUS

LEMMA WireGrows ==
    ASSUME TypeOK, NEW t \in Topic, NEW b \in Body, NEW q \in {0, 1},
           wire' = Append(wire, [topic |-> t, body |-> b, qos |-> q])
    PROVE  OnWire' = OnWire \cup {<<t, b>>}
<1>1. wire \in Seq(Packet) /\ [topic |-> t, body |-> b, qos |-> q] \in Packet
  BY DEF TypeOK, MqttTypeOK, Packet
<1>2. /\ DOMAIN wire' = 1 .. (Len(wire) + 1)
      /\ \A i \in DOMAIN wire : wire'[i] = wire[i]
      /\ wire'[Len(wire) + 1] = [topic |-> t, body |-> b, qos |-> q]
      /\ DOMAIN wire = 1 .. Len(wire) /\ Len(wire) \in Nat
  BY <1>1, AppendedPairs
<1>3. DOMAIN wire' = DOMAIN wire \cup {Len(wire) + 1}
  BY <1>2
<1> QED
  BY <1>2, <1>3 DEF OnWire

LEMMA QueueGrows ==
    ASSUME TypeOK, NEW t \in Topic, NEW b \in Body, NEW x \in BOOLEAN,
           out' = Append(out, [topic |-> t, body |-> b, sent |-> x])
    PROVE  Waiting' = Waiting \cup {<<t, b>>}
<1>1. out \in Seq(Pending) /\ [topic |-> t, body |-> b, sent |-> x] \in Pending
  BY DEF TypeOK, MqttTypeOK, Pending
<1>2. /\ DOMAIN out' = 1 .. (Len(out) + 1)
      /\ \A i \in DOMAIN out : out'[i] = out[i]
      /\ out'[Len(out) + 1] = [topic |-> t, body |-> b, sent |-> x]
      /\ DOMAIN out = 1 .. Len(out) /\ Len(out) \in Nat
  BY <1>1, AppendedPairs
<1>3. DOMAIN out' = DOMAIN out \cup {Len(out) + 1}
  BY <1>2
<1> QED
  BY <1>2, <1>3 DEF Waiting

LEMMA Publish0Effect ==
    ASSUME TypeOK, NEW t \in Topic, NEW b \in Body, Publish0(t, b)
    PROVE  /\ OnWire' = IF net = "down" THEN OnWire ELSE OnWire \cup {<<t, b>>}
           /\ Waiting' = Waiting
  BY WireGrows DEF Publish0, OnWire, Waiting

LEMMA Publish1Effect ==
    ASSUME TypeOK, NEW t \in Topic, NEW b \in Body, Publish1(t, b) \/ Send1(t, b)
    PROVE  /\ OnWire' = IF net = "down" THEN OnWire ELSE OnWire \cup {<<t, b>>}
           /\ Waiting' = Waiting \cup {<<t, b>>}
<1>1. Waiting' = Waiting \cup {<<t, b>>}
  <2>1. out' = Append(out, [topic |-> t, body |-> b, sent |-> (net # "down")])
    BY DEF Publish1, Send1
  <2>2. (net # "down") \in BOOLEAN
    OBVIOUS
  <2> QED
    BY <2>1, <2>2, QueueGrows
<1>2. CASE net = "down"
  BY <1>1, <1>2 DEF Publish1, Send1, OnWire
<1>3. CASE net # "down"
  BY <1>1, <1>3, WireGrows DEF Publish1, Send1
<1> QED
  BY <1>2, <1>3

LEMMA MirrorEffect ==
    ASSUME TypeOK, NEW t \in Topic, NEW b \in Body, Mirror(t, b)
    PROVE  /\ OnWire' = OnWire \/ (net # "down" /\ OnWire' = OnWire \cup {<<t, b>>})
           /\ Waiting' = Waiting
  BY Publish0Effect DEF Mirror, OnWire, Waiting

LEMMA ResendEffect ==
    ASSUME TypeOK, Resend
    PROVE  /\ OnWire \subseteq OnWire' /\ OnWire' \subseteq OnWire \cup Waiting
           /\ Waiting' = Waiting
<1>1. CASE UNCHANGED <<wire, out>>
  BY <1>1 DEF OnWire, Waiting
<1>2. ASSUME NEW i \in Queued,
             wire' = Append(wire, [topic |-> out[i].topic, body |-> out[i].body, qos |-> 1]),
             out' = [out EXCEPT ![i].sent = TRUE]
      PROVE  /\ OnWire \subseteq OnWire' /\ OnWire' \subseteq OnWire \cup Waiting
             /\ Waiting' = Waiting
  <2>1. i \in DOMAIN out /\ out[i] \in Pending
    BY DEF Queued, TypeOK, MqttTypeOK
  <2>2. out[i].topic \in Topic /\ out[i].body \in Body
    BY <2>1 DEF Pending
  <2>3. OnWire' = OnWire \cup {<<out[i].topic, out[i].body>>}
    BY <1>2, <2>2, WireGrows
  <2>4. DOMAIN out' = DOMAIN out
    BY <1>2
  <2>5. \A j \in DOMAIN out : out'[j].topic = out[j].topic /\ out'[j].body = out[j].body
    <3>1. \A j \in DOMAIN out : out[j] \in Pending
      BY DEF TypeOK, MqttTypeOK
    <3> QED
      BY <1>2, <3>1 DEF Pending
  <2> QED
    BY <2>1, <2>3, <2>4, <2>5 DEF Waiting
<1> QED
  BY <1>1, <1>2 DEF Resend

LEMMA OnDisconnectEffect ==
    ASSUME TypeOK, OnDisconnect
    PROVE  OnWire' = OnWire /\ Waiting' = Waiting
<1>1. \A j \in DOMAIN out : out[j] \in Pending
  BY DEF TypeOK, MqttTypeOK
<1>2. \A m \in Pending : [m EXCEPT !.sent = FALSE].topic = m.topic
                         /\ [m EXCEPT !.sent = FALSE].body = m.body
  BY DEF Pending
<1>3. DOMAIN out' = DOMAIN out
  BY DEF OnDisconnect
<1>4. \A j \in DOMAIN out : out'[j].topic = out[j].topic /\ out'[j].body = out[j].body
  BY <1>1, <1>2 DEF OnDisconnect
<1> QED
  BY <1>3, <1>4 DEF OnDisconnect, OnWire, Waiting

(* A PUBACK takes at most the message it answers out of the queue.           *)
LEMMA AckedEffect ==
    ASSUME TypeOK, NEW m, Acked(m)
    PROVE  Waiting' \subseteq Waiting /\ Waiting \subseteq Waiting' \cup {<<m.topic, m.body>>}
<1>1. CASE UNCHANGED out
  BY <1>1 DEF Waiting
<1>2. ASSUME NEW k \in DOMAIN out, Holds(k, m), out' = Without(k)
      PROVE  Waiting' \subseteq Waiting /\ Waiting \subseteq Waiting' \cup {<<m.topic, m.body>>}
  <2>1. out' = [i \in 1 .. (Len(out) - 1) |-> IF i < k THEN out[i] ELSE out[i + 1]]
    BY <1>2 DEF Without
  <2>2. Len(out) \in Nat /\ DOMAIN out = 1 .. Len(out)
    BY DEF TypeOK, MqttTypeOK
  <2>3. k \in DOMAIN out /\ Holds(k, m)
    BY <1>2
  <2>4. DOMAIN out' = 1 .. (Len(out) - 1)
    BY <2>1
  <2>5. \A i \in DOMAIN out' : \E j \in DOMAIN out : out'[i] = out[j]
    BY <2>1, <2>2, <2>3, <2>4
  <2>6. \A j \in DOMAIN out : j # k => \E i \in DOMAIN out' : out'[i] = out[j]
    <3> SUFFICES ASSUME NEW j \in DOMAIN out, j # k
                 PROVE  \E i \in DOMAIN out' : out'[i] = out[j]
      OBVIOUS
    <3>1. CASE j < k
      BY <3>1, <2>1, <2>2, <2>3, <2>4
    <3>2. CASE j > k
      <4>1. j - 1 \in DOMAIN out' /\ out'[j - 1] = out[j]
        BY <3>2, <2>1, <2>2, <2>3, <2>4
      <4> QED
        BY <4>1
    <3> QED
      BY <3>1, <3>2, <2>2, <2>3
  <2>7. out[k].topic = m.topic /\ out[k].body = m.body
    BY <2>3 DEF Holds
  <2> QED
    BY <2>5, <2>6, <2>7 DEF Waiting
<1> QED
  BY <1>1, <1>2 DEF Acked

(* Delivery moves the head of the wire to the broker.                        *)
Front == <<Head(wire).topic, Head(wire).body>>

LEMMA DeliverEffect ==
    ASSUME TypeOK, Deliver
    PROVE  /\ Head(wire).topic \in Topic /\ Head(wire).body \in Body
           /\ Front \in OnWire
           /\ OnWire' \subseteq OnWire /\ OnWire \subseteq OnWire' \cup {Front}
           /\ Waiting' \subseteq Waiting /\ Waiting \subseteq Waiting' \cup {Front}
           /\ net = "down" => Waiting' = Waiting
           /\ \A t \in Topic : retained'[t] = IF t = Head(wire).topic THEN Head(wire).body
                                              ELSE retained[t]
<1>1. wire \in Seq(Packet) /\ wire # <<>> /\ Head(wire) # Bye
  BY DEF TypeOK, MqttTypeOK, Deliver
<1>2. Head(wire) \in Packet /\ Head(wire) = wire[1] /\ 1 \in DOMAIN wire
  BY <1>1
<1>3. Head(wire).topic \in Topic /\ Head(wire).body \in Body
  BY <1>1, <1>2 DEF Packet
<1>4. Front \in OnWire
  BY <1>2 DEF Front, OnWire
<1>5. /\ DOMAIN Tail(wire) = 1 .. (Len(wire) - 1)
      /\ DOMAIN wire = 1 .. Len(wire) /\ Len(wire) \in Nat
      /\ \A i \in 1 .. (Len(wire) - 1) : Tail(wire)[i] = wire[i + 1]
  BY <1>1
<1>6. wire' = Tail(wire)
  BY DEF Deliver
<1>7. OnWire' \subseteq OnWire
  BY <1>5, <1>6 DEF OnWire
<1>8. OnWire \subseteq OnWire' \cup {Front}
  <2>1. \A j \in DOMAIN wire : j = 1 \/ (j - 1 \in DOMAIN wire' /\ wire'[j - 1] = wire[j])
    BY <1>5, <1>6
  <2> QED
    BY <1>2, <2>1 DEF OnWire, Front
<1>9. CASE net = "up" /\ Head(wire).qos = 1
  <2>1. Waiting' \subseteq Waiting /\ Waiting \subseteq Waiting' \cup {Front}
    BY <1>9, AckedEffect DEF Deliver, Front
  <2> QED
    BY <1>3, <1>4, <1>7, <1>8, <1>9, <2>1 DEF Deliver, TypeOK, MqttTypeOK
<1>10. CASE ~(net = "up" /\ Head(wire).qos = 1)
  <2>1. Waiting' = Waiting
    BY <1>10 DEF Deliver, Waiting
  <2> QED
    BY <1>3, <1>4, <1>7, <1>8, <2>1 DEF Deliver, TypeOK, MqttTypeOK
<1> QED
  BY <1>9, <1>10

-----------------------------------------------------------------------------
(* The availability topic. *)

Stopping == pc \in {"ack", "join"}

(* Before stop(), only "online" is under way to the availability topic.      *)
OnlyOnline ==
    ~Stopping =>
        /\ \A p \in Waiting : p[1] = Avail => p[2] = Online
        /\ net # "down" => \A p \in OnWire : p[1] = Avail => p[2] = Online

(* A client that has a socket has not written DISCONNECT on it.              *)
NoDisconnect ==
    /\ <<Avail, NoBody>> \notin Waiting
    /\ net # "down" => <<Avail, NoBody>> \notin OnWire

(* From on_connect on, "online" is at the broker or on its way to it.        *)
AnnouncedOrOnItsWay ==
    ~Stopping /\ net # "down" /\ netpc \in {"resend", "idle"} /\ session
        => retained[Avail] = Online \/ <<Avail, Online>> \in OnWire

NoClient ==
    ~Running => net = "down" /\ netpc = "idle" /\ known = {} /\ out = <<>>

OnlineInv ==
    /\ NoClient /\ OnlyOnline /\ NoDisconnect /\ AnnouncedOrOnItsWay
    /\ net = "up" => session

(* A step of the main thread between its start and stop(): it publishes at   *)
(* most one message, and that is not about availability unless it is online. *)
Busy == Steps \ {"off", "exited", "ack", "join"}

Grows(p) ==
    /\ OnWire \subseteq OnWire' /\ OnWire' \subseteq OnWire \cup {p}
    /\ net = "down" => OnWire' = OnWire
    /\ Waiting \subseteq Waiting' /\ Waiting' \subseteq Waiting \cup {p}

CallsOut == pc \in Busy /\ pc' \in Busy /\ UNCHANGED <<net, netpc, session, retained>>

MainStep == CallsOut /\ \E p \in Topic \X Body : Grows(p) /\ (p[1] = Avail => p[2] = Online)

LEMMA QuietStep ==
    ASSUME CallsOut, UNCHANGED <<wire, out>>
    PROVE  MainStep
<1>1. Grows(<<Avail, Online>>)
  BY DEF Grows, OnWire, Waiting
<1>2. <<Avail, Online>> \in Topic \X Body
  BY TopicsTyped
<1> QED
  BY <1>1, <1>2 DEF MainStep

LEMMA PublishStep ==
    ASSUME TypeOK, CallsOut, NEW t \in Topic, NEW b \in Body, t = Avail => b = Online,
           Publish1(t, b) \/ Mirror(t, b)
    PROVE  MainStep
<1>1. Grows(<<t, b>>)
  BY Publish1Effect, MirrorEffect DEF Grows
<1> QED
  BY <1>1 DEF MainStep

LEMMA StartSteps ==
    ASSUME TypeOK, Start
    PROVE  MainStep
<1>1. CASE WaitEnds
  <2>1. CallsOut /\ UNCHANGED <<wire, out>>
    BY <1>1 DEF WaitEnds, Goto, CallsOut, Busy, Steps, mqttVars, world
  <2> QED
    BY <2>1, QuietStep
<1>2. CASE /\ PublishStatus \/ PublishCache \/ PublishOnline
           /\ UNCHANGED <<net, netpc, connected, session, retained, drops>>
  <2>1. CallsOut
    BY <1>2 DEF PublishStatus, PublishCache, PublishOnline, Goto, CallsOut, Busy, Steps
  <2>2. \E t \in Topic, b \in Body : (t = Avail => b = Online) /\ Publish1(t, b)
    BY <1>2, TopicsTyped, KindsDiffer DEF PublishStatus, PublishCache, PublishOnline
  <2> QED
    BY <2>1, <2>2, PublishStep
<1> QED
  BY <1>1, <1>2 DEF Start

LEMMA RaiseSteps ==
    ASSUME TypeOK, NEW k, Raise(k), pc \in Busy
    PROVE  MainStep \/ (Gone("off") /\ UNCHANGED wire)
<1>1. CASE pc' = "loop" /\ UNCHANGED mqttVars
  <2>1. CallsOut /\ UNCHANGED <<wire, out>>
    BY <1>1 DEF CallsOut, Busy, Steps, mqttVars, world
  <2> QED
    BY <2>1, QuietStep
<1>2. CASE Gone("off") /\ UNCHANGED wire
  BY <1>2
<1> QED
  BY <1>1, <1>2 DEF Raise

LEMMA PollSteps ==
    ASSUME TypeOK, TodoTyped, Poll
    PROVE  MainStep \/ (Gone("off") /\ UNCHANGED wire)
<1>1. CASE Iterate \/ ReadOk \/ ReadFails \/ NextRecord
  <2>1. CallsOut /\ UNCHANGED <<wire, out>>
    BY <1>1 DEF Iterate, ReadOk, ReadFails, NextRecord, Goto, Returned, CallsOut, Busy, Steps, mqttVars, world
  <2> QED
    BY <2>1, QuietStep
<1>2. CASE ReadRaises
  <2>1. pc \in Busy
    BY <1>2 DEF ReadRaises, Busy, Steps
  <2> QED
    BY <1>2, <2>1, RaiseSteps DEF ReadRaises
<1>3. CASE PublishConfig
  <2>1. CallsOut
    BY <1>3 DEF PublishConfig, CallsOut, Busy, Steps
  <2>2. PICK t \in todo : Publish1(t, Config)
    BY <1>3 DEF PublishConfig
  <2>3. t \in Topic /\ t.kind = "config"
    BY <1>3, KindsDiffer DEF PublishConfig, TodoTyped, TypeOK
  <2> QED
    BY <2>1, <2>2, <2>3, PublishStep, TopicsTyped, KindsDiffer
<1>4. CASE BuildState
  <2>1. pc \in Busy
    BY <1>4 DEF BuildState, Busy, Steps
  <2>2. CASE cur \in snap.raising
    BY <1>4, <2>1, <2>2, RaiseSteps DEF BuildState
  <2>3. CASE cur \notin snap.raising
    <3>1. CallsOut /\ UNCHANGED <<wire, out>>
      BY <1>4, <2>1, <2>3 DEF BuildState, CallsOut, Busy, Steps, mqttVars, world
    <3> QED
      BY <3>1, QuietStep
  <2> QED
    BY <2>2, <2>3
<1>5. CASE PublishState
  <2>1. CallsOut
    BY <1>5 DEF PublishState, CallsOut, Busy, Steps
  <2>2. PICK t \in todo : Mirror(t, snap.val[t])
    BY <1>5 DEF PublishState
  <2>3. t \in StateTopics /\ t.kind = "state" /\ snap.val[t] \in Body
    BY <1>5, KindsDiffer, TopicsTyped DEF PublishState, TodoTyped, TypeOK, Cache, Body
  <2> QED
    BY <2>1, <2>2, <2>3, PublishStep, TopicsTyped, KindsDiffer
<1>6. CASE PublishCacheTime
  <2>1. CallsOut
    BY <1>6 DEF PublishCacheTime, Returned, CallsOut, Busy, Steps
  <2> DEFINE time == cache.val[CacheTime]
  <2>2. CASE time = 0
    BY <1>6, <2>1, <2>2, QuietStep DEF PublishCacheTime
  <2>3. CASE time # 0
    <3>1. Mirror(CacheTime, time) /\ time \in Body
      BY <1>6, <2>3, TopicsTyped DEF PublishCacheTime, TypeOK, Cache, Body
    <3> QED
      BY <2>1, <3>1, PublishStep, TopicsTyped, KindsDiffer
  <2> QED
    BY <2>2, <2>3
<1> QED
  BY <1>1, <1>2, <1>3, <1>4, <1>5, <1>6 DEF Poll

LEMMA ClearSteps ==
    ASSUME TypeOK, TodoTyped, Clear
    PROVE  MainStep \/ (Gone("off") /\ UNCHANGED wire)
<1>1. CASE ClearReads \/ Wiped
  <2>1. CallsOut /\ UNCHANGED <<wire, out>>
    BY <1>1 DEF ClearReads, Wiped, Goto, CallsOut, Busy, Steps, mqttVars, world
  <2> QED
    BY <2>1, QuietStep
<1>2. CASE ClearRaises
  <2>1. pc \in Busy
    BY <1>2 DEF ClearRaises, Busy, Steps
  <2> QED
    BY <1>2, <2>1, RaiseSteps DEF ClearRaises
<1>3. CASE Wipe
  <2>1. CallsOut
    BY <1>3 DEF Wipe, CallsOut, Busy, Steps
  <2>2. PICK t \in todo : Publish1(t, NoBody)
    BY <1>3 DEF Wipe
  <2>3. t \in Topic /\ t # Avail
    BY <1>3, KindsDiffer DEF Wipe, TodoTyped, TypeOK
  <2> QED
    BY <2>1, <2>2, <2>3, PublishStep, TopicsTyped
<1> QED
  BY <1>1, <1>2, <1>3 DEF Clear

LEMMA MainSteps ==
    ASSUME TypeOK, TodoTyped, Start \/ Poll \/ Clear
    PROVE  MainStep \/ (Gone("off") /\ UNCHANGED wire)
  BY StartSteps, PollSteps, ClearSteps

(* OnlineInv is inductive: one lemma for each part of Next.                  *)
LEMMA OnlineMain ==
    ASSUME OnlineInv, MainStep
    PROVE  OnlineInv'
<1>1. PICK p \in Topic \X Body : Grows(p) /\ (p[1] = Avail => p[2] = Online)
  BY DEF MainStep
<1>2. CallsOut
  BY DEF MainStep
<1>3. ~Stopping /\ ~Stopping' /\ Running'
  BY <1>2 DEF CallsOut, Busy, Stopping, Running
<1>4. p # <<Avail, NoBody>>
  BY <1>1, NamesAreDistinct
<1>5. OnlyOnline'
  BY <1>1, <1>2, <1>3 DEF OnlineInv, OnlyOnline, Grows, CallsOut
<1>6. NoDisconnect'
  BY <1>1, <1>2, <1>4 DEF OnlineInv, NoDisconnect, Grows, CallsOut
<1>7. AnnouncedOrOnItsWay'
  BY <1>1, <1>2, <1>3 DEF OnlineInv, AnnouncedOrOnItsWay, Grows, CallsOut
<1> QED
  BY <1>2, <1>3, <1>5, <1>6, <1>7 DEF OnlineInv, NoClient, CallsOut

LEMMA OnlineGone ==
    ASSUME OnlineInv, Gone("off") \/ Gone("exited")
    PROVE  OnlineInv'
<1>1. Waiting' = {}
  BY DEF Gone, Waiting
<1>2. net' = "down" /\ netpc' = "idle" /\ known' = {} /\ out' = <<>>
  BY DEF Gone
<1> QED
  BY <1>1, <1>2 DEF OnlineInv, NoClient, OnlyOnline, NoDisconnect, AnnouncedOrOnItsWay

LEMMA OnlineStop ==
    ASSUME TypeOK, OnlineInv, Stop
    PROVE  OnlineInv'
<1>1. CASE PublishOffline
  <2>1. /\ OnWire' = IF net = "down" THEN OnWire ELSE OnWire \cup {<<Avail, Offline>>}
        /\ Waiting' = Waiting \cup {<<Avail, Offline>>}
    BY <1>1, Publish1Effect, TopicsTyped DEF PublishOffline
  <2>2. Stopping' /\ Running' /\ UNCHANGED <<net, netpc, session, retained>>
    BY <1>1 DEF PublishOffline, Stopping, Running
  <2>3. <<Avail, Offline>> # <<Avail, NoBody>>
    BY NamesAreDistinct
  <2>4. NoDisconnect'
    BY <2>1, <2>2, <2>3 DEF OnlineInv, NoDisconnect
  <2> QED
    BY <2>2, <2>4 DEF OnlineInv, NoClient, OnlyOnline, AnnouncedOrOnItsWay
<1>2. CASE StopWaiting
  <2>1. Stopping' /\ Running' /\ UNCHANGED <<net, netpc, session, retained>>
    BY <1>2 DEF StopWaiting, Goto, Stopping, Running, mqttVars, world
  <2>2. OnWire' = OnWire /\ Waiting' = Waiting
    BY <1>2 DEF StopWaiting, Goto, mqttVars, world, OnWire, Waiting
  <2> QED
    BY <2>1, <2>2 DEF OnlineInv, NoClient, OnlyOnline, NoDisconnect, AnnouncedOrOnItsWay
<1>3. CASE Exit
  BY <1>3, OnlineGone DEF Exit
<1> QED
  BY <1>1, <1>2, <1>3 DEF Stop

LEMMA OnlineThread ==
    ASSUME TypeOK, OnlineInv, NetworkThread
    PROVE  OnlineInv'
<1>0. Running /\ Running' /\ (Stopping' <=> Stopping)
  BY DEF NetworkThread, Running, Stopping, mainVars
<1>1. CASE TcpConnect
  <2>1. OnWire' = {} /\ Waiting' = Waiting
    BY <1>1 DEF TcpConnect, OnWire, Waiting
  <2> QED
    BY <1>0, <1>1, <2>1 DEF TcpConnect, OnlineInv, NoClient, OnlyOnline, NoDisconnect,
                           AnnouncedOrOnItsWay
<1>2. CASE OnConnect
  <2>1. OnWire' = OnWire /\ Waiting' = Waiting
    BY <1>2 DEF OnConnect, OnWire, Waiting
  <2> QED
    BY <1>0, <1>2, <2>1 DEF OnConnect, OnlineInv, NoClient, OnlyOnline, NoDisconnect,
                           AnnouncedOrOnItsWay
<1>3. CASE Announce
  <2>1. /\ OnWire' = IF net = "down" THEN OnWire ELSE OnWire \cup {<<Avail, Online>>}
        /\ Waiting' = Waiting \cup {<<Avail, Online>>}
    BY <1>3, Publish1Effect, TopicsTyped DEF Announce
  <2>2. <<Avail, Online>> # <<Avail, NoBody>>
    BY NamesAreDistinct
  <2>3. UNCHANGED <<net, session, retained>>
    BY <1>3 DEF Announce
  <2>4. OnlyOnline'
    BY <1>0, <2>1, <2>3 DEF OnlineInv, OnlyOnline
  <2>5. NoDisconnect'
    BY <2>1, <2>2, <2>3 DEF OnlineInv, NoDisconnect
  <2>6. AnnouncedOrOnItsWay'
    BY <1>0, <2>1, <2>3 DEF OnlineInv, AnnouncedOrOnItsWay
  <2> QED
    BY <1>0, <2>3, <2>4, <2>5, <2>6 DEF OnlineInv, NoClient
<1>4. CASE Resend
  <2>1. /\ OnWire \subseteq OnWire' /\ OnWire' \subseteq OnWire \cup Waiting
        /\ Waiting' = Waiting
    BY <1>4, ResendEffect
  <2>2. UNCHANGED <<net, session, retained>> /\ netpc = "resend"
    BY <1>4 DEF Resend
  <2> QED
    BY <1>0, <2>1, <2>2 DEF OnlineInv, NoClient, OnlyOnline, NoDisconnect, AnnouncedOrOnItsWay
<1>5. CASE OnDisconnect
  <2>1. OnWire' = OnWire /\ Waiting' = Waiting
    BY <1>5, OnDisconnectEffect
  <2> QED
    BY <1>0, <1>5, <2>1 DEF OnDisconnect, OnlineInv, NoClient, OnlyOnline, NoDisconnect,
                           AnnouncedOrOnItsWay
<1> QED
  BY <1>1, <1>2, <1>3, <1>4, <1>5 DEF NetworkThread

LEMMA OnlineNetwork ==
    ASSUME TypeOK, OnlineInv, Network
    PROVE  OnlineInv'
<1>0. (Running' <=> Running) /\ (Stopping' <=> Stopping) /\ known' = known
  BY DEF Network, Running, Stopping, mainVars
<1>1. CASE Break
  <2>1. OnWire' = OnWire /\ Waiting' = Waiting
    BY <1>1 DEF Break, OnWire, Waiting
  <2> QED
    BY <1>0, <1>1, <2>1 DEF Break, OnlineInv, NoClient, OnlyOnline, NoDisconnect,
                           AnnouncedOrOnItsWay
<1>2. CASE Deliver
  <2>1. /\ Front \in OnWire /\ Head(wire).topic \in Topic
        /\ OnWire' \subseteq OnWire /\ OnWire \subseteq OnWire' \cup {Front}
        /\ Waiting' \subseteq Waiting
        /\ retained'[Avail] = IF Avail = Head(wire).topic THEN Head(wire).body
                              ELSE retained[Avail]
    BY <1>2, DeliverEffect, TopicsTyped
  <2>2. UNCHANGED <<net, netpc, session>> /\ (net = "down" => UNCHANGED out)
    BY <1>2 DEF Deliver
  <2>3. OnlyOnline' /\ NoDisconnect'
    BY <1>0, <2>1, <2>2 DEF OnlineInv, OnlyOnline, NoDisconnect
  <2>4. ~Stopping /\ net # "down" /\ Head(wire).topic = Avail => retained'[Avail] = Online
    BY <2>1 DEF OnlineInv, OnlyOnline, Front
  <2>5. AnnouncedOrOnItsWay'
    BY <1>0, <2>1, <2>2, <2>4 DEF OnlineInv, AnnouncedOrOnItsWay, Front
  <2> QED
    BY <1>0, <2>2, <2>3, <2>5 DEF OnlineInv, NoClient
<1>3. CASE TakeBye
  <2>1. OnWire' = {} /\ Waiting' = Waiting
    BY <1>3 DEF TakeBye, OnWire, Waiting
  <2>2. <<Avail, NoBody>> \in OnWire
    <3>1. wire[1] = Bye /\ 1 \in DOMAIN wire
      BY <1>3 DEF TakeBye, TypeOK, MqttTypeOK
    <3> QED
      BY <3>1 DEF OnWire, Bye
  <2>3. net = "down"
    BY <2>2 DEF OnlineInv, NoDisconnect
  <2> QED
    BY <1>0, <1>3, <2>1, <2>3 DEF TakeBye, OnlineInv, NoClient, OnlyOnline, NoDisconnect,
                                 AnnouncedOrOnItsWay
<1>4. CASE FireWill
  <2>1. OnWire' = {} /\ Waiting' = Waiting
    BY <1>4 DEF FireWill, OnWire, Waiting
  <2> QED
    BY <1>0, <1>4, <2>1 DEF FireWill, OnlineInv, NoClient, OnlyOnline, NoDisconnect,
                           AnnouncedOrOnItsWay
<1> QED
  BY <1>1, <1>2, <1>3, <1>4 DEF Network

LEMMA OnlineElse ==
    ASSUME TypeOK, OnlineInv, FindMyWrites \/ Launch \/ Signal \/ UNCHANGED vars
    PROVE  OnlineInv'
<1>1. OnWire' = OnWire /\ Waiting' = Waiting
  BY DEF FindMyWrites, Launch, Signal, vars, mqttVars, world, OnWire, Waiting
<1>2. /\ UNCHANGED <<net, netpc, session, retained, known, out>>
      /\ (~Stopping' => ~Stopping) /\ (~Running' => ~Running)
      /\ Running' => Running \/ net = "down"
  BY DEF FindMyWrites, Launch, Signal, vars, mqttVars, world, mainVars, Stopping, Running, OnlineInv,
         NoClient
<1>3. Stopping' <=> Stopping
  BY DEF FindMyWrites, Launch, Signal, vars, mqttVars, world, mainVars, Stopping
<1> QED
  BY <1>1, <1>2, <1>3 DEF OnlineInv, NoClient, OnlyOnline, NoDisconnect, AnnouncedOrOnItsWay

LEMMA OnlineStep ==
    ASSUME TypeOK, TodoTyped, OnlineInv, [Next]_vars
    PROVE  OnlineInv'
<1>1. CASE Start \/ Poll \/ Clear
  BY <1>1, MainSteps, OnlineMain, OnlineGone
<1>2. CASE Stop
  BY <1>2, OnlineStop
<1>3. CASE Crash
  BY <1>3, OnlineGone DEF Crash
<1>4. CASE NetworkThread
  BY <1>4, OnlineThread
<1>5. CASE Network
  BY <1>5, OnlineNetwork
<1>6. CASE FindMyWrites \/ Launch \/ Signal \/ UNCHANGED vars
  BY <1>6, OnlineElse
<1> QED
  BY <1>1, <1>2, <1>3, <1>4, <1>5, <1>6 DEF Next, MainThread

LEMMA OnlineInit == Init => OnlineInv
<1> SUFFICES ASSUME Init PROVE OnlineInv
  OBVIOUS
<1>1. OnWire = {} /\ Waiting = {}
  BY DEF Init, MqttInit, OnWire, Waiting
<1> QED
  BY <1>1 DEF Init, MqttInit, OnlineInv, NoClient, OnlyOnline, NoDisconnect,
              AnnouncedOrOnItsWay, Running

(* With a live connection on which everything was delivered, the broker      *)
(* shows the bridge online: whatever wills, restarts and redeliveries came   *)
(* before (_on_connect, paho_publisher.py:308-330).                          *)
THEOREM OnlineWhileUpHolds == Spec => []OnlineWhileUp
<1>1. Init => TypeOK /\ TodoTyped /\ OnlineInv
  BY TypeInit, OnlineInit DEF Init, TodoTyped
<1>2. TypeOK /\ TodoTyped /\ OnlineInv /\ [Next]_vars => TypeOK' /\ TodoTyped' /\ OnlineInv'
  BY TypeStep, OnlineStep
<1>3. OnlineInv => OnlineWhileUp
  <2>1. wire = <<>> => OnWire = {}
    BY DEF OnWire
  <2> QED
    BY <2>1 DEF OnlineInv, AnnouncedOrOnItsWay, OnlineWhileUp, Stopping
<1> QED
  BY <1>1, <1>2, <1>3, PTL DEF Spec

-----------------------------------------------------------------------------
(* The configs. *)

(* --clear marks nothing as known and publishes no config. *)
ClearKnowsNothing ==
    /\ mode = "clear" => known = {} /\ pc \notin {"config", "state"}
    /\ pc = "wipe" => mode = "clear"

(* The topics whose config this process has handed to paho. *)
Claimed ==
    {t \in Topic : /\ t.kind = "config"
                   /\ t.rec \in known \/ (pc = "config" /\ t.rec = cur /\ t \notin todo)}

(* Nothing on the wire removes a config, unless an earlier process left it   *)
(* there and this one still has its own in the queue, or this one clears.    *)
WireKeepsConfigs ==
    \/ \A p \in OnWire : p[1].kind = "config" => p[2] = Config
    \/ net = "down" /\ \A t \in Claimed : <<t, Config>> \in Waiting
    \/ mode = "clear"

QueueKeepsConfigs ==
    mode # "clear" => \A p \in Waiting : p[1].kind = "config" => p[2] = Config

ClaimsHold == \A t \in Claimed : retained[t] = Config \/ <<t, Config>> \in Waiting

ConfigInv ==
    /\ NoClient /\ ClearKnowsNothing
    /\ WireKeepsConfigs /\ QueueKeepsConfigs /\ ClaimsHold
LEMMA ConfigTopics ==
    /\ \A t \in Topic : t.kind = "config" => t \in ConfigsOf(t.rec)
    /\ \A r \in Rec : \A t \in ConfigsOf(r) : t \in Topic /\ t.kind = "config" /\ t.rec = r
    /\ Avail.kind # "config" /\ StatusConfig.kind # "config"
    /\ CacheConfig.kind # "config" /\ CacheTime.kind # "config"
<1>1. ASSUME NEW t \in Topic, t.kind = "config"
      PROVE  t \in ConfigsOf(t.rec)
  <2>1. t \notin StateTopics /\ t \notin {Avail, StatusConfig, CacheConfig, CacheTime}
    BY <1>1, KindsDiffer
  <2>2. \A r \in Rec : LegacyTopic(r).kind # "config"
    BY DEF LegacyTopic
  <2>3. PICK r \in Rec, e \in Entity : t = ConfigTopic(r, e)
    BY <1>1, <2>1, <2>2 DEF Topic
  <2>4. t.rec = r
    BY <2>3 DEF ConfigTopic
  <2> QED
    BY <2>3, <2>4 DEF ConfigsOf
<1>2. \A r \in Rec : \A t \in ConfigsOf(r) : t \in Topic /\ t.kind = "config" /\ t.rec = r
  BY TopicsTyped DEF ConfigsOf, ConfigTopic
<1> QED
  BY <1>1, <1>2, KindsDiffer

(* A step of a running main thread: at most one message, whose config, if it *)
(* is about one, is not empty; what becomes claimed is in paho's queue.      *)
ConfigStep ==
    /\ UNCHANGED <<net, retained, mode>> /\ Running' /\ ClearKnowsNothing'
    /\ \E p \in Topic \X Body :
          Grows(p) /\ (mode # "clear" /\ p[1].kind = "config" => p[2] = Config)
    /\ \A t \in Claimed' : t \in Claimed \/ <<t, Config>> \in Waiting'

LEMMA ConfigMain ==
    ASSUME ConfigInv, ConfigStep
    PROVE  ConfigInv'
<1>1. PICK p \in Topic \X Body :
          Grows(p) /\ (mode # "clear" /\ p[1].kind = "config" => p[2] = Config)
  BY DEF ConfigStep
<1>2. WireKeepsConfigs'
  BY <1>1 DEF ConfigStep, ConfigInv, WireKeepsConfigs, Grows
<1>3. QueueKeepsConfigs'
  BY <1>1 DEF ConfigStep, ConfigInv, QueueKeepsConfigs, Grows
<1>4. ClaimsHold'
  BY <1>1 DEF ConfigStep, ConfigInv, ClaimsHold, Grows
<1> QED
  BY <1>2, <1>3, <1>4 DEF ConfigStep, ConfigInv, NoClient

(* No message, nothing newly claimed. *)
LEMMA ConfigQuiet ==
    ASSUME UNCHANGED <<net, retained, mode, wire, out>>, Running', ClearKnowsNothing',
           Claimed' \subseteq Claimed
    PROVE  ConfigStep
<1>1. Grows(<<Avail, Online>>)
  BY DEF Grows, OnWire, Waiting
<1>2. <<Avail, Online>> \in Topic \X Body
  BY TopicsTyped
<1> QED
  BY <1>1, <1>2, ConfigTopics DEF ConfigStep

(* One message that is about no config, nothing newly claimed. *)
LEMMA ConfigOther ==
    ASSUME TypeOK, UNCHANGED <<net, retained, mode>>, Running', ClearKnowsNothing',
           Claimed' \subseteq Claimed,
           NEW t \in Topic, NEW b \in Body, Publish1(t, b) \/ Mirror(t, b),
           t.kind # "config" \/ mode = "clear"
    PROVE  ConfigStep
<1>1. Grows(<<t, b>>)
  BY Publish1Effect, MirrorEffect DEF Grows
<1> QED
  BY <1>1 DEF ConfigStep

(* The same claims: known is unchanged and no record is being configured.    *)
LEMMA SameClaims ==
    ASSUME UNCHANGED known, pc' # "config"
    PROVE  Claimed' \subseteq Claimed
  BY DEF Claimed

LEMMA ConfigGone ==
    ASSUME ConfigInv, Gone("off") \/ Gone("exited")
    PROVE  ConfigInv'
<1>1. Waiting' = {} /\ Claimed' = {}
  BY DEF Gone, Waiting, Claimed
<1>2. /\ net' = "down" /\ netpc' = "idle" /\ known' = {} /\ out' = <<>> /\ mode' = mode
      /\ pc' \in {"off", "exited"}
  BY DEF Gone
<1> QED
  BY <1>1, <1>2 DEF ConfigInv, NoClient, ClearKnowsNothing, WireKeepsConfigs,
                    QueueKeepsConfigs, ClaimsHold

LEMMA ConfigStart ==
    ASSUME TypeOK, ConfigInv, Start
    PROVE  ConfigStep
<1>0. /\ UNCHANGED <<net, retained, mode, known>> /\ Running' /\ pc' \notin {"config", "state", "wipe"}
  BY DEF Start, WaitEnds, PublishStatus, PublishCache, PublishOnline, Goto, Running, mqttVars, world
<1>1. ClearKnowsNothing' /\ Claimed' \subseteq Claimed
  BY <1>0, SameClaims DEF ConfigInv, ClearKnowsNothing
<1>2. CASE WaitEnds
  <2>1. UNCHANGED <<wire, out>>
    BY <1>2 DEF WaitEnds, mqttVars, world
  <2> QED
    BY <1>0, <1>1, <2>1, ConfigQuiet
<1>3. CASE PublishStatus \/ PublishCache \/ PublishOnline
  <2>1. \E t \in Topic, b \in Body : t.kind # "config" /\ Publish1(t, b)
    BY <1>3, TopicsTyped, ConfigTopics DEF PublishStatus, PublishCache, PublishOnline
  <2> QED
    BY <1>0, <1>1, <2>1, ConfigOther
<1> QED
  BY <1>2, <1>3 DEF Start

LEMMA ConfigRaise ==
    ASSUME ConfigInv, NEW k, Raise(k), ConfigInv,
           \A t \in Topic : t.kind = "config" /\ t.rec \in k => t \in Claimed
    PROVE  ConfigStep \/ Gone("off")
<1>1. CASE mode = "run" /\ pc' = "loop" /\ known' = k /\ UNCHANGED <<mqttVars, mode>>
  <2>1. Running' /\ ClearKnowsNothing'
    BY <1>1 DEF Running, ClearKnowsNothing
  <2>2. Claimed' \subseteq Claimed
    BY <1>1 DEF Claimed
  <2> QED
    BY <1>1, <2>1, <2>2, ConfigQuiet DEF mqttVars, world
<1> QED
  BY <1>1 DEF Raise

LEMMA ConfigPoll ==
    ASSUME TypeOK, TodoTyped, ConfigInv, Poll
    PROVE  ConfigStep \/ Gone("off")
<1>1. CASE Iterate \/ ReadOk \/ ReadFails
  <2>1. /\ UNCHANGED <<net, retained, mode, wire, out, known>>
        /\ Running' /\ pc' \notin {"config", "wipe"} /\ (mode = "clear" => pc' # "state")
    BY <1>1 DEF Iterate, ReadOk, ReadFails, Goto, Returned, Running, mqttVars, world
  <2>2. ClearKnowsNothing' /\ Claimed' \subseteq Claimed
    BY <2>1, SameClaims DEF ConfigInv, ClearKnowsNothing
  <2> QED
    BY <2>1, <2>2, ConfigQuiet
<1>2. CASE ReadRaises
  <2>1. \A t \in Topic : t.kind = "config" /\ t.rec \in known => t \in Claimed
    BY DEF Claimed
  <2> QED
    BY <1>2, <2>1, ConfigRaise DEF ReadRaises
<1>3. CASE NextRecord
  <2>1. /\ UNCHANGED <<net, retained, mode, wire, out, known>>
        /\ Running' /\ pc' = "config" /\ mode # "clear"
    BY <1>3 DEF NextRecord, Running, mqttVars, world, ConfigInv, ClearKnowsNothing
  <2>2. PICK r \in batch : cur' = r /\ todo' = IF r \in known THEN {} ELSE ConfigsOf(r)
    BY <1>3 DEF NextRecord, Upcoming
  <2>3. Claimed' \subseteq Claimed
    BY <2>1, <2>2, ConfigTopics DEF Claimed
  <2>4. ClearKnowsNothing'
    BY <2>1 DEF ClearKnowsNothing
  <2> QED
    BY <2>1, <2>3, <2>4, ConfigQuiet
<1>4. CASE PublishConfig
  <2>1. /\ UNCHANGED <<net, retained, mode, known, cur>>
        /\ Running' /\ pc = "config" /\ pc' = pc /\ mode # "clear"
    BY <1>4 DEF PublishConfig, Running, ConfigInv, ClearKnowsNothing
  <2>2. PICK t \in todo : todo' = todo \ {t} /\ Publish1(t, Config)
    BY <1>4 DEF PublishConfig
  <2>3. t \in Topic /\ Config \in Body
    BY TopicsTyped DEF TypeOK
  <2>4. Grows(<<t, Config>>) /\ <<t, Config>> \in Waiting'
    BY <2>2, <2>3, Publish1Effect DEF Grows
  <2>5. \A u \in Claimed' : u \in Claimed \/ u = t
    BY <2>1, <2>2 DEF Claimed
  <2>6. ClearKnowsNothing'
    BY <2>1 DEF ClearKnowsNothing
  <2> QED
    BY <2>1, <2>3, <2>4, <2>5, <2>6 DEF ConfigStep
<1>5. CASE BuildState
  <2>1. \A t \in Topic : t.kind = "config" /\ t.rec \in known \cup {cur} => t \in Claimed
    BY <1>5 DEF BuildState, Claimed
  <2>2. CASE cur \in snap.raising
    BY <1>5, <2>1, <2>2, ConfigRaise DEF BuildState
  <2>3. CASE cur \notin snap.raising
    <3>1. /\ UNCHANGED <<net, retained, mode, wire, out>>
          /\ Running' /\ pc' = "state" /\ mode # "clear" /\ known' = known \cup {cur}
      BY <1>5, <2>3 DEF BuildState, Running, mqttVars, world, ConfigInv, ClearKnowsNothing
    <3>2. Claimed' \subseteq Claimed
      BY <3>1, <2>1 DEF Claimed
    <3>3. ClearKnowsNothing'
      BY <3>1 DEF ClearKnowsNothing
    <3> QED
      BY <3>1, <3>2, <3>3, ConfigQuiet
  <2> QED
    BY <2>2, <2>3
<1>6. CASE PublishState
  <2>1. /\ UNCHANGED <<net, retained, mode, known>>
        /\ Running' /\ pc = "state" /\ pc' = pc /\ mode # "clear"
    BY <1>6 DEF PublishState, Running, ConfigInv, ClearKnowsNothing
  <2>2. PICK t \in todo : Mirror(t, snap.val[t])
    BY <1>6 DEF PublishState
  <2>3. t \in Topic /\ t.kind # "config" /\ snap.val[t] \in Body
    BY <2>1, KindsDiffer, TopicsTyped DEF TodoTyped, TypeOK, Cache, Body
  <2>4. ClearKnowsNothing' /\ Claimed' \subseteq Claimed
    BY <2>1, SameClaims DEF ClearKnowsNothing
  <2> QED
    BY <2>1, <2>2, <2>3, <2>4, ConfigOther
<1>7. CASE PublishCacheTime
  <2>1. /\ UNCHANGED <<net, retained, mode, known>>
        /\ Running' /\ pc' \notin {"config", "state", "wipe"}
    BY <1>7 DEF PublishCacheTime, Returned, Running
  <2>2. ClearKnowsNothing' /\ Claimed' \subseteq Claimed
    BY <2>1, SameClaims DEF ConfigInv, ClearKnowsNothing
  <2> DEFINE time == cache.val[CacheTime]
  <2>3. CASE time = 0
    BY <1>7, <2>1, <2>2, <2>3, ConfigQuiet DEF PublishCacheTime
  <2>4. CASE time # 0
    <3>1. Mirror(CacheTime, time) /\ time \in Body /\ CacheTime \in Topic
      BY <1>7, <2>4, TopicsTyped DEF PublishCacheTime, TypeOK, Cache, Body
    <3> QED
      BY <2>1, <2>2, <3>1, ConfigOther, ConfigTopics
  <2> QED
    BY <2>3, <2>4
<1> QED
  BY <1>1, <1>2, <1>3, <1>4, <1>5, <1>6, <1>7 DEF Poll

LEMMA ConfigClear ==
    ASSUME TypeOK, TodoTyped, ConfigInv, Clear
    PROVE  ConfigStep \/ Gone("off")
<1>1. CASE ClearReads \/ Wiped
  <2>1. /\ UNCHANGED <<net, retained, mode, wire, out, known>>
        /\ Running' /\ pc' \notin {"config", "state"} /\ (pc' = "wipe" => mode = "clear")
    BY <1>1 DEF ClearReads, Wiped, Goto, Running, mqttVars, world
  <2>2. ClearKnowsNothing' /\ Claimed' \subseteq Claimed
    BY <2>1, SameClaims DEF ConfigInv, ClearKnowsNothing
  <2> QED
    BY <2>1, <2>2, ConfigQuiet
<1>2. CASE ClearRaises
  <2>1. \A t \in Topic : t.kind = "config" /\ t.rec \in known => t \in Claimed
    BY DEF Claimed
  <2> QED
    BY <1>2, <2>1, ConfigRaise DEF ClearRaises
<1>3. CASE Wipe
  <2>1. /\ UNCHANGED <<net, retained, mode, known>>
        /\ Running' /\ pc = "wipe" /\ pc' = pc /\ mode = "clear"
    BY <1>3 DEF Wipe, Running, ConfigInv, ClearKnowsNothing
  <2>2. PICK t \in todo : Publish1(t, NoBody)
    BY <1>3 DEF Wipe
  <2>3. t \in Topic /\ NoBody \in Body
    BY TopicsTyped DEF TypeOK
  <2>4. ClearKnowsNothing' /\ Claimed' \subseteq Claimed
    BY <2>1, SameClaims DEF ConfigInv, ClearKnowsNothing
  <2> QED
    BY <2>1, <2>2, <2>3, <2>4, ConfigOther
<1> QED
  BY <1>1, <1>2, <1>3 DEF Clear

LEMMA ConfigStop ==
    ASSUME TypeOK, ConfigInv, Stop
    PROVE  ConfigStep \/ Gone("exited")
<1>1. CASE PublishOffline \/ StopWaiting
  <2>1. /\ UNCHANGED <<net, retained, mode, known>>
        /\ Running' /\ pc' \notin {"config", "state", "wipe"}
    BY <1>1 DEF PublishOffline, StopWaiting, Goto, Running, mqttVars, world
  <2>2. ClearKnowsNothing' /\ Claimed' \subseteq Claimed
    BY <2>1, SameClaims DEF ConfigInv, ClearKnowsNothing
  <2>3. CASE PublishOffline
    BY <2>1, <2>2, <2>3, ConfigOther, ConfigTopics, TopicsTyped DEF PublishOffline
  <2>4. CASE StopWaiting
    BY <2>1, <2>2, <2>4, ConfigQuiet DEF StopWaiting, mqttVars, world
  <2> QED
    BY <1>1, <2>3, <2>4
<1>2. CASE Exit
  BY <1>2 DEF Exit
<1> QED
  BY <1>1, <1>2 DEF Stop

(* A step that leaves mode and the claims alone, and may only take from the  *)
(* wire what it puts at the broker.                                          *)
LEMMA ConfigThread ==
    ASSUME TypeOK, ConfigInv, NetworkThread
    PROVE  ConfigInv'
<1>0. /\ Running /\ Running' /\ UNCHANGED <<mode, known, pc>> /\ Claimed' = Claimed
      /\ ClearKnowsNothing' /\ NoClient'
  BY DEF NetworkThread, Running, mainVars, Claimed, ClearKnowsNothing, ConfigInv, NoClient
<1>1. CASE TcpConnect
  <2>1. OnWire' = {} /\ Waiting' = Waiting
    BY <1>1 DEF TcpConnect, OnWire, Waiting
  <2>2. \A t \in Topic : t.kind = "config" => retained'[t] = retained[t]
    BY <1>1, ConfigTopics DEF TcpConnect, TypeOK, MqttTypeOK
  <2>3. ClaimsHold'
    BY <1>0, <2>1, <2>2 DEF ConfigInv, ClaimsHold, Claimed
  <2> QED
    BY <1>0, <2>1, <2>3 DEF ConfigInv, WireKeepsConfigs, QueueKeepsConfigs
<1>2. CASE OnConnect
  <2>1. OnWire' = OnWire /\ Waiting' = Waiting
    BY <1>2 DEF OnConnect, OnWire, Waiting
  <2> QED
    BY <1>0, <1>2, <2>1 DEF OnConnect, ConfigInv, WireKeepsConfigs, QueueKeepsConfigs, ClaimsHold
<1>3. CASE Announce
  <2>1. /\ OnWire' = IF net = "down" THEN OnWire ELSE OnWire \cup {<<Avail, Online>>}
        /\ Waiting' = Waiting \cup {<<Avail, Online>>}
    BY <1>3, Publish1Effect, TopicsTyped DEF Announce
  <2>2. UNCHANGED <<net, retained>>
    BY <1>3 DEF Announce
  <2> QED
    BY <1>0, <2>1, <2>2, ConfigTopics DEF ConfigInv, WireKeepsConfigs, QueueKeepsConfigs,
                                         ClaimsHold
<1>4. CASE Resend
  <2>1. /\ OnWire' \subseteq OnWire \cup Waiting /\ Waiting' = Waiting
        /\ UNCHANGED <<net, retained>>
    BY <1>4, ResendEffect DEF Resend
  <2> QED
    BY <1>0, <2>1 DEF ConfigInv, WireKeepsConfigs, QueueKeepsConfigs, ClaimsHold
<1>5. CASE OnDisconnect
  <2>1. OnWire' = OnWire /\ Waiting' = Waiting /\ net' = "down" /\ UNCHANGED retained
    BY <1>5, OnDisconnectEffect DEF OnDisconnect
  <2> QED
    BY <1>0, <2>1 DEF ConfigInv, WireKeepsConfigs, QueueKeepsConfigs, ClaimsHold
<1> QED
  BY <1>1, <1>2, <1>3, <1>4, <1>5 DEF NetworkThread

LEMMA ConfigNetwork ==
    ASSUME TypeOK, ConfigInv, Network
    PROVE  ConfigInv'
<1>0. /\ (Running' <=> Running) /\ UNCHANGED <<mode, known, pc>> /\ Claimed' = Claimed
      /\ ClearKnowsNothing'
  BY DEF Network, Running, mainVars, Claimed, ClearKnowsNothing, ConfigInv
<1>1. CASE Break
  <2>1. OnWire' = OnWire /\ Waiting' = Waiting
    BY <1>1 DEF Break, OnWire, Waiting
  <2> QED
    BY <1>0, <1>1, <2>1 DEF Break, ConfigInv, NoClient, WireKeepsConfigs, QueueKeepsConfigs,
                           ClaimsHold
<1>2. CASE Deliver
  <2>1. /\ Front \in OnWire
        /\ OnWire' \subseteq OnWire
        /\ Waiting' \subseteq Waiting /\ Waiting \subseteq Waiting' \cup {Front}
        /\ net = "down" => Waiting' = Waiting
        /\ \A t \in Topic : retained'[t] = IF t = Head(wire).topic THEN Head(wire).body
                                           ELSE retained[t]
    BY <1>2, DeliverEffect
  <2>2. UNCHANGED <<net, netpc>> /\ (net = "down" => UNCHANGED out)
    BY <1>2 DEF Deliver
  <2>3. WireKeepsConfigs' /\ QueueKeepsConfigs'
    BY <1>0, <2>1, <2>2 DEF ConfigInv, WireKeepsConfigs, QueueKeepsConfigs
  <2>4. ClaimsHold'
    <3> SUFFICES ASSUME NEW t \in Claimed
                 PROVE  retained'[t] = Config \/ <<t, Config>> \in Waiting'
      BY <1>0 DEF ClaimsHold
    <3>1. t \in Topic /\ t.kind = "config"
      BY DEF Claimed
    <3>2. CASE net = "down" /\ <<t, Config>> \in Waiting
      BY <3>2, <2>1
    <3>3. CASE mode = "clear"
      BY <3>3 DEF ConfigInv, ClearKnowsNothing, Claimed
    <3>4. CASE \A p \in OnWire : p[1].kind = "config" => p[2] = Config
      <4>1. Head(wire).topic.kind = "config" => Head(wire).body = Config
        BY <3>4, <2>1 DEF Front
      <4> QED
        BY <3>1, <4>1, <2>1 DEF ConfigInv, ClaimsHold, Front
    <3> QED
      BY <3>2, <3>3, <3>4 DEF ConfigInv, WireKeepsConfigs
  <2> QED
    BY <1>0, <2>2, <2>3, <2>4 DEF ConfigInv, NoClient
<1>3. CASE TakeBye
  <2>1. OnWire' = {} /\ Waiting' = Waiting
    BY <1>3 DEF TakeBye, OnWire, Waiting
  <2> QED
    BY <1>0, <1>3, <2>1 DEF TakeBye, ConfigInv, NoClient, WireKeepsConfigs, QueueKeepsConfigs,
                           ClaimsHold
<1>4. CASE FireWill
  <2>1. OnWire' = {} /\ Waiting' = Waiting
    BY <1>4 DEF FireWill, OnWire, Waiting
  <2>2. \A t \in Topic : t.kind = "config" => retained'[t] = retained[t]
    BY <1>4, ConfigTopics DEF FireWill, TypeOK, MqttTypeOK
  <2>3. ClaimsHold'
    BY <1>0, <2>1, <2>2 DEF ConfigInv, ClaimsHold, Claimed
  <2> QED
    BY <1>0, <1>4, <2>1, <2>3 DEF FireWill, ConfigInv, NoClient, WireKeepsConfigs,
                                 QueueKeepsConfigs
<1> QED
  BY <1>1, <1>2, <1>3, <1>4 DEF Network

LEMMA ConfigElse ==
    ASSUME TypeOK, ConfigInv, FindMyWrites \/ Launch \/ Signal \/ UNCHANGED vars
    PROVE  ConfigInv'
<1>1. OnWire' = OnWire /\ Waiting' = Waiting
  BY DEF FindMyWrites, Launch, Signal, vars, mqttVars, world, OnWire, Waiting
<1>2. CASE Launch
  <2>1. known = {} /\ out = <<>> /\ net = "down" /\ pc' = "wait" /\ UNCHANGED <<known, out, net>>
    BY <1>2 DEF Launch, ConfigInv, NoClient, Running, mqttVars, world
  <2>2. Claimed' = {} /\ Waiting' = {}
    BY <2>1 DEF Claimed, Waiting
  <2>3. Running'
    BY <2>1 DEF Running
  <2> QED
    BY <2>1, <2>2, <2>3 DEF ConfigInv, NoClient, ClearKnowsNothing, WireKeepsConfigs,
                           QueueKeepsConfigs, ClaimsHold
<1>3. CASE FindMyWrites \/ Signal \/ UNCHANGED vars
  <2>1. /\ UNCHANGED <<net, netpc, retained, mode, known, pc, out>> /\ Claimed' = Claimed
    BY <1>3 DEF FindMyWrites, Signal, vars, mqttVars, world, mainVars, Claimed
  <2> QED
    BY <1>1, <2>1 DEF ConfigInv, NoClient, ClearKnowsNothing, WireKeepsConfigs,
                     QueueKeepsConfigs, ClaimsHold, Running
<1> QED
  BY <1>2, <1>3

LEMMA ConfigNext ==
    ASSUME TypeOK, TodoTyped, ConfigInv, [Next]_vars
    PROVE  ConfigInv'
<1>1. CASE MainThread
  BY <1>1, ConfigStart, ConfigPoll, ConfigClear, ConfigStop, ConfigMain, ConfigGone DEF MainThread
<1>2. CASE Crash
  BY <1>2, ConfigGone DEF Crash
<1>3. CASE NetworkThread \/ Network
  BY <1>3, ConfigThread, ConfigNetwork
<1>4. CASE FindMyWrites \/ Launch \/ Signal \/ UNCHANGED vars
  BY <1>4, ConfigElse
<1> QED
  BY <1>1, <1>2, <1>3, <1>4 DEF Next

LEMMA ConfigInit == Init => ConfigInv
<1> SUFFICES ASSUME Init PROVE ConfigInv
  OBVIOUS
<1>1. OnWire = {} /\ Waiting = {} /\ Claimed = {}
  BY DEF Init, MqttInit, OnWire, Waiting, Claimed
<1> QED
  BY <1>1 DEF Init, MqttInit, ConfigInv, NoClient, ClearKnowsNothing, WireKeepsConfigs,
              QueueKeepsConfigs, ClaimsHold, Running

(* A record that poll_once calls known (runtime.py:180-185) has each of its  *)
(* configs at the broker or in paho's queue, for every order of outages,     *)
(* crashes, restarts and --clear in between.                                 *)
THEOREM ConfigsHeldHolds == Spec => []ConfigsHeld
<1>1. Init => TypeOK /\ TodoTyped /\ ConfigInv
  BY TypeInit, ConfigInit DEF Init, TodoTyped
<1>2. TypeOK /\ TodoTyped /\ ConfigInv /\ [Next]_vars => TypeOK' /\ TodoTyped' /\ ConfigInv'
  BY TypeStep, ConfigNext
<1>3. TypeOK /\ ConfigInv => ConfigsHeld
  <2> SUFFICES ASSUME TypeOK, ConfigInv, NEW r \in known, NEW t \in ConfigsOf(r)
               PROVE  Held(t, Config)
    BY DEF ConfigsHeld
  <2>1. t \in Claimed
    BY ConfigTopics DEF TypeOK, Claimed
  <2>2. retained[t] = Config \/ <<t, Config>> \in Waiting
    BY <2>1 DEF ConfigInv, ClaimsHold
  <2> QED
    BY <2>2 DEF Held, Waiting
<1> QED
  BY <1>1, <1>2, <1>3, PTL DEF Spec

-----------------------------------------------------------------------------
(* --clear. *)

(* The steps of a process under --clear. *)
ClearPath == mode = "clear" => pc \in {"off", "exited", "wait", "read", "wipe", "drain", "ack", "join"}

(* The topics that --clear has emptied so far, of the records it read.       *)
Erased ==
    {t \in Topic : /\ mode = "clear"
                   /\ \E r \in Visible(snap) : t \in WipedFor(r)
                   /\ pc \in {"drain", "ack", "join"} \/ (pc = "wipe" /\ t \notin todo)}

Erases(p) == p[1].kind \in {"config", "legacy"} => p[2] = NoBody

(* Under --clear nothing but empty configs is sent; what an earlier process  *)
(* left on the wire can only come while this one has no connection.          *)
QueueErases == mode = "clear" => \A p \in Waiting : Erases(p)

WireErases ==
    mode = "clear" => \/ \A p \in OnWire : Erases(p)
                      \/ net = "down" /\ \A t \in Erased : <<t, NoBody>> \in Waiting

ErasedHold == \A t \in Erased : retained[t] = NoBody \/ <<t, NoBody>> \in Waiting

EraseInv == NoClient /\ ClearPath /\ QueueErases /\ WireErases /\ ErasedHold

LEMMA ErasedTopics ==
    ASSUME TypeOK
    PROVE  /\ \A t \in Erased : t \in Topic /\ t.kind \in {"config", "legacy"}
           /\ ~(Avail.kind \in {"config", "legacy"})
<1>1. Visible(snap) \subseteq Rec
  BY DEF Visible, TypeOK, Cache
<1> QED
  BY <1>1, KindsDiffer DEF Erased

(* A step of a running main thread: at most one message, which under --clear *)
(* erases; what becomes erased is in paho's queue.                           *)
EraseStep ==
    /\ UNCHANGED <<net, retained, mode>> /\ Running' /\ ClearPath'
    /\ \E p \in Topic \X Body : Grows(p) /\ (mode = "clear" => Erases(p))
    /\ \A t \in Erased' : t \in Erased \/ <<t, NoBody>> \in Waiting'

LEMMA EraseMain ==
    ASSUME EraseInv, EraseStep
    PROVE  EraseInv'
<1>1. PICK p \in Topic \X Body : Grows(p) /\ (mode = "clear" => Erases(p))
  BY DEF EraseStep
<1>2. QueueErases'
  BY <1>1 DEF EraseStep, EraseInv, QueueErases, Grows, Erases
<1>3. WireErases'
  BY <1>1 DEF EraseStep, EraseInv, WireErases, Grows, Erases
<1>4. ErasedHold'
  BY <1>1 DEF EraseStep, EraseInv, ErasedHold, Grows
<1> QED
  BY <1>2, <1>3, <1>4 DEF EraseStep, EraseInv, NoClient

LEMMA EraseQuiet ==
    ASSUME TypeOK, UNCHANGED <<net, retained, mode, wire, out>>, Running', ClearPath',
           Erased' \subseteq Erased
    PROVE  EraseStep
<1>1. Grows(<<Avail, Online>>)
  BY DEF Grows, OnWire, Waiting
<1>2. <<Avail, Online>> \in Topic \X Body
  BY TopicsTyped
<1>3. Erases(<<Avail, Online>>)
  BY ErasedTopics DEF Erases
<1> QED
  BY <1>1, <1>2, <1>3 DEF EraseStep

LEMMA EraseGone ==
    ASSUME EraseInv, Gone("off") \/ Gone("exited")
    PROVE  EraseInv'
<1>1. Waiting' = {} /\ Erased' = {}
  BY DEF Gone, Waiting, Erased
<1>2. /\ net' = "down" /\ netpc' = "idle" /\ known' = {} /\ out' = <<>> /\ mode' = mode
      /\ pc' \in {"off", "exited"}
  BY DEF Gone
<1> QED
  BY <1>1, <1>2 DEF EraseInv, NoClient, ClearPath, QueueErases, WireErases, ErasedHold

(* In the other modes there is nothing to show. *)
LEMMA EraseElsewhere ==
    ASSUME TypeOK, TodoTyped, EraseInv, mode # "clear", Start \/ Poll \/ Clear
    PROVE  EraseStep \/ Gone("off")
<1>1. CASE MainStep
  <2>1. mode' = mode
    <3>1. CASE Start \/ Clear
      BY <3>1 DEF Start, WaitEnds, PublishStatus, PublishCache, PublishOnline, Clear, ClearReads,
                  ClearRaises, Raise, Gone, Wipe, Wiped, Goto
    <3>2. CASE Poll
      BY <3>2 DEF Poll, Iterate, ReadOk, ReadFails, ReadRaises, NextRecord, PublishConfig,
                  BuildState, PublishState, PublishCacheTime, Raise, Gone, Goto
    <3> QED
      BY <3>1, <3>2
  <2>2. Erased' = {} /\ ClearPath'
    BY <2>1 DEF Erased, ClearPath
  <2>3. Running' /\ UNCHANGED <<net, retained>>
    BY <1>1 DEF MainStep, CallsOut, Busy, Running
  <2> QED
    BY <1>1, <2>1, <2>2, <2>3 DEF MainStep, EraseStep
<1> QED
  BY <1>1, MainSteps

LEMMA EraseClear ==
    ASSUME TypeOK, TodoTyped, EraseInv, mode = "clear", Start \/ Poll \/ Clear
    PROVE  EraseStep \/ Gone("off")
<1>0. pc \in {"off", "exited", "wait", "read", "wipe", "drain", "ack", "join"}
  BY DEF EraseInv, ClearPath
<1>1. ~Poll
  BY <1>0 DEF Poll, Iterate, ReadOk, ReadFails, ReadRaises, NextRecord, PublishConfig, BuildState,
              PublishState, PublishCacheTime, Goto
<1>2. CASE Start
  <2>1. WaitEnds
    BY <1>0, <1>2 DEF Start, PublishStatus, PublishCache, PublishOnline, Goto
  <2>2. /\ UNCHANGED <<net, retained, mode, wire, out>> /\ Running' /\ ClearPath'
        /\ Erased' \subseteq Erased
    BY <2>1 DEF WaitEnds, Goto, Running, ClearPath, Erased, mqttVars
  <2> QED
    BY <2>2, EraseQuiet
<1>3. CASE ClearReads
  <2>1. /\ UNCHANGED <<net, retained, mode, wire, out>> /\ Running' /\ ClearPath'
        /\ pc' = "wipe"
        /\ {t \in Topic : \E r \in Visible(snap') : t \in WipedFor(r)} \subseteq todo'
    BY <1>3 DEF ClearReads, Running, ClearPath, mqttVars
  <2>2. Erased' = {}
    BY <2>1 DEF Erased, Visible
  <2> QED
    BY <2>1, <2>2, EraseQuiet
<1>4. CASE Wiped
  <2>1. /\ UNCHANGED <<net, retained, mode, wire, out, snap>> /\ Running' /\ ClearPath'
        /\ pc = "wipe" /\ todo = {}
    BY <1>4 DEF Wiped, Goto, Running, ClearPath, mqttVars
  <2>2. Erased' \subseteq Erased
    BY <2>1 DEF Erased, Visible
  <2> QED
    BY <2>1, <2>2, EraseQuiet
<1>5. CASE ClearRaises
  BY <1>5 DEF ClearRaises, Raise
<1>6. CASE Wipe
  <2>1. UNCHANGED <<net, retained, mode, snap>> /\ Running' /\ ClearPath' /\ pc = "wipe" /\ pc' = pc
    BY <1>6 DEF Wipe, Running, ClearPath
  <2>2. PICK t \in todo : todo' = todo \ {t} /\ Publish1(t, NoBody)
    BY <1>6 DEF Wipe
  <2>3. t \in Topic /\ NoBody \in Body
    BY TopicsTyped DEF TypeOK
  <2>4. Grows(<<t, NoBody>>) /\ <<t, NoBody>> \in Waiting'
    BY <2>2, <2>3, Publish1Effect DEF Grows
  <2>5. Erases(<<t, NoBody>>)
    BY DEF Erases
  <2>6. \A u \in Erased' : u \in Erased \/ u = t
    BY <2>1, <2>2 DEF Erased, Visible
  <2> QED
    BY <2>1, <2>3, <2>4, <2>5, <2>6 DEF EraseStep
<1> QED
  BY <1>1, <1>2, <1>3, <1>4, <1>5, <1>6 DEF Clear

LEMMA EraseStop ==
    ASSUME TypeOK, EraseInv, Stop
    PROVE  EraseStep \/ Gone("exited")
<1>1. CASE PublishOffline \/ StopWaiting
  <2>1. /\ UNCHANGED <<net, retained, mode, snap>> /\ Running' /\ ClearPath'
        /\ pc \in {"loop", "drain", "ack"} /\ pc' \in {"ack", "join"}
    BY <1>1 DEF PublishOffline, StopWaiting, Goto, Running, ClearPath, mqttVars
  <2>2. Erased' \subseteq Erased
    BY <2>1 DEF Erased, Visible, EraseInv, ClearPath
  <2>3. CASE PublishOffline
    <3>1. Grows(<<Avail, Offline>>)
      BY <2>3, Publish1Effect, TopicsTyped DEF PublishOffline, Grows
    <3>2. <<Avail, Offline>> \in Topic \X Body /\ Erases(<<Avail, Offline>>)
      BY TopicsTyped, ErasedTopics DEF Erases
    <3> QED
      BY <2>1, <2>2, <3>1, <3>2 DEF EraseStep
  <2>4. CASE StopWaiting
    BY <2>1, <2>2, <2>4, EraseQuiet DEF StopWaiting, mqttVars
  <2> QED
    BY <1>1, <2>3, <2>4
<1>2. CASE Exit
  BY <1>2 DEF Exit
<1> QED
  BY <1>1, <1>2 DEF Stop

LEMMA EraseThread ==
    ASSUME TypeOK, EraseInv, NetworkThread
    PROVE  EraseInv'
<1>0. /\ Running /\ Running' /\ UNCHANGED <<mode, pc>> /\ Erased' = Erased
      /\ ClearPath' /\ NoClient'
  BY DEF NetworkThread, Running, mainVars, Erased, ClearPath, EraseInv, NoClient, Visible
<1>1. CASE TcpConnect
  <2>1. OnWire' = {} /\ Waiting' = Waiting
    BY <1>1 DEF TcpConnect, OnWire, Waiting
  <2>2. \A t \in Erased : retained'[t] = retained[t]
    BY <1>1, ErasedTopics DEF TcpConnect, TypeOK, MqttTypeOK
  <2> QED
    BY <1>0, <2>1, <2>2 DEF EraseInv, WireErases, QueueErases, ErasedHold
<1>2. CASE OnConnect
  <2>1. OnWire' = OnWire /\ Waiting' = Waiting
    BY <1>2 DEF OnConnect, OnWire, Waiting
  <2> QED
    BY <1>0, <1>2, <2>1 DEF OnConnect, EraseInv, WireErases, QueueErases, ErasedHold
<1>3. CASE Announce
  <2>1. /\ OnWire' = IF net = "down" THEN OnWire ELSE OnWire \cup {<<Avail, Online>>}
        /\ Waiting' = Waiting \cup {<<Avail, Online>>}
    BY <1>3, Publish1Effect, TopicsTyped DEF Announce
  <2>2. UNCHANGED <<net, retained>> /\ Erases(<<Avail, Online>>)
    BY <1>3, ErasedTopics DEF Announce, Erases
  <2> QED
    BY <1>0, <2>1, <2>2 DEF EraseInv, WireErases, QueueErases, ErasedHold
<1>4. CASE Resend
  <2>1. /\ OnWire' \subseteq OnWire \cup Waiting /\ Waiting' = Waiting
        /\ UNCHANGED <<net, retained>>
    BY <1>4, ResendEffect DEF Resend
  <2> QED
    BY <1>0, <2>1 DEF EraseInv, WireErases, QueueErases, ErasedHold
<1>5. CASE OnDisconnect
  <2>1. OnWire' = OnWire /\ Waiting' = Waiting /\ net' = "down" /\ UNCHANGED retained
    BY <1>5, OnDisconnectEffect DEF OnDisconnect
  <2> QED
    BY <1>0, <2>1 DEF EraseInv, WireErases, QueueErases, ErasedHold
<1> QED
  BY <1>1, <1>2, <1>3, <1>4, <1>5 DEF NetworkThread

LEMMA EraseNetwork ==
    ASSUME TypeOK, EraseInv, Network
    PROVE  EraseInv'
<1>0. /\ (Running' <=> Running) /\ UNCHANGED <<mode, pc, known>> /\ Erased' = Erased /\ ClearPath'
  BY DEF Network, Running, mainVars, Erased, ClearPath, EraseInv, Visible
<1>1. CASE Break
  <2>1. OnWire' = OnWire /\ Waiting' = Waiting
    BY <1>1 DEF Break, OnWire, Waiting
  <2> QED
    BY <1>0, <1>1, <2>1 DEF Break, EraseInv, NoClient, WireErases, QueueErases, ErasedHold
<1>2. CASE Deliver
  <2>1. /\ Front \in OnWire
        /\ OnWire' \subseteq OnWire
        /\ Waiting' \subseteq Waiting /\ Waiting \subseteq Waiting' \cup {Front}
        /\ net = "down" => Waiting' = Waiting
        /\ \A t \in Topic : retained'[t] = IF t = Head(wire).topic THEN Head(wire).body
                                           ELSE retained[t]
    BY <1>2, DeliverEffect
  <2>2. UNCHANGED <<net, netpc>> /\ (net = "down" => UNCHANGED out)
    BY <1>2 DEF Deliver
  <2>3. WireErases' /\ QueueErases'
    BY <1>0, <2>1, <2>2 DEF EraseInv, WireErases, QueueErases
  <2>4. ErasedHold'
    <3> SUFFICES ASSUME NEW t \in Erased
                 PROVE  retained'[t] = NoBody \/ <<t, NoBody>> \in Waiting'
      BY <1>0 DEF ErasedHold
    <3>1. t \in Topic /\ t.kind \in {"config", "legacy"} /\ mode = "clear"
      BY ErasedTopics DEF Erased
    <3>2. CASE net = "down" /\ <<t, NoBody>> \in Waiting
      BY <3>2, <2>1
    <3>3. CASE \A p \in OnWire : Erases(p)
      <4>1. Head(wire).topic = t => Head(wire).body = NoBody
        BY <3>1, <3>3, <2>1 DEF Front, Erases
      <4> QED
        BY <3>1, <4>1, <2>1 DEF EraseInv, ErasedHold, Front
    <3> QED
      BY <3>1, <3>2, <3>3 DEF EraseInv, WireErases
  <2> QED
    BY <1>0, <2>2, <2>3, <2>4 DEF EraseInv, NoClient
<1>3. CASE TakeBye
  <2>1. OnWire' = {} /\ Waiting' = Waiting
    BY <1>3 DEF TakeBye, OnWire, Waiting
  <2> QED
    BY <1>0, <1>3, <2>1 DEF TakeBye, EraseInv, NoClient, WireErases, QueueErases, ErasedHold
<1>4. CASE FireWill
  <2>1. OnWire' = {} /\ Waiting' = Waiting
    BY <1>4 DEF FireWill, OnWire, Waiting
  <2>2. \A t \in Erased : retained'[t] = retained[t]
    BY <1>4, ErasedTopics DEF FireWill, TypeOK, MqttTypeOK
  <2> QED
    BY <1>0, <1>4, <2>1, <2>2 DEF FireWill, EraseInv, NoClient, WireErases, QueueErases, ErasedHold
<1> QED
  BY <1>1, <1>2, <1>3, <1>4 DEF Network

LEMMA EraseElse ==
    ASSUME TypeOK, EraseInv, FindMyWrites \/ Launch \/ Signal \/ UNCHANGED vars
    PROVE  EraseInv'
<1>1. OnWire' = OnWire /\ Waiting' = Waiting
  BY DEF FindMyWrites, Launch, Signal, vars, mqttVars, world, OnWire, Waiting
<1>2. CASE Launch
  <2>1. out = <<>> /\ net = "down" /\ pc' = "wait" /\ UNCHANGED <<out, net>>
    BY <1>2 DEF Launch, EraseInv, NoClient, Running, mqttVars
  <2>2. Erased' = {} /\ Waiting' = {} /\ Running'
    BY <2>1 DEF Erased, Waiting, Running
  <2> QED
    BY <2>1, <2>2 DEF EraseInv, NoClient, ClearPath, QueueErases, WireErases, ErasedHold
<1>3. CASE FindMyWrites \/ Signal \/ UNCHANGED vars
  <2>1. UNCHANGED <<net, netpc, retained, mode, known, pc, out>> /\ Erased' = Erased
    BY <1>3 DEF FindMyWrites, Signal, vars, mqttVars, world, mainVars, Erased, Visible
  <2> QED
    BY <1>1, <2>1 DEF EraseInv, NoClient, ClearPath, QueueErases, WireErases, ErasedHold, Running
<1> QED
  BY <1>2, <1>3

LEMMA EraseNext ==
    ASSUME TypeOK, TodoTyped, EraseInv, [Next]_vars
    PROVE  EraseInv'
<1>1. CASE MainThread
  BY <1>1, EraseClear, EraseElsewhere, EraseStop, EraseMain, EraseGone DEF MainThread
<1>2. CASE Crash
  BY <1>2, EraseGone DEF Crash
<1>3. CASE NetworkThread \/ Network
  BY <1>3, EraseThread, EraseNetwork
<1>4. CASE FindMyWrites \/ Launch \/ Signal \/ UNCHANGED vars
  BY <1>4, EraseElse
<1> QED
  BY <1>1, <1>2, <1>3, <1>4 DEF Next

(* When --clear has nothing left to send (runtime.py:144-152), no record     *)
(* that it could read has a config or a legacy state left at the broker,     *)
(* whatever an earlier process had under way and whatever was sent again.    *)
THEOREM ClearTakesEffectHolds == Spec => []ClearTakesEffect
<1>1. Init => TypeOK /\ TodoTyped /\ EraseInv
  <2> SUFFICES ASSUME Init PROVE EraseInv
    BY TypeInit DEF Init, TodoTyped
  <2>1. OnWire = {} /\ Waiting = {} /\ Erased = {}
    BY DEF Init, MqttInit, OnWire, Waiting, Erased
  <2> QED
    BY <2>1 DEF Init, MqttInit, EraseInv, NoClient, ClearPath, QueueErases, WireErases, ErasedHold
<1>2. TypeOK /\ TodoTyped /\ EraseInv /\ [Next]_vars => TypeOK' /\ TodoTyped' /\ EraseInv'
  BY TypeStep, EraseNext
<1>3. TypeOK /\ EraseInv => ClearTakesEffect
  <2> SUFFICES ASSUME TypeOK, EraseInv, Cleared, NEW r \in Visible(snap), NEW t \in WipedFor(r)
               PROVE  retained[t] = NoBody
    BY DEF ClearTakesEffect
  <2>1. r \in Rec
    BY DEF Visible, TypeOK, Cache
  <2>2. t \in Topic
    BY <2>1, TopicsTyped DEF WipedFor, ConfigsOf, Topic
  <2>3. t \in Erased /\ Waiting = {}
    BY <2>2 DEF Cleared, Erased, Waiting
  <2> QED
    BY <2>3 DEF EraseInv, ErasedHold
<1> QED
  BY <1>1, <1>2, <1>3, PTL DEF Spec

-----------------------------------------------------------------------------
(* A daemon that is never told to stop.                                      *)

NoGoodbye == <<Avail, NoBody>> \notin OnWire \cup Waiting

UnstoppedInv ==
    /\ mode = "run" /\ ~stop /\ pc \notin {"exited", "wipe", "drain", "ack", "join"}
    /\ NoGoodbye /\ OnlineImpliesSession

LEMMA UnstoppedMain ==
    ASSUME UnstoppedInv, MainStep, mode' = mode, UNCHANGED stop,
           pc' \notin {"exited", "wipe", "drain", "ack", "join"}
    PROVE  UnstoppedInv'
<1>1. PICK p \in Topic \X Body : Grows(p) /\ (p[1] = Avail => p[2] = Online)
  BY DEF MainStep
<1>2. p # <<Avail, NoBody>>
  BY <1>1, NamesAreDistinct
<1>3. NoGoodbye'
  BY <1>1, <1>2 DEF UnstoppedInv, NoGoodbye, Grows
<1> QED
  BY <1>3 DEF UnstoppedInv, OnlineImpliesSession, MainStep, CallsOut

LEMMA UnstoppedGone ==
    ASSUME UnstoppedInv, Gone("off"), UNCHANGED wire
    PROVE  UnstoppedInv'
<1>1. Waiting' = {} /\ OnWire' = OnWire
  BY DEF Gone, Waiting, OnWire
<1> QED
  BY <1>1 DEF Gone, UnstoppedInv, NoGoodbye, OnlineImpliesSession

LEMMA UnstoppedThread ==
    ASSUME TypeOK, UnstoppedInv, NetworkThread
    PROVE  UnstoppedInv'
<1>0. UNCHANGED <<mode, stop, pc>>
  BY DEF NetworkThread, mainVars
<1>1. CASE TcpConnect
  <2>1. OnWire' = {} /\ Waiting' = Waiting /\ session'
    BY <1>1 DEF TcpConnect, OnWire, Waiting
  <2> QED
    BY <1>0, <2>1 DEF UnstoppedInv, NoGoodbye, OnlineImpliesSession
<1>2. CASE OnConnect \/ OnDisconnect
  <2>1. OnWire' = OnWire /\ Waiting' = Waiting /\ UNCHANGED <<session, retained>>
    BY <1>2, OnDisconnectEffect DEF OnConnect, OnDisconnect, OnWire, Waiting
  <2> QED
    BY <1>0, <2>1 DEF UnstoppedInv, NoGoodbye, OnlineImpliesSession
<1>3. CASE Announce
  <2>1. /\ OnWire' = IF net = "down" THEN OnWire ELSE OnWire \cup {<<Avail, Online>>}
        /\ Waiting' = Waiting \cup {<<Avail, Online>>}
    BY <1>3, Publish1Effect, TopicsTyped DEF Announce
  <2>2. <<Avail, Online>> # <<Avail, NoBody>> /\ UNCHANGED <<session, retained>>
    BY <1>3, NamesAreDistinct DEF Announce
  <2> QED
    BY <1>0, <2>1, <2>2 DEF UnstoppedInv, NoGoodbye, OnlineImpliesSession
<1>4. CASE Resend
  <2>1. /\ OnWire' \subseteq OnWire \cup Waiting /\ Waiting' = Waiting
        /\ UNCHANGED <<session, retained>>
    BY <1>4, ResendEffect DEF Resend
  <2> QED
    BY <1>0, <2>1 DEF UnstoppedInv, NoGoodbye, OnlineImpliesSession
<1> QED
  BY <1>1, <1>2, <1>3, <1>4 DEF NetworkThread

LEMMA UnstoppedNetwork ==
    ASSUME TypeOK, UnstoppedInv, Network
    PROVE  UnstoppedInv'
<1>0. UNCHANGED <<mode, stop, pc>>
  BY DEF Network, mainVars
<1>1. CASE Break
  <2>1. OnWire' = OnWire /\ Waiting' = Waiting /\ UNCHANGED <<session, retained>>
    BY <1>1 DEF Break, OnWire, Waiting
  <2> QED
    BY <1>0, <2>1 DEF UnstoppedInv, NoGoodbye, OnlineImpliesSession
<1>2. CASE Deliver
  <2>1. OnWire' \subseteq OnWire /\ Waiting' \subseteq Waiting /\ session'
    BY <1>2, DeliverEffect DEF Deliver
  <2> QED
    BY <1>0, <2>1 DEF UnstoppedInv, NoGoodbye, OnlineImpliesSession
<1>3. CASE TakeBye
  <2>1. wire[1] = Bye /\ 1 \in DOMAIN wire
    BY <1>3 DEF TakeBye, TypeOK, MqttTypeOK
  <2>2. <<Avail, NoBody>> \in OnWire
    BY <2>1 DEF OnWire, Bye
  <2> QED
    BY <2>2 DEF UnstoppedInv, NoGoodbye
<1>4. CASE FireWill
  <2>1. OnWire' = {} /\ Waiting' = Waiting
    BY <1>4 DEF FireWill, OnWire, Waiting
  <2>2. retained'[Avail] = Offline
    BY <1>4, TopicsTyped DEF FireWill, TypeOK, MqttTypeOK
  <2> QED
    BY <1>0, <2>1, <2>2, NamesAreDistinct DEF UnstoppedInv, NoGoodbye, OnlineImpliesSession
<1> QED
  BY <1>1, <1>2, <1>3, <1>4 DEF Network

LEMMA UnstoppedElse ==
    ASSUME "stop" \notin Env.faults, Env.modes = {"run"}, UnstoppedInv,
           FindMyWrites \/ Launch \/ Signal \/ UNCHANGED vars
    PROVE  UnstoppedInv'
<1>1. OnWire' = OnWire /\ Waiting' = Waiting
  BY DEF FindMyWrites, Launch, Signal, vars, mqttVars, world, OnWire, Waiting
<1>2. ~Signal
  BY DEF Signal
<1> QED
  BY <1>1, <1>2 DEF FindMyWrites, Launch, vars, mqttVars, world, mainVars, UnstoppedInv, NoGoodbye,
                    OnlineImpliesSession

LEMMA EnvFixed ==
    ASSUME [Next]_vars
    PROVE  UNCHANGED env
<1>1. CASE Start \/ Stop \/ Clear
  BY <1>1 DEF Start, WaitEnds, PublishStatus, PublishCache, PublishOnline, Stop, PublishOffline,
      StopWaiting, Exit, Gone, Clear, ClearReads, ClearRaises, Raise, Wipe, Wiped, Goto, world
<1>2. CASE Poll
  BY <1>2 DEF Poll, Iterate, ReadOk, ReadFails, ReadRaises, NextRecord, PublishConfig, BuildState,
      PublishState, PublishCacheTime, Raise, Gone, Goto, world
<1>3. CASE FindMyWrites \/ Launch \/ Crash \/ Signal \/ NetworkThread \/ Network \/ UNCHANGED vars
  BY <1>3 DEF FindMyWrites, Launch, Crash, Signal, NetworkThread, Network, Gone, vars, world
<1> QED
  BY <1>1, <1>2, <1>3 DEF Next, MainThread

LEMMA UnstoppedStep ==
    ASSUME Unstopped, TypeOK, TodoTyped, UnstoppedInv, [Next]_vars
    PROVE  UnstoppedInv'
<1>0. "stop" \notin Env.faults /\ Env.modes = {"run"}
  BY DEF Unstopped
<1>1. CASE Start \/ Poll
  <2>1. CASE MainStep
    <3>1. UNCHANGED <<mode, stop>> /\ pc' \notin {"exited", "wipe", "drain", "ack", "join"}
      <4>1. CASE Start
        BY <4>1 DEF Start, WaitEnds, PublishStatus, PublishCache, PublishOnline, Goto, UnstoppedInv
      <4>2. CASE Iterate \/ ReadOk \/ ReadFails \/ NextRecord \/ PublishConfig \/ PublishState
        BY <4>2 DEF Iterate, ReadOk, ReadFails, NextRecord, PublishConfig, PublishState, Goto,
                    Returned, UnstoppedInv
      <4>3. CASE ReadRaises \/ BuildState \/ PublishCacheTime
        BY <4>3 DEF ReadRaises, BuildState, PublishCacheTime, Raise, Returned, UnstoppedInv
      <4> QED
        BY <1>1, <4>1, <4>2, <4>3 DEF Poll
    <3> QED
      BY <2>1, <3>1, UnstoppedMain
  <2>2. CASE Gone("off") /\ UNCHANGED wire
    BY <2>2, UnstoppedGone
  <2> QED
    BY <1>1, <2>1, <2>2, MainSteps
<1>2. ~Clear /\ ~Stop
  BY DEF Clear, ClearReads, ClearRaises, Wipe, Wiped, Stop, PublishOffline, StopWaiting, Exit, Goto,
         UnstoppedInv
<1>3. CASE Crash
  BY <1>3, UnstoppedGone DEF Crash
<1>4. CASE NetworkThread \/ Network
  BY <1>4, UnstoppedThread, UnstoppedNetwork
<1>5. CASE FindMyWrites \/ Launch \/ Signal \/ UNCHANGED vars
  BY <1>0, <1>5, UnstoppedElse
<1> QED
  BY <1>1, <1>2, <1>3, <1>4, <1>5 DEF Next, MainThread

(* A daemon that nobody stops is never shown "online" by a broker that has   *)
(* no session of it: the will set before connecting                          *)
(* (paho_publisher.py:126-132) takes "online" back.  With stop(), this fails *)
(* (MCBridge_stoprace).                                                      *)
THEOREM UnstoppedOnlineHolds == Spec => []UnstoppedOnline
<1> DEFINE Inv == Unstopped => UnstoppedInv
<1>1. Init => TypeOK /\ TodoTyped /\ Inv
  <2> SUFFICES ASSUME Init, Unstopped PROVE UnstoppedInv
    BY TypeInit DEF Init, TodoTyped
  <2>1. OnWire = {} /\ Waiting = {}
    BY DEF Init, MqttInit, OnWire, Waiting
  <2>2. retained[Avail] = NoBody
    BY KindsDiffer, TopicsTyped DEF Init, MqttInit
  <2>3. mode = "run"
    BY DEF Init, Unstopped
  <2> QED
    BY <2>1, <2>2, <2>3, NamesAreDistinct DEF Init, UnstoppedInv, NoGoodbye, OnlineImpliesSession
<1>2. TypeOK /\ TodoTyped /\ Inv /\ [Next]_vars => TypeOK' /\ TodoTyped' /\ Inv'
  <2> SUFFICES ASSUME TypeOK, TodoTyped, Inv, [Next]_vars, Unstopped' PROVE UnstoppedInv'
    BY TypeStep
  <2>1. Unstopped
    BY EnvFixed DEF Unstopped, Env
  <2> QED
    BY <2>1, UnstoppedStep
<1>3. Inv => UnstoppedOnline
  BY DEF UnstoppedInv, UnstoppedOnline
<1> QED
  BY <1>1, <1>2, <1>3, PTL DEF Spec

=============================================================================
