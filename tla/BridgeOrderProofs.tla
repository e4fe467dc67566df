------------------------- MODULE BridgeOrderProofs -------------------------
(* NeverGoesBack, the refinement of StateBoard, and LastIsRetained, for every *)
(* set of records and entities and every bound.                              *)
(*                                                                           *)
(* A value is the number of the cache write it comes from.  What is said of  *)
(* a topic, at the broker and on the wire, is in order, and not newer than   *)
(* what the bridge may publish there next.                                   *)
EXTENDS BridgeSafetyProofs

(* The values for t that the broker has or may still get.                    *)
Seen(t) == {wire[i].body : i \in {j \in DOMAIN wire : wire[j].topic = t}}
              \cup ({retained[t]} \ {NoBody})

Sorted(t) ==
    \A i \in DOMAIN wire : wire[i].topic = t =>
        /\ retained[t] # NoBody => retained[t] <= wire[i].body
        /\ \A j \in DOMAIN wire : j < i /\ wire[j].topic = t => wire[j].body <= wire[i].body

(* b is not newer than what the files have of t, nor, within a poll, than    *)
(* what this poll has read.                                                  *)
Fits(t, b) ==
    /\ b <= stamp
    /\ cache.val[t] # 0 => b <= cache.val[t]
    /\ t \in StateTopics =>
          /\ pc \in {"config", "state"} /\ snap.val[t] # 0 => b <= snap.val[t]

Versions ==
    \A t \in Mirrored :
        /\ cache.val[t] <= stamp /\ snap.val[t] <= stamp
        /\ cache.val[t] # 0 => snap.val[t] <= cache.val[t]

(* Values travel at QoS 0 only: paho has none to send again.                 *)
NoneQueued == \A p \in Waiting : p[1] \notin Mirrored

Ordered == \A t \in Mirrored : Sorted(t) /\ \A b \in Seen(t) : b \in Nat \ {0}

OrderInv ==
    /\ NoneQueued /\ Ordered /\ Versions
    /\ \A t \in Mirrored : \A b \in Seen(t) : Fits(t, b)

-----------------------------------------------------------------------------
(* What happens to the wire. *)

LEMMA MirroredTopics ==
    /\ Mirrored \subseteq Topic
    /\ CacheTime \notin StateTopics
    /\ \A t \in Mirrored : t.kind \in {"state", "cache time"}
    /\ {Avail, StatusConfig, CacheConfig} \cap Mirrored = {}
  BY TopicsTyped, KindsDiffer DEF Mirrored

(* The wire stays, is lost, or gets a packet that is not about the cache.    *)
Aside ==
    /\ \/ wire' \in {wire, <<>>}
       \/ \E p \in Packet : p.topic \notin Mirrored /\ wire' = Append(wire, p)
    /\ \A t \in Mirrored : retained'[t] = retained[t]

LEMMA AsideKeeps ==
    ASSUME TypeOK, Ordered, Aside
    PROVE  Ordered' /\ \A t \in Mirrored : Seen(t)' \subseteq Seen(t)
<1>1. CASE wire' = wire
  BY <1>1 DEF Aside, Ordered, Sorted, Seen
<1>2. CASE wire' = <<>>
  BY <1>2 DEF Aside, Ordered, Sorted, Seen
<1>3. ASSUME NEW p \in Packet, p.topic \notin Mirrored, wire' = Append(wire, p)
      PROVE  Ordered' /\ \A t \in Mirrored : Seen(t)' \subseteq Seen(t)
  <2>1. /\ DOMAIN wire' = 1 .. (Len(wire) + 1)
        /\ \A i \in DOMAIN wire : wire'[i] = wire[i]
        /\ wire'[Len(wire) + 1] = p
        /\ DOMAIN wire = 1 .. Len(wire) /\ Len(wire) \in Nat
    BY <1>3, AppendedPairs DEF TypeOK, MqttTypeOK
  <2>2. \A i \in DOMAIN wire' : wire'[i].topic \in Mirrored => i \in DOMAIN wire /\ wire'[i] = wire[i]
    BY <1>3, <2>1
  <2>3. \A t \in Mirrored : Seen(t)' \subseteq Seen(t)
    BY <2>2 DEF Seen, Aside
  <2>4. \A t \in Mirrored : Sorted(t)'
    BY <2>2 DEF Sorted, Aside, Ordered
  <2> QED
    BY <2>3, <2>4 DEF Ordered
<1> QED
  BY <1>1, <1>2, <1>3 DEF Aside

(* A value that is not older than any other of its topic. *)
LEMMA AppendKeeps ==
    ASSUME TypeOK, Ordered, NEW t \in Mirrored, NEW b \in Nat \ {0},
           \A c \in Seen(t) : c <= b,
           wire' = Append(wire, [topic |-> t, body |-> b, qos |-> 0]),
           retained' = retained
    PROVE  /\ Ordered'
           /\ \A u \in Mirrored : Seen(u)' \subseteq IF u = t THEN Seen(u) \cup {b} ELSE Seen(u)
<1> DEFINE p == [topic |-> t, body |-> b, qos |-> 0]
<1>1. p \in Packet
  BY MirroredTopics DEF Packet, Body
<1>2. /\ DOMAIN wire' = 1 .. (Len(wire) + 1)
      /\ \A i \in DOMAIN wire : wire'[i] = wire[i]
      /\ wire'[Len(wire) + 1] = p
      /\ DOMAIN wire = 1 .. Len(wire) /\ Len(wire) \in Nat
  BY <1>1, AppendedPairs DEF TypeOK, MqttTypeOK
<1>3. \A i \in DOMAIN wire' : (i \in DOMAIN wire /\ wire'[i] = wire[i])
                              \/ (i = Len(wire) + 1 /\ wire'[i].topic = t /\ wire'[i].body = b)
  BY <1>2
<1>4. \A u \in Mirrored : Seen(u)' \subseteq IF u = t THEN Seen(u) \cup {b} ELSE Seen(u)
  BY <1>3 DEF Seen
<1>5. ASSUME NEW u \in Mirrored PROVE Sorted(u)'
  <2> SUFFICES ASSUME NEW i \in DOMAIN wire', wire'[i].topic = u
               PROVE  /\ retained[u] # NoBody => retained[u] <= wire'[i].body
                      /\ \A j \in DOMAIN wire' : j < i /\ wire'[j].topic = u => wire'[j].body <= wire'[i].body
    BY DEF Sorted
  <2>1. CASE i \in DOMAIN wire
    <3>1. \A j \in DOMAIN wire' : j < i => j \in DOMAIN wire /\ wire'[j] = wire[j]
      BY <1>2, <2>1
    <3>2. wire'[i] = wire[i] /\ Sorted(u)
      BY <1>2, <2>1 DEF Ordered
    <3> QED
      BY <2>1, <3>1, <3>2 DEF Sorted
  <2>2. CASE i = Len(wire) + 1
    <3>1. u = t /\ wire'[i].body = b
      BY <1>2, <2>2
    <3>2. \A j \in DOMAIN wire' : j < i => j \in DOMAIN wire /\ wire'[j] = wire[j]
      BY <1>2, <2>2
    <3>3. \A j \in DOMAIN wire : wire[j].topic = u => wire[j].body \in Seen(u)
      BY DEF Seen
    <3>4. retained[u] # NoBody => retained[u] \in Seen(u)
      BY DEF Seen
    <3> QED
      BY <3>1, <3>2, <3>3, <3>4
  <2> QED
    BY <1>2, <2>1, <2>2
<1> QED
  BY <1>4, <1>5 DEF Ordered

(* Delivery: the oldest value of a topic arrives first. *)
LEMMA DeliverKeeps ==
    ASSUME TypeOK, Ordered, Deliver
    PROVE  /\ Ordered'
           /\ \A t \in Mirrored : /\ Seen(t)' \subseteq Seen(t)
                                  /\ retained[t] # NoBody => retained'[t] # NoBody /\ retained[t] <= retained'[t]
<1>1. /\ wire \in Seq(Packet) /\ wire # <<>> /\ Head(wire) = wire[1] /\ 1 \in DOMAIN wire
      /\ wire' = Tail(wire)
  BY DEF TypeOK, MqttTypeOK, Deliver
<1>2. /\ DOMAIN wire' = 1 .. (Len(wire) - 1)
      /\ DOMAIN wire = 1 .. Len(wire) /\ Len(wire) \in Nat
      /\ \A i \in DOMAIN wire' : wire'[i] = wire[i + 1] /\ i + 1 \in DOMAIN wire /\ i + 1 > 1
  BY <1>1
<1>3. \A t \in Topic : retained'[t] = IF t = wire[1].topic THEN wire[1].body ELSE retained[t]
  BY <1>1, DeliverEffect
<1>4. ASSUME NEW t \in Mirrored
      PROVE  /\ Seen(t)' \subseteq Seen(t)
             /\ retained[t] # NoBody => retained'[t] # NoBody /\ retained[t] <= retained'[t]
             /\ Sorted(t)'
  <2>0. Sorted(t) /\ \A b \in Seen(t) : b \in Nat \ {0}
    BY <1>4 DEF Ordered
  <2>1. retained'[t] = IF t = wire[1].topic THEN wire[1].body ELSE retained[t]
    BY <1>3, MirroredTopics
  <2>2. t = wire[1].topic => wire[1].body \in Seen(t)
    BY <1>1 DEF Seen
  <2>3. Seen(t)' \subseteq Seen(t)
    BY <1>2, <2>1, <2>2 DEF Seen
  <2>4. retained[t] # NoBody => retained'[t] # NoBody /\ retained[t] <= retained'[t]
    <3>1. CASE t = wire[1].topic
      <4>1. wire[1].body # NoBody
        BY <2>0, <2>2, <3>1, NamesAreDistinct
      <4> QED
        BY <1>1, <2>0, <2>1, <3>1, <4>1 DEF Sorted
    <3>2. CASE t # wire[1].topic
      <4>1. retained[t] # NoBody => retained[t] \in Nat
        BY <2>0 DEF Seen
      <4> QED
        BY <2>1, <3>2, <4>1
    <3> QED
      BY <3>1, <3>2
  <2>5. Sorted(t)'
    <3> SUFFICES ASSUME NEW i \in DOMAIN wire', wire'[i].topic = t
                 PROVE  /\ retained'[t] # NoBody => retained'[t] <= wire'[i].body
                        /\ \A j \in DOMAIN wire' : j < i /\ wire'[j].topic = t => wire'[j].body <= wire'[i].body
      BY DEF Sorted
    <3>1. i + 1 \in DOMAIN wire /\ wire'[i] = wire[i + 1] /\ 1 < i + 1
      BY <1>2
    <3>2. \A j \in DOMAIN wire' : j < i => j + 1 < i + 1 /\ wire'[j] = wire[j + 1] /\ j + 1 \in DOMAIN wire
      BY <1>2
    <3>3. retained'[t] # NoBody => retained'[t] <= wire'[i].body
      BY <1>1, <2>0, <2>1, <3>1 DEF Sorted
    <3> QED
      BY <2>0, <3>1, <3>2, <3>3 DEF Sorted
  <2> QED
    BY <2>3, <2>4, <2>5
<1> QED
  BY <1>4 DEF Ordered

-----------------------------------------------------------------------------
(* The steps. *)

(* The files and what was read of them stay; no poll begins to publish.      *)
Steady ==
    /\ UNCHANGED <<cache, stamp, snap>>
    /\ pc' \in {"config", "state"} => pc \in {"config", "state"}

LEMMA SteadyFits ==
    ASSUME Steady, NEW t \in Mirrored, NEW b, Fits(t, b)
    PROVE  Fits(t, b)'
  BY DEF Steady, Fits

LEMMA AsideStep ==
    ASSUME TypeOK, OrderInv, Aside, NoneQueued', Steady
    PROVE  OrderInv'
<1>1. Ordered' /\ \A t \in Mirrored : Seen(t)' \subseteq Seen(t)
  BY AsideKeeps DEF OrderInv
<1>2. Versions'
  BY DEF OrderInv, Versions, Steady
<1>3. \A t \in Mirrored : \A b \in Seen(t)' : Fits(t, b)'
  BY <1>1, SteadyFits DEF OrderInv
<1> QED
  BY <1>1, <1>2, <1>3 DEF OrderInv

LEMMA QuietOrder ==
    ASSUME TypeOK, OrderInv, Steady, UNCHANGED <<wire, out, retained>>
    PROVE  OrderInv'
<1>1. Aside /\ NoneQueued'
  BY DEF Aside, NoneQueued, OrderInv, Waiting
<1> QED
  BY <1>1, AsideStep

(* A QoS-1 message, about another topic. *)
LEMMA SendOrder ==
    ASSUME TypeOK, OrderInv, Steady, NEW t \in Topic \ Mirrored, NEW b \in Body,
           Publish1(t, b) \/ Send1(t, b), retained' = retained
    PROVE  OrderInv'
<1>1. NoneQueued'
  BY Publish1Effect DEF NoneQueued, OrderInv
<1>2. [topic |-> t, body |-> b, qos |-> 1] \in Packet
  BY DEF Packet
<1>3. Aside
  BY <1>2 DEF Aside, Publish1, Send1
<1> QED
  BY <1>1, <1>3, AsideStep

LEMMA GoneOrder ==
    ASSUME TypeOK, OrderInv, Gone("off") \/ Gone("exited"), Aside
    PROVE  OrderInv'
<1>1. NoneQueued' /\ Steady
  BY DEF Gone, NoneQueued, Waiting, Steady, world
<1> QED
  BY <1>1, AsideStep

LEMMA RaiseOrder ==
    ASSUME TypeOK, OrderInv, NEW k, Raise(k)
    PROVE  OrderInv'
<1>1. CASE Gone("off") /\ UNCHANGED wire
  <2>1. Aside
    BY <1>1 DEF Aside, Gone
  <2> QED
    BY <1>1, <2>1, GoneOrder
<1>2. CASE pc' = "loop" /\ UNCHANGED <<mqttVars, world, snap>>
  <2>1. Steady /\ UNCHANGED <<wire, out, retained>>
    BY <1>2 DEF Steady, mqttVars, world
  <2> QED
    BY <2>1, QuietOrder
<1> QED
  BY <1>1, <1>2 DEF Raise

(* One value of a poll. *)
LEMMA MirrorOrder ==
    ASSUME TypeOK, OrderInv, Steady, NEW t \in Mirrored, NEW b \in Nat \ {0},
           Mirror(t, b), retained' = retained,
           \A c \in Seen(t) : c <= b, Fits(t, b)
    PROVE  OrderInv'
<1>1. CASE UNCHANGED <<out, wire>>
  BY <1>1, QuietOrder
<1>2. CASE wire' = Append(wire, [topic |-> t, body |-> b, qos |-> 0]) /\ UNCHANGED out
  <2>1. /\ Ordered'
        /\ \A u \in Mirrored : Seen(u)' \subseteq IF u = t THEN Seen(u) \cup {b} ELSE Seen(u)
    BY <1>2, AppendKeeps DEF OrderInv
  <2>2. NoneQueued' /\ Versions'
    BY <1>2 DEF OrderInv, NoneQueued, Waiting, Versions, Steady
  <2>3. \A u \in Mirrored : \A c \in Seen(u)' : Fits(u, c)'
    <3>1. \A u \in Mirrored : \A c \in Seen(u)' : Fits(u, c)
      BY <2>1 DEF OrderInv
    <3> QED
      BY <3>1, SteadyFits
  <2> QED
    BY <2>1, <2>2, <2>3 DEF OrderInv
<1> QED
  BY <1>1, <1>2 DEF Mirror, Publish0

LEMMA StartOrder ==
    ASSUME TypeOK, OrderInv, Start
    PROVE  OrderInv'
<1>1. Steady /\ retained' = retained
  BY DEF Start, WaitEnds, PublishStatus, PublishCache, PublishOnline, Goto, Steady, mqttVars, world
<1>2. CASE WaitEnds
  BY <1>1, <1>2, QuietOrder DEF WaitEnds, mqttVars
<1>3. CASE PublishStatus \/ PublishCache \/ PublishOnline
  <2>1. \E t \in Topic \ Mirrored, b \in Body : Publish1(t, b)
    BY <1>3, TopicsTyped, MirroredTopics DEF PublishStatus, PublishCache, PublishOnline
  <2> QED
    BY <1>1, <2>1, SendOrder
<1> QED
  BY <1>2, <1>3 DEF Start

LEMMA PollOrder ==
    ASSUME TypeOK, TodoTyped, OrderInv, Poll
    PROVE  OrderInv'
<1>1. CASE Iterate \/ ReadFails \/ NextRecord
  <2>1. Steady /\ UNCHANGED <<wire, out, retained>>
    BY <1>1 DEF Iterate, ReadFails, NextRecord, Goto, Returned, Steady, mqttVars, world
  <2> QED
    BY <2>1, QuietOrder
<1>2. CASE ReadOk
  <2>1. UNCHANGED <<wire, out, retained, cache, stamp>> /\ snap' = cache
    BY <1>2 DEF ReadOk, mqttVars, world
  <2>2. Versions'
    BY <2>1 DEF OrderInv, Versions, TypeOK, Cache
  <2>3. NoneQueued' /\ Ordered' /\ \A t \in Mirrored : Seen(t)' = Seen(t)
    BY <2>1 DEF OrderInv, NoneQueued, Waiting, Ordered, Sorted, Seen
  <2>4. \A t \in Mirrored : \A b \in Seen(t) : Fits(t, b)'
    BY <2>1 DEF OrderInv, Fits
  <2> QED
    BY <2>2, <2>3, <2>4 DEF OrderInv
<1>3. CASE ReadRaises
  BY <1>3, RaiseOrder DEF ReadRaises
<1>4. CASE PublishConfig
  <2>1. Steady /\ retained' = retained
    BY <1>4 DEF PublishConfig, Steady, world
  <2>2. PICK t \in todo : Publish1(t, Config)
    BY <1>4 DEF PublishConfig
  <2>3. t \in Topic \ Mirrored /\ Config \in Body
    BY <1>4, KindsDiffer, MirroredTopics, TopicsTyped DEF PublishConfig, TodoTyped, TypeOK
  <2> QED
    BY <2>1, <2>2, <2>3, SendOrder
<1>5. CASE BuildState
  <2>1. CASE cur \in snap.raising
    BY <1>5, <2>1, RaiseOrder DEF BuildState
  <2>2. CASE cur \notin snap.raising
    <3>1. Steady /\ UNCHANGED <<wire, out, retained>>
      BY <1>5, <2>2 DEF BuildState, Steady, mqttVars, world
    <3> QED
      BY <3>1, QuietOrder
  <2> QED
    BY <2>1, <2>2
<1>6. CASE PublishState
  <2>1. Steady /\ retained' = retained /\ pc = "state"
    BY <1>6 DEF PublishState, Steady, world
  <2>2. PICK t \in todo : Mirror(t, snap.val[t])
    BY <1>6 DEF PublishState
  <2>3. t \in StateTopics /\ t \in Mirrored /\ snap.val[t] \in Nat \ {0}
    BY <2>1 DEF TodoTyped, TypeOK, Cache, Mirrored
  <2>4. \A c \in Seen(t) : c <= snap.val[t]
    BY <2>1, <2>3 DEF OrderInv, Fits
  <2>5. Fits(t, snap.val[t])
    BY <2>3 DEF OrderInv, Versions, Fits
  <2> QED
    BY <2>1, <2>2, <2>3, <2>4, <2>5, MirrorOrder
<1>7. CASE PublishCacheTime
  <2>1. Steady /\ retained' = retained
    BY <1>7 DEF PublishCacheTime, Returned, Steady, world
  <2> DEFINE time == cache.val[CacheTime]
  <2>2. CASE time = 0
    BY <1>7, <2>1, <2>2, QuietOrder DEF PublishCacheTime
  <2>3. CASE time # 0
    <3>1. CacheTime \in Mirrored /\ time \in Nat \ {0} /\ CacheTime \notin StateTopics
      BY <2>3, MirroredTopics DEF Mirrored, TypeOK, Cache
    <3>2. Fits(CacheTime, time)
      BY <3>1 DEF Fits, OrderInv, Versions
    <3>3. \A c \in Seen(CacheTime) : c <= time
      BY <3>1 DEF Fits, OrderInv
    <3> QED
      BY <1>7, <2>1, <2>3, <3>1, <3>2, <3>3, MirrorOrder DEF PublishCacheTime
  <2> QED
    BY <2>2, <2>3
<1> QED
  BY <1>1, <1>2, <1>3, <1>4, <1>5, <1>6, <1>7 DEF Poll

LEMMA ClearOrder ==
    ASSUME TypeOK, TodoTyped, OrderInv, Clear
    PROVE  OrderInv'
<1>1. CASE ClearReads
  <2>1. /\ UNCHANGED <<wire, out, retained, cache, stamp>>
        /\ snap' = cache \/ snap' = NoCache
        /\ pc' = "wipe"
    BY <1>1 DEF ClearReads, mqttVars, world
  <2>2. Versions'
    BY <2>1 DEF OrderInv, Versions, TypeOK, Cache, NoCache
  <2>3. NoneQueued' /\ Ordered' /\ \A t \in Mirrored : Seen(t)' = Seen(t)
    BY <2>1 DEF OrderInv, NoneQueued, Waiting, Ordered, Sorted, Seen
  <2>4. \A t \in Mirrored : \A b \in Seen(t) : Fits(t, b)'
    BY <2>1 DEF OrderInv, Fits
  <2> QED
    BY <2>2, <2>3, <2>4 DEF OrderInv
<1>2. CASE ClearRaises
  BY <1>2, RaiseOrder DEF ClearRaises
<1>3. CASE Wipe
  <2>1. Steady /\ retained' = retained
    BY <1>3 DEF Wipe, Steady, world
  <2>2. PICK t \in todo : Publish1(t, NoBody)
    BY <1>3 DEF Wipe
  <2>3. t \in Topic \ Mirrored /\ NoBody \in Body
    BY <1>3, MirroredTopics, TopicsTyped DEF Wipe, TodoTyped, TypeOK
  <2> QED
    BY <2>1, <2>2, <2>3, SendOrder
<1>4. CASE Wiped
  BY <1>4, QuietOrder DEF Wiped, Goto, Steady, mqttVars, world
<1> QED
  BY <1>1, <1>2, <1>3, <1>4 DEF Clear

LEMMA StopOrder ==
    ASSUME TypeOK, OrderInv, Stop
    PROVE  OrderInv'
<1>1. CASE PublishOffline
  <2>1. Steady /\ retained' = retained
    BY <1>1 DEF PublishOffline, Steady, world
  <2>2. Avail \in Topic \ Mirrored /\ Offline \in Body
    BY TopicsTyped, MirroredTopics
  <2> QED
    BY <1>1, <2>1, <2>2, SendOrder DEF PublishOffline
<1>2. CASE StopWaiting
  BY <1>2, QuietOrder DEF StopWaiting, Goto, Steady, mqttVars, world
<1>3. CASE Exit
  <2>1. Bye \in Packet /\ Bye.topic \notin Mirrored
    BY MirroredTopics DEF Packet, Bye
  <2>2. Aside
    BY <1>3, <2>1 DEF Exit, Gone, Aside
  <2> QED
    BY <1>3, <2>2, GoneOrder DEF Exit
<1> QED
  BY <1>1, <1>2, <1>3 DEF Stop

LEMMA ThreadOrder ==
    ASSUME TypeOK, OrderInv, NetworkThread
    PROVE  OrderInv'
<1>0. Steady
  BY DEF NetworkThread, Steady, world, mainVars
<1>1. CASE TcpConnect
  <2>1. Aside /\ NoneQueued'
    BY <1>1, MirroredTopics DEF TcpConnect, Aside, NoneQueued, OrderInv, Waiting, TypeOK, MqttTypeOK
  <2> QED
    BY <1>0, <2>1, AsideStep
<1>2. CASE OnConnect
  BY <1>0, <1>2, QuietOrder DEF OnConnect
<1>3. CASE Announce
  <2>1. Avail \in Topic \ Mirrored /\ Online \in Body
    BY TopicsTyped, MirroredTopics
  <2> QED
    BY <1>0, <1>3, <2>1, SendOrder DEF Announce
<1>4. CASE Resend
  <2>1. NoneQueued'
    BY <1>4, ResendEffect DEF NoneQueued, OrderInv
  <2>2. CASE UNCHANGED wire
    <3>1. Aside
      BY <1>4, <2>2 DEF Resend, Aside
    <3> QED
      BY <1>0, <2>1, <3>1, AsideStep
  <2>3. ASSUME NEW i \in Queued,
               wire' = Append(wire, [topic |-> out[i].topic, body |-> out[i].body, qos |-> 1])
        PROVE  OrderInv'
    <3>1. i \in DOMAIN out /\ out[i] \in Pending
      BY DEF Queued, TypeOK, MqttTypeOK
    <3>2. [topic |-> out[i].topic, body |-> out[i].body, qos |-> 1] \in Packet
      BY <3>1 DEF Pending, Packet
    <3>3. out[i].topic \notin Mirrored
      <4>1. <<out[i].topic, out[i].body>> \in Waiting
        BY <3>1 DEF Waiting
      <4> QED
        BY <4>1 DEF OrderInv, NoneQueued
    <3>4. Aside
      BY <1>4, <2>3, <3>2, <3>3 DEF Resend, Aside
    <3> QED
      BY <1>0, <2>1, <3>4, AsideStep
  <2> QED
    BY <1>4, <2>2, <2>3 DEF Resend
<1>5. CASE OnDisconnect
  <2>1. Aside /\ NoneQueued'
    BY <1>5, OnDisconnectEffect DEF OnDisconnect, Aside, NoneQueued, OrderInv
  <2> QED
    BY <1>0, <2>1, AsideStep
<1> QED
  BY <1>1, <1>2, <1>3, <1>4, <1>5 DEF NetworkThread

LEMMA NetworkOrder ==
    ASSUME TypeOK, OrderInv, Network
    PROVE  OrderInv'
<1>0. Steady
  BY DEF Network, Steady, world, mainVars
<1>1. CASE Break
  BY <1>0, <1>1, QuietOrder DEF Break
<1>2. CASE Deliver
  <2>1. Ordered' /\ \A t \in Mirrored : Seen(t)' \subseteq Seen(t)
    BY <1>2, DeliverKeeps DEF OrderInv
  <2>2. NoneQueued'
    BY <1>2, DeliverEffect DEF NoneQueued, OrderInv
  <2>3. Versions'
    BY <1>0 DEF OrderInv, Versions, Steady
  <2>4. \A t \in Mirrored : \A b \in Seen(t)' : Fits(t, b)'
    BY <1>0, <2>1, SteadyFits DEF OrderInv
  <2> QED
    BY <2>1, <2>2, <2>3, <2>4 DEF OrderInv
<1>3. CASE TakeBye \/ FireWill
  <2>1. Aside /\ NoneQueued'
    BY <1>3, MirroredTopics DEF TakeBye, FireWill, Aside, NoneQueued, OrderInv, Waiting, TypeOK, MqttTypeOK
  <2> QED
    BY <1>0, <2>1, AsideStep
<1> QED
  BY <1>1, <1>2, <1>3 DEF Network

(* A write of the cache: what is fresh is newer than anything seen. *)
LEMMA WriteOrder ==
    ASSUME TypeOK, OrderInv, FindMyWrites
    PROVE  OrderInv'
<1>1. /\ UNCHANGED <<wire, out, retained, snap, pc>>
      /\ stamp' = stamp + 1 /\ stamp \in Nat
  BY DEF FindMyWrites, mqttVars, mainVars, TypeOK
<1>2. \A t \in Mirrored : cache'.val[t] \in {stamp + 1, 0, cache.val[t]}
  BY WriteEffect
<1>3. \A t \in Mirrored : cache.val[t] \in Nat /\ snap.val[t] \in Nat
  BY DEF TypeOK, Cache
<1>4. Versions'
  BY <1>1, <1>2, <1>3 DEF OrderInv, Versions
<1>5. NoneQueued' /\ Ordered' /\ \A t \in Mirrored : Seen(t)' = Seen(t)
  BY <1>1 DEF OrderInv, NoneQueued, Waiting, Ordered, Sorted, Seen
<1>6. ASSUME NEW t \in Mirrored, NEW b \in Seen(t) PROVE Fits(t, b)'
  <2>1. b \in Nat /\ Fits(t, b)
    BY DEF OrderInv, Ordered
  <2> QED
    BY <1>1, <1>2, <1>3, <2>1, TopicsTyped DEF Fits
<1> QED
  BY <1>4, <1>5, <1>6 DEF OrderInv

LEMMA LaunchOrder ==
    ASSUME TypeOK, OrderInv, Launch
    PROVE  OrderInv'
<1>1. UNCHANGED <<wire, out, retained, cache, stamp>> /\ snap' = NoCache /\ pc' = "wait"
  BY DEF Launch, mqttVars, world
<1>2. Versions'
  BY <1>1 DEF OrderInv, Versions, NoCache, TypeOK, Cache
<1>3. NoneQueued' /\ Ordered' /\ \A t \in Mirrored : Seen(t)' = Seen(t)
  BY <1>1 DEF OrderInv, NoneQueued, Waiting, Ordered, Sorted, Seen
<1>4. \A t \in Mirrored : \A b \in Seen(t) : Fits(t, b)'
  BY <1>1 DEF OrderInv, Fits
<1> QED
  BY <1>2, <1>3, <1>4 DEF OrderInv

LEMMA OrderStep ==
    ASSUME TypeOK, TodoTyped, OrderInv, [Next]_vars
    PROVE  OrderInv'
<1>1. CASE Crash
  <2>1. Aside
    BY <1>1 DEF Crash, Gone, Aside
  <2> QED
    BY <1>1, <2>1, GoneOrder DEF Crash
<1>2. CASE Signal \/ UNCHANGED vars
  <2>1. Steady /\ UNCHANGED <<wire, out, retained>>
    BY <1>2 DEF Signal, Steady, vars, mqttVars, world, mainVars
  <2> QED
    BY <2>1, QuietOrder
<1>3. CASE MainThread
  BY <1>3, StartOrder, PollOrder, ClearOrder, StopOrder DEF MainThread
<1> QED
  BY <1>1, <1>2, <1>3, WriteOrder, LaunchOrder, ThreadOrder, NetworkOrder DEF Next

LEMMA OrderInit == Init => OrderInv
<1> SUFFICES ASSUME Init PROVE OrderInv
  OBVIOUS
<1>1. wire = <<>> /\ Waiting = {} /\ stamp = 0 /\ cache = NoCache /\ snap = NoCache
  BY DEF Init, MqttInit, Waiting
<1>2. \A t \in Mirrored : retained[t] = NoBody
  BY MirroredTopics DEF Init, MqttInit
<1>3. \A t \in Mirrored : Seen(t) = {}
  BY <1>1, <1>2 DEF Seen
<1> QED
  BY <1>1, <1>3 DEF OrderInv, NoneQueued, Ordered, Sorted, Versions, NoCache

(* Only a write changes the cache, and only a delivery what is retained of   *)
(* it.                                                                       *)
Apart == UNCHANGED <<cache, stamp, empty>> /\ \A t \in Mirrored : retained'[t] = retained[t]

LEMMA WhoChangesWhat ==
    ASSUME TypeOK, [Next]_vars
    PROVE  \/ FindMyWrites /\ UNCHANGED retained
           \/ Deliver /\ UNCHANGED <<cache, stamp, empty>>
           \/ Apart
<1>1. CASE FindMyWrites
  BY <1>1 DEF FindMyWrites, mqttVars
<1>2. CASE Network
  <2>1. CASE Deliver
    BY <1>2, <2>1 DEF Network, world
  <2>2. CASE Break \/ TakeBye \/ FireWill
    <3>1. \A t \in Mirrored : t \in Topic /\ t # Avail
      BY MirroredTopics
    <3>2. \A t \in Mirrored : retained'[t] = retained[t]
      BY <2>2, <3>1 DEF Break, TakeBye, FireWill, TypeOK, MqttTypeOK
    <3> QED
      BY <1>2, <3>2 DEF Network, world, Apart
  <2> QED
    BY <1>2, <2>1, <2>2 DEF Network
<1>3. CASE NetworkThread
  <2>1. \A t \in Mirrored : retained'[t] = retained[t]
    BY <1>3, MirroredTopics DEF NetworkThread, TcpConnect, OnConnect, Announce, Resend,
       OnDisconnect, TypeOK, MqttTypeOK
  <2> QED
    BY <1>3, <2>1 DEF NetworkThread, world, Apart
<1>4. CASE MainThread
  <2>1. retained' = retained /\ UNCHANGED <<cache, stamp, empty>>
    BY <1>4 DEF MainThread, Start, WaitEnds, PublishStatus, PublishCache, PublishOnline, Poll,
       Iterate, ReadOk, ReadFails, ReadRaises, NextRecord, PublishConfig, BuildState, PublishState,
       PublishCacheTime, Clear, ClearReads, ClearRaises, Wipe, Wiped, Stop, PublishOffline,
       StopWaiting, Exit, Raise, Gone, Goto, mqttVars, world
  <2> QED
    BY <2>1 DEF Apart
<1>5. CASE Launch \/ Crash \/ Signal \/ UNCHANGED vars
  BY <1>5 DEF Launch, Crash, Signal, Gone, vars, mqttVars, world, Apart
<1> QED
  BY <1>1, <1>2, <1>3, <1>4, <1>5 DEF Next

(* A delivery shows a value that is not older, and not newer than the cache. *)
LEMMA DeliveryFits ==
    ASSUME TypeOK, OrderInv, OrderInv', Deliver, UNCHANGED <<cache, stamp, empty>>, NEW t \in Mirrored
    PROVE  /\ retained[t] # NoBody => retained[t] \in Nat /\ retained'[t] # NoBody /\ retained[t] <= retained'[t]
           /\ retained'[t] # NoBody =>
                 /\ retained'[t] \in Nat \ {0} /\ retained'[t] <= stamp
                 /\ cache.val[t] # 0 => retained'[t] <= cache.val[t]
<1>1. retained[t] # NoBody => retained'[t] # NoBody /\ retained[t] <= retained'[t]
  BY DeliverKeeps DEF OrderInv
<1>2. retained[t] # NoBody => retained[t] \in Nat
  BY DEF OrderInv, Ordered, Seen
<1>3. ASSUME retained'[t] # NoBody
      PROVE  /\ retained'[t] \in Nat \ {0} /\ retained'[t] <= stamp
             /\ cache.val[t] # 0 => retained'[t] <= cache.val[t]
  <2>1. retained'[t] \in Seen(t)'
    BY <1>3 DEF Seen
  <2>2. retained'[t] \in Nat \ {0}
    BY <2>1 DEF OrderInv, Ordered
  <2>3. /\ retained'[t] <= stamp'
        /\ cache'.val[t] # 0 => retained'[t] <= cache'.val[t]
    BY <2>1 DEF OrderInv, Fits
  <2> QED
    BY <2>2, <2>3
<1> QED
  BY <1>1, <1>2, <1>3

(* No retained state is ever replaced by an older one, by whatever order     *)
(* reconnects, redelivery, crashes and restarts bring messages to the        *)
(* broker: publish_state and publish_attributes send at QoS 0                *)
(* (paho_publisher.py:246-268), which neither paho nor a new session repeats. *)
THEOREM NeverGoesBackHolds == Spec => NeverGoesBack
<1>1. Init => TypeOK /\ TodoTyped /\ OrderInv
  BY TypeInit, OrderInit DEF Init, TodoTyped
<1>2. TypeOK /\ TodoTyped /\ OrderInv /\ [Next]_vars => TypeOK' /\ TodoTyped' /\ OrderInv'
  BY TypeStep, OrderStep
<1>3. TypeOK /\ OrderInv /\ OrderInv' /\ [Next]_vars
          => [\A t \in Mirrored :
                retained[t] # NoBody /\ retained'[t] # NoBody => retained'[t] >= retained[t]]_vars
  <2> SUFFICES ASSUME TypeOK, OrderInv, OrderInv', [Next]_vars, NEW t \in Mirrored, retained[t] # NoBody
               PROVE  retained'[t] >= retained[t]
    OBVIOUS
  <2>1. retained[t] \in Nat
    BY DEF OrderInv, Ordered, Seen
  <2>2. CASE Deliver /\ UNCHANGED <<cache, stamp, empty>>
    BY <2>1, <2>2, DeliveryFits
  <2>3. CASE retained'[t] = retained[t]
    BY <2>1, <2>3
  <2> QED
    BY <2>2, <2>3, WhoChangesWhat DEF Apart
<1> QED
  BY <1>1, <1>2, <1>3, PTL DEF Spec, NeverGoesBack

-----------------------------------------------------------------------------
(* The refinement: the retained values are a board of what the cache has.    *)

LEMMA BoardInitial == Init => Board!BoardInit
<1> SUFFICES ASSUME Init PROVE Board!BoardInit
  OBVIOUS
<1>1. stamp = 0 /\ cache = NoCache /\ empty = {}
  BY DEF Init
<1>2. \A t \in Mirrored : retained[t] = NoBody
  BY MirroredTopics DEF Init, MqttInit
<1>3. cache.val = [t \in Mirrored |-> 0]
  BY <1>1 DEF NoCache
<1> QED
  BY <1>1, <1>2, <1>3 DEF Board!BoardInit

LEMMA WriteMaps ==
    ASSUME TypeOK, OrderInv, FindMyWrites, UNCHANGED retained
    PROVE  Board!SourceWrites
<1> DEFINE brd == [t \in Mirrored |-> IF retained[t] = NoBody THEN 0 ELSE retained[t]]
<1>1. stamp' = stamp + 1 /\ stamp \in Nat
  BY WriteEffect DEF TypeOK
<1>2. \A t \in Mirrored : cache.val[t] \in 0 .. stamp /\ cache'.val[t] \in {stamp + 1, 0, cache.val[t]}
  BY WriteEffect DEF TypeOK, Cache, OrderInv, Versions
<1>3. cache'.val \in [Mirrored -> 0 .. stamp + 1]
  BY <1>1, <1>2, WriteEffect DEF Cache
<1>4. /\ empty \subseteq empty'
      /\ \A b \in empty' \ empty : b \in Mirrored \X {stamp + 1} /\ cache'.val[b[1]] = stamp + 1
  BY WriteEffect, TopicsTyped
<1>5. brd' = brd
  OBVIOUS
<1> HIDE DEF brd
<1> QED
  BY <1>1, <1>2, <1>3, <1>4, <1>5 DEF Board!SourceWrites, brd

LEMMA DeliveryMaps ==
    ASSUME TypeOK, OrderInv, OrderInv', Deliver, UNCHANGED <<cache, stamp, empty>>
    PROVE  Board!Show \/ UNCHANGED Board!boardVars
<1> DEFINE src == cache.val
           brd == [t \in Mirrored |-> IF retained[t] = NoBody THEN 0 ELSE retained[t]]
           t == Head(wire).topic
           v == retained'[t]
<1>1. src' = src /\ UNCHANGED <<stamp, empty>>
  OBVIOUS
<1>2. Head(wire) \in Packet /\ retained' = [retained EXCEPT ![t] = Head(wire).body]
  BY DEF Deliver, TypeOK, MqttTypeOK
<1>3. \A u \in Mirrored : u # t => retained'[u] = retained[u]
  BY <1>2, MirroredTopics DEF TypeOK, MqttTypeOK
<1>4. CASE t \notin Mirrored \/ v = retained[t]
  <2>1. \A u \in Mirrored : retained'[u] = retained[u]
    BY <1>3, <1>4
  <2>2. brd' = brd
    BY <2>1
  <2> QED
    BY <1>1, <2>2 DEF Board!boardVars
<1>5. CASE t \in Mirrored /\ v # retained[t]
  <2>1. v # NoBody
    BY <1>5, DeliveryFits
  <2>2. /\ v \in Nat \ {0} /\ v <= stamp
        /\ cache.val[t] # 0 => v <= cache.val[t]
        /\ retained[t] # NoBody => retained[t] \in Nat /\ retained[t] <= v
    BY <1>5, <2>1, DeliveryFits
  <2>3. stamp \in Nat /\ v \in 1 .. stamp
    BY <2>2 DEF TypeOK
  <2>4. brd[t] <= v
    BY <1>5, <2>2
  <2>5. src[t] # 0 => v <= src[t]
    BY <2>2
  <2>6. brd' = [brd EXCEPT ![t] = v]
    BY <1>3, <1>5, <2>1
  <2>7. brd' # brd
    <3>1. brd[t] # v /\ brd'[t] = v
      BY <1>5, <2>1, <2>2
    <3> QED
      BY <3>1
  <2> HIDE DEF src, brd, t, v
  <2>8. \E p \in Mirrored : \E b \in 1 .. stamp :
            brd[p] <= b /\ (src[p] # 0 => b <= src[p]) /\ brd' = [brd EXCEPT ![p] = b]
    BY <1>5, <2>3, <2>4, <2>5, <2>6
  <2> QED
    BY <1>1, <2>7, <2>8 DEF Board!Show, src, brd
<1> QED
  BY <1>4, <1>5

(* What the broker retains is a board of what the cache has: through         *)
(* outages, redelivery, crashes, restarts and --clear, every value there     *)
(* came from the cache, is not newer than what it has now, and stays until a *)
(* later one replaces it, or, where the later one is "", takes it away.      *)
THEOREM BridgeKeepsBoard == Spec => ImplementsBoard
<1>1. Init => TypeOK /\ TodoTyped /\ OrderInv
  BY TypeInit, OrderInit DEF Init, TodoTyped
<1>2. TypeOK /\ TodoTyped /\ OrderInv /\ [Next]_vars => TypeOK' /\ TodoTyped' /\ OrderInv'
  BY TypeStep, OrderStep
<1>3. TypeOK /\ OrderInv /\ OrderInv' /\ [Next]_vars => [Board!BoardNext]_(Board!boardVars)
  <2> SUFFICES ASSUME TypeOK, OrderInv, OrderInv', [Next]_vars
               PROVE  [Board!BoardNext]_(Board!boardVars)
    OBVIOUS
  <2>1. CASE Apart
    <3>1. UNCHANGED Board!boardVars
      BY <2>1 DEF Apart, Board!boardVars
    <3> QED
      BY <3>1
  <2>2. CASE FindMyWrites /\ UNCHANGED retained
    BY <2>2, WriteMaps DEF Board!BoardNext
  <2>3. CASE Deliver /\ UNCHANGED <<cache, stamp, empty>>
    BY <2>3, DeliveryMaps DEF Board!BoardNext
  <2> QED
    BY <2>1, <2>2, <2>3, WhoChangesWhat
<1> QED
  BY <1>1, <1>2, <1>3, BoardInitial, PTL DEF Spec, ImplementsBoard, Board!BoardSpec

-----------------------------------------------------------------------------
(* LastIsRetained, where the connection comes in time and stays.             *)

(* What _last says of t is what the broker will have of it in the end.       *)
Settled(t) ==
    last[t] # NoBody =>
        \/ \E i \in DOMAIN wire :
              /\ wire[i].topic = t /\ wire[i].body = last[t]
              /\ \A j \in DOMAIN wire : j > i => wire[j].topic # t
        \/ retained[t] = last[t] /\ \A i \in DOMAIN wire : wire[i].topic # t

Absent == pc \in {"off", "exited", "wait"}

CalmInv ==
    /\ net # "broken" /\ (connected \/ netpc # "idle" => net = "up")
    /\ IF Absent THEN \A t \in Topic : last[t] = NoBody ELSE net = "up"
    /\ \A t \in Topic \ Mirrored : last[t] = NoBody
    /\ \A t \in Mirrored : Settled(t)

(* Another packet, behind what is on the wire. *)
LEMMA SettledBehind ==
    ASSUME TypeOK, NEW p \in Packet, wire' = Append(wire, p), retained' = retained,
           NEW t \in Mirrored, last'[t] = last[t], t # p.topic, Settled(t)
    PROVE  Settled(t)'
<1>1. /\ DOMAIN wire' = 1 .. (Len(wire) + 1)
      /\ \A i \in DOMAIN wire : wire'[i] = wire[i]
      /\ wire'[Len(wire) + 1] = p
      /\ DOMAIN wire = 1 .. Len(wire) /\ Len(wire) \in Nat
  BY AppendedPairs DEF TypeOK, MqttTypeOK
<1>2. \A i \in DOMAIN wire' : (i \in DOMAIN wire /\ wire'[i] = wire[i]) \/ wire'[i] = p
  BY <1>1
<1>3. \A i \in DOMAIN wire : i \in DOMAIN wire' /\ wire'[i] = wire[i]
  BY <1>1
<1> QED
  BY <1>2, <1>3 DEF Settled

LEMMA SettledMirror ==
    ASSUME TypeOK, NEW t \in Mirrored, NEW b \in Nat \ {0}, Mirror(t, b), net = "up",
           retained' = retained, CalmInv
    PROVE  /\ \A u \in Mirrored : Settled(u)'
           /\ \A u \in Topic \ Mirrored : last'[u] = NoBody
<1>1. CASE Same(t, last[t], b)
  BY <1>1 DEF Mirror, CalmInv, Settled
<1>2. CASE ~Same(t, last[t], b)
  <2> DEFINE p == [topic |-> t, body |-> b, qos |-> 0]
  <2>1. p \in Packet /\ wire' = Append(wire, p) /\ last' = [last EXCEPT ![t] = b]
    BY <1>2, MirroredTopics DEF Mirror, Publish0, Packet, Body
  <2>2. t \in Topic /\ last \in [Topic -> Body]
    BY MirroredTopics DEF TypeOK
  <2>3. \A u \in Topic \ Mirrored : last'[u] = NoBody
    BY <2>1, <2>2 DEF CalmInv
  <2>4. \A u \in Mirrored : u # t => Settled(u)'
    <3> SUFFICES ASSUME NEW u \in Mirrored, u # t PROVE Settled(u)'
      OBVIOUS
    <3>1. last'[u] = last[u]
      BY <2>1, <2>2
    <3> QED
      BY <2>1, <3>1, SettledBehind DEF CalmInv
  <2>5. Settled(t)'
    <3>1. /\ DOMAIN wire' = 1 .. (Len(wire) + 1)
          /\ wire'[Len(wire) + 1] = p /\ Len(wire) \in Nat
      BY <2>1, AppendedPairs DEF TypeOK, MqttTypeOK
    <3>2. Len(wire) + 1 \in DOMAIN wire' /\ \A j \in DOMAIN wire' : ~(j > Len(wire) + 1)
      BY <3>1
    <3>3. last'[t] = b
      BY <2>1, <2>2
    <3> QED
      BY <3>1, <3>2, <3>3 DEF Settled
  <2> QED
    BY <2>3, <2>4, <2>5
<1> QED
  BY <1>1, <1>2

LEMMA SettledDeliver ==
    ASSUME TypeOK, Deliver, NEW t \in Mirrored, last' = last, Settled(t)
    PROVE  Settled(t)'
<1>1. /\ wire \in Seq(Packet) /\ wire # <<>> /\ Head(wire) = wire[1] /\ 1 \in DOMAIN wire
      /\ wire' = Tail(wire)
  BY DEF TypeOK, MqttTypeOK, Deliver
<1>2. /\ DOMAIN wire' = 1 .. (Len(wire) - 1)
      /\ DOMAIN wire = 1 .. Len(wire) /\ Len(wire) \in Nat
      /\ \A i \in DOMAIN wire' : wire'[i] = wire[i + 1] /\ i + 1 \in DOMAIN wire
  BY <1>1
<1>3. retained'[t] = IF t = wire[1].topic THEN wire[1].body ELSE retained[t]
  BY <1>1, DeliverEffect, MirroredTopics
<1>4. ASSUME NEW i \in DOMAIN wire, wire[i].topic = t, wire[i].body = last[t],
             \A j \in DOMAIN wire : j > i => wire[j].topic # t
      PROVE  Settled(t)'
  <2>1. CASE i = 1
    <3>1. \A j \in DOMAIN wire' : wire'[j].topic # t
      BY <1>2, <1>4, <2>1
    <3> QED
      BY <1>3, <1>4, <2>1, <3>1 DEF Settled
  <2>2. CASE i # 1
    <3>1. i - 1 \in DOMAIN wire' /\ wire'[i - 1] = wire[i]
      BY <1>2, <1>4, <2>2
    <3>2. \A j \in DOMAIN wire' : j > i - 1 => wire'[j].topic # t
      BY <1>2, <1>4
    <3> QED
      BY <1>4, <3>1, <3>2 DEF Settled
  <2> QED
    BY <2>1, <2>2
<1>5. CASE retained[t] = last[t] /\ \A i \in DOMAIN wire : wire[i].topic # t
  <2>1. retained'[t] = last[t] /\ \A i \in DOMAIN wire' : wire'[i].topic # t
    BY <1>1, <1>2, <1>3, <1>5
  <2> QED
    BY <2>1 DEF Settled
<1> QED
  BY <1>4, <1>5 DEF Settled

(* A step that neither ends the process nor touches its connection.          *)
LEMMA CalmAside ==
    ASSUME TypeOK, CalmInv, UNCHANGED <<net, connected, last, retained>>, Absent' => Absent,
           Absent => Absent' \/ net = "up", netpc' # "idle" => netpc # "idle",
           wire' = wire \/ \E p \in Packet : p.topic \notin Mirrored /\ wire' = Append(wire, p)
    PROVE  CalmInv'
<1>1. \A t \in Mirrored : Settled(t)'
  <2>1. CASE wire' = wire
    BY <2>1 DEF CalmInv, Settled
  <2>2. ASSUME NEW p \in Packet, p.topic \notin Mirrored, wire' = Append(wire, p)
        PROVE  \A t \in Mirrored : Settled(t)'
    BY <2>2, SettledBehind DEF CalmInv
  <2> QED
    BY <2>1, <2>2
<1> QED
  BY <1>1 DEF CalmInv

LEMMA CalmGone ==
    ASSUME TypeOK, Gone("off") \/ Gone("exited")
    PROVE  CalmInv'
<1>1. \A t \in Topic : last'[t] = NoBody
  BY DEF Gone
<1> QED
  BY <1>1, MirroredTopics DEF Gone, CalmInv, Absent, Settled

LEMMA CalmSend ==
    ASSUME NEW t \in Topic \ Mirrored, NEW b \in Body, Publish1(t, b) \/ Send1(t, b)
    PROVE  wire' = wire \/ \E p \in Packet : p.topic \notin Mirrored /\ wire' = Append(wire, p)
<1>1. [topic |-> t, body |-> b, qos |-> 1] \in Packet
  BY DEF Packet
<1> QED
  BY <1>1 DEF Publish1, Send1

(* Nothing of the client changes but what it has to send. *)
CalmQuiet == UNCHANGED <<net, netpc, connected, retained, last>>

LEMMA CalmRaise ==
    ASSUME TypeOK, CalmInv, ~Absent, NEW k, Raise(k)
    PROVE  CalmInv'
<1>1. CASE Gone("off")
  BY <1>1, CalmGone
<1>2. CASE pc' = "loop" /\ UNCHANGED <<mqttVars, last>>
  BY <1>2, CalmAside DEF Absent, mqttVars
<1> QED
  BY <1>1, <1>2 DEF Raise

LEMMA CalmStart ==
    ASSUME Calm, TypeOK, CalmInv, Start
    PROVE  CalmInv'
<1>1. CalmQuiet
  BY DEF Start, WaitEnds, PublishStatus, PublishCache, PublishOnline, Goto, CalmQuiet, mqttVars
<1>2. CASE WaitEnds
  <2>1. net = "up" /\ pc = "wait" /\ ~Absent' /\ wire' = wire
    BY <1>2 DEF WaitEnds, Goto, Calm, CalmInv, Absent, mqttVars
  <2> QED
    BY <1>1, <2>1, CalmAside DEF CalmQuiet
<1>3. CASE PublishStatus \/ PublishCache \/ PublishOnline
  <2>1. \E t \in Topic \ Mirrored, b \in Body : Publish1(t, b)
    BY <1>3, TopicsTyped, MirroredTopics DEF PublishStatus, PublishCache, PublishOnline
  <2>2. ~Absent /\ ~Absent'
    BY <1>3 DEF PublishStatus, PublishCache, PublishOnline, Goto, Absent
  <2>3. wire' = wire \/ \E p \in Packet : p.topic \notin Mirrored /\ wire' = Append(wire, p)
    BY <2>1, CalmSend
  <2> QED
    BY <1>1, <2>2, <2>3, CalmAside DEF CalmQuiet
<1> QED
  BY <1>2, <1>3 DEF Start

LEMMA CalmPublished ==
    ASSUME TypeOK, CalmInv, ~Absent, ~Absent', NEW t \in Mirrored, NEW b \in Nat \ {0},
           Mirror(t, b), UNCHANGED <<net, netpc, connected, retained>>
    PROVE  CalmInv'
<1>1. net = "up"
  BY DEF CalmInv
<1>2. (\A u \in Mirrored : Settled(u)') /\ \A u \in Topic \ Mirrored : last'[u] = NoBody
  BY <1>1, SettledMirror
<1> QED
  BY <1>1, <1>2 DEF CalmInv

LEMMA CalmPoll ==
    ASSUME Calm, TypeOK, TodoTyped, CalmInv, Poll
    PROVE  CalmInv'
<1>0. ~Absent
  BY DEF Poll, Iterate, ReadOk, ReadFails, ReadRaises, NextRecord, PublishConfig, BuildState,
         PublishState, PublishCacheTime, Goto, Absent
<1>1. CASE Iterate \/ ReadOk \/ ReadFails \/ NextRecord
  <2>1. CalmQuiet /\ wire' = wire /\ ~Absent'
    BY <1>1 DEF Iterate, ReadOk, ReadFails, NextRecord, Goto, Returned, CalmQuiet, Absent, mqttVars
  <2> QED
    BY <1>0, <2>1, CalmAside DEF CalmQuiet
<1>2. CASE ReadRaises
  BY <1>0, <1>2, CalmRaise DEF ReadRaises
<1>3. CASE PublishConfig
  <2>1. CalmQuiet /\ ~Absent'
    BY <1>3 DEF PublishConfig, CalmQuiet, Absent
  <2>2. PICK t \in todo : Publish1(t, Config)
    BY <1>3 DEF PublishConfig
  <2>3. t \in Topic \ Mirrored /\ Config \in Body
    BY <1>3, KindsDiffer, MirroredTopics, TopicsTyped DEF PublishConfig, TodoTyped, TypeOK
  <2>4. wire' = wire \/ \E p \in Packet : p.topic \notin Mirrored /\ wire' = Append(wire, p)
    BY <2>2, <2>3, CalmSend
  <2> QED
    BY <1>0, <2>1, <2>4, CalmAside DEF CalmQuiet
<1>4. CASE BuildState
  <2>1. CASE cur \in snap.raising
    BY <1>0, <1>4, <2>1, CalmRaise DEF BuildState
  <2>2. CASE cur \notin snap.raising
    <3>1. CalmQuiet /\ wire' = wire /\ ~Absent'
      BY <1>4, <2>2 DEF BuildState, CalmQuiet, Absent, mqttVars
    <3> QED
      BY <1>0, <3>1, CalmAside DEF CalmQuiet
  <2> QED
    BY <2>1, <2>2
<1>5. CASE PublishState
  <2>1. UNCHANGED <<net, netpc, connected, retained>> /\ pc = "state" /\ ~Absent'
    BY <1>5 DEF PublishState, Absent
  <2>2. PICK t \in todo : Mirror(t, snap.val[t])
    BY <1>5 DEF PublishState
  <2>3. t \in Mirrored /\ snap.val[t] \in Nat \ {0}
    BY <2>1 DEF TodoTyped, TypeOK, Cache, Mirrored
  <2> QED
    BY <1>0, <2>1, <2>2, <2>3, CalmPublished
<1>6. CASE PublishCacheTime
  <2>1. UNCHANGED <<net, netpc, connected, retained>> /\ ~Absent'
    BY <1>6 DEF PublishCacheTime, Returned, Absent
  <2> DEFINE time == cache.val[CacheTime]
  <2>2. CASE time = 0
    <3>1. CalmQuiet /\ wire' = wire
      BY <1>6, <2>1, <2>2 DEF PublishCacheTime, CalmQuiet
    <3> QED
      BY <1>0, <2>1, <3>1, CalmAside DEF CalmQuiet
  <2>3. CASE time # 0
    <3>1. CacheTime \in Mirrored /\ time \in Nat \ {0} /\ Mirror(CacheTime, time)
      BY <1>6, <2>3 DEF PublishCacheTime, Mirrored, TypeOK, Cache
    <3> QED
      BY <1>0, <2>1, <3>1, CalmPublished
  <2> QED
    BY <2>2, <2>3
<1> QED
  BY <1>1, <1>2, <1>3, <1>4, <1>5, <1>6 DEF Poll

LEMMA CalmClear ==
    ASSUME TypeOK, TodoTyped, CalmInv, Clear
    PROVE  CalmInv'
<1>0. ~Absent
  BY DEF Clear, ClearReads, ClearRaises, Wipe, Wiped, Goto, Absent
<1>1. CASE ClearReads \/ Wiped
  <2>1. CalmQuiet /\ wire' = wire /\ ~Absent'
    BY <1>1 DEF ClearReads, Wiped, Goto, CalmQuiet, Absent, mqttVars
  <2> QED
    BY <1>0, <2>1, CalmAside DEF CalmQuiet
<1>2. CASE ClearRaises
  BY <1>0, <1>2, CalmRaise DEF ClearRaises
<1>3. CASE Wipe
  <2>1. CalmQuiet /\ ~Absent'
    BY <1>3 DEF Wipe, CalmQuiet, Absent
  <2>2. PICK t \in todo : Publish1(t, NoBody)
    BY <1>3 DEF Wipe
  <2>3. t \in Topic \ Mirrored /\ NoBody \in Body
    BY <1>3, MirroredTopics, TopicsTyped DEF Wipe, TodoTyped, TypeOK
  <2>4. wire' = wire \/ \E p \in Packet : p.topic \notin Mirrored /\ wire' = Append(wire, p)
    BY <2>2, <2>3, CalmSend
  <2> QED
    BY <1>0, <2>1, <2>4, CalmAside DEF CalmQuiet
<1> QED
  BY <1>1, <1>2, <1>3 DEF Clear

LEMMA CalmStop ==
    ASSUME TypeOK, CalmInv, Stop
    PROVE  CalmInv'
<1>1. CASE PublishOffline
  <2>1. CalmQuiet /\ ~Absent /\ ~Absent'
    BY <1>1 DEF PublishOffline, CalmQuiet, Absent
  <2>2. Avail \in Topic \ Mirrored /\ Offline \in Body
    BY TopicsTyped, MirroredTopics
  <2>3. wire' = wire \/ \E p \in Packet : p.topic \notin Mirrored /\ wire' = Append(wire, p)
    BY <1>1, <2>2, CalmSend DEF PublishOffline
  <2> QED
    BY <2>1, <2>3, CalmAside DEF CalmQuiet
<1>2. CASE StopWaiting
  <2>1. CalmQuiet /\ wire' = wire /\ ~Absent /\ ~Absent'
    BY <1>2 DEF StopWaiting, Goto, CalmQuiet, Absent, mqttVars
  <2> QED
    BY <2>1, CalmAside DEF CalmQuiet
<1>3. CASE Exit
  BY <1>3, CalmGone DEF Exit
<1> QED
  BY <1>1, <1>2, <1>3 DEF Stop

LEMMA CalmThread ==
    ASSUME TypeOK, OrderInv, CalmInv, NetworkThread
    PROVE  CalmInv'
<1>0. last' = last /\ (Absent' <=> Absent)
  BY DEF NetworkThread, mainVars, Absent
<1>1. CASE TcpConnect
  <2>1. Absent /\ net' = "up" /\ \A t \in Topic : last'[t] = NoBody
    BY <1>0, <1>1 DEF TcpConnect, CalmInv
  <2> QED
    BY <1>0, <2>1, MirroredTopics DEF CalmInv, Settled
<1>2. CASE OnConnect
  BY <1>0, <1>2 DEF OnConnect, CalmInv, Settled
<1>3. CASE Announce
  <2>1. Avail \in Topic \ Mirrored /\ Online \in Body
    BY TopicsTyped, MirroredTopics
  <2>2. wire' = wire \/ \E p \in Packet : p.topic \notin Mirrored /\ wire' = Append(wire, p)
    BY <1>3, <2>1, CalmSend DEF Announce
  <2> QED
    BY <1>0, <1>3, <2>2, CalmAside DEF Announce
<1>4. CASE Resend
  <2>1. CASE UNCHANGED wire
    BY <1>0, <1>4, <2>1, CalmAside DEF Resend
  <2>2. ASSUME NEW i \in Queued,
               wire' = Append(wire, [topic |-> out[i].topic, body |-> out[i].body, qos |-> 1])
        PROVE  CalmInv'
    <3>1. i \in DOMAIN out /\ out[i] \in Pending
      BY DEF Queued, TypeOK, MqttTypeOK
    <3>2. [topic |-> out[i].topic, body |-> out[i].body, qos |-> 1] \in Packet
      BY <3>1 DEF Pending, Packet
    <3>3. out[i].topic \notin Mirrored
      <4>1. <<out[i].topic, out[i].body>> \in Waiting
        BY <3>1 DEF Waiting
      <4> QED
        BY <4>1 DEF OrderInv, NoneQueued
    <3> QED
      BY <1>0, <1>4, <2>2, <3>2, <3>3, CalmAside DEF Resend
  <2> QED
    BY <1>4, <2>1, <2>2 DEF Resend
<1>5. ~OnDisconnect
  BY DEF OnDisconnect, CalmInv
<1> QED
  BY <1>1, <1>2, <1>3, <1>4, <1>5 DEF NetworkThread

LEMMA CalmNetwork ==
    ASSUME Calm, TypeOK, OnlineInv, CalmInv, Network
    PROVE  CalmInv'
<1>0. last' = last /\ (Absent' <=> Absent)
  BY DEF Network, mainVars, Absent
<1>1. ~(drops < Env.drops /\ Break)
  BY DEF Calm, TypeOK, MqttTypeOK
<1>2. CASE Deliver
  <2>1. \A t \in Mirrored : Settled(t)'
    BY <1>0, <1>2, SettledDeliver DEF CalmInv
  <2> QED
    BY <1>0, <1>2, <2>1 DEF Deliver, CalmInv
<1>3. CASE TakeBye \/ FireWill
  <2>1. net = "down"
    <3>1. CASE TakeBye
      <4>1. wire[1] = Bye /\ 1 \in DOMAIN wire
        BY <3>1 DEF TakeBye, TypeOK, MqttTypeOK
      <4>2. <<Avail, NoBody>> \in OnWire
        BY <4>1 DEF OnWire, Bye
      <4> QED
        BY <4>2 DEF OnlineInv, NoDisconnect
    <3>2. CASE FireWill
      BY <3>2 DEF FireWill, CalmInv, TypeOK, MqttTypeOK
    <3> QED
      BY <1>3, <3>1, <3>2
  <2>2. \A t \in Topic : last'[t] = NoBody
    BY <1>0, <2>1 DEF CalmInv
  <2>3. UNCHANGED <<net, netpc, connected>>
    BY <1>3 DEF TakeBye, FireWill
  <2>4. \A t \in Mirrored : Settled(t)'
    BY <2>2, MirroredTopics DEF Settled
  <2>5. Absent' /\ \A t \in Topic \ Mirrored : last'[t] = NoBody
    BY <1>0, <2>1, <2>2 DEF CalmInv
  <2> QED
    BY <2>1, <2>2, <2>3, <2>4, <2>5 DEF CalmInv
<1> QED
  BY <1>1, <1>2, <1>3 DEF Network

LEMMA CalmStep ==
    ASSUME Calm, TypeOK, TodoTyped, OnlineInv, OrderInv, CalmInv, [Next]_vars
    PROVE  CalmInv'
<1>1. CASE FindMyWrites \/ Launch \/ UNCHANGED vars
  <2>1. CalmQuiet /\ wire' = wire /\ (Absent' <=> Absent)
    BY <1>1 DEF FindMyWrites, Launch, vars, mqttVars, mainVars, CalmQuiet, Absent
  <2> QED
    BY <2>1, CalmAside DEF CalmQuiet
<1>2. ~Crash /\ ~Signal
  BY DEF Crash, Signal, Calm
<1>3. CASE MainThread
  BY <1>3, CalmStart, CalmPoll, CalmClear, CalmStop DEF MainThread
<1> QED
  BY <1>1, <1>2, <1>3, CalmThread, CalmNetwork DEF Next

LEMMA CalmInit == Init => CalmInv
<1> SUFFICES ASSUME Init PROVE CalmInv
  OBVIOUS
<1>1. \A t \in Topic : last[t] = NoBody
  BY DEF Init
<1> QED
  BY <1>1, MirroredTopics DEF Init, MqttInit, CalmInv, Absent, Settled

(* Between polls, when all is delivered, the broker retains what _last says  *)
(* was published (runtime.py:106-109, 223-226), where no connection is lost: *)
(* the dedup never holds back a value that the broker does not have.         *)
THEOREM LastIsRetainedHolds == Spec => []LastIsRetained
<1> DEFINE Inv == Calm => CalmInv
<1>1. Init => TypeOK /\ TodoTyped /\ OnlineInv /\ OrderInv /\ Inv
  BY TypeInit, OnlineInit, OrderInit, CalmInit DEF Init, TodoTyped
<1>2. TypeOK /\ TodoTyped /\ OnlineInv /\ OrderInv /\ Inv /\ [Next]_vars
          => TypeOK' /\ TodoTyped' /\ OnlineInv' /\ OrderInv' /\ Inv'
  <2>1. ASSUME TypeOK, TodoTyped, OnlineInv, OrderInv, Inv, [Next]_vars, Calm' PROVE CalmInv'
    <3>1. Calm
      BY <2>1, EnvFixed DEF Calm, Env
    <3> QED
      BY <2>1, <3>1, CalmStep
  <2> QED
    BY <2>1, TypeStep, OnlineStep, OrderStep
<1>3. Inv => LastIsRetained
  BY DEF CalmInv, Settled, LastIsRetained
<1> QED
  BY <1>1, <1>2, <1>3, PTL DEF Spec
=============================================================================
