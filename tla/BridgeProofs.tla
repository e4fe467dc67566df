---------------------------- MODULE BridgeProofs ----------------------------
(* Proofs about Bridge, for every set of records and entities and every      *)
(* bound.                                                                    *)
EXTENDS Bridge, TLAPS

(* What todo holds at each step that uses it: TypeOK needs it to be inductive, *)
(* since what is published is read from snap at the topics of todo.          *)
TodoTyped ==
    /\ pc = "config" => cur \in Rec /\ todo \subseteq ConfigsOf(cur)
    /\ pc = "state" => \A t \in todo : t \in StateTopics /\ snap.val[t] # 0
    /\ pc = "wipe" => \A t \in todo : t.kind \in {"config", "legacy", "status config"}

USE NamesAreDistinct, MqttConstants, BridgeConstants

-----------------------------------------------------------------------------
(* Facts about topics and packets. *)

LEMMA TopicsTyped ==
    /\ \A r \in Rec, e \in Entity : ConfigTopic(r, e) \in Topic /\ StateTopic(r, e) \in Topic
    /\ StateTopics \subseteq Topic /\ Mirrored \subseteq Topic
    /\ StateTopics \subseteq Mirrored /\ CacheTime \in Mirrored
    /\ \A r \in Rec : ConfigsOf(r) \subseteq Topic /\ WipedFor(r) \subseteq Topic
    /\ {Avail, StatusConfig, CacheConfig, CacheTime} \subseteq Topic
    /\ {Online, Offline, Config, NoBody} \subseteq Body
  BY DEF Topic, StateTopics, Mirrored, ConfigsOf, WipedFor, Body

LEMMA KindsDiffer ==
    /\ \A t \in StateTopics : t.kind = "state"
    /\ \A r \in Rec : \A t \in ConfigsOf(r) : t.kind = "config"
    /\ Avail.kind = "availability" /\ StatusConfig.kind = "status config"
    /\ CacheConfig.kind = "cache config" /\ CacheTime.kind = "cache time"
    /\ \A r \in Rec : \A t \in WipedFor(r) : t.kind \in {"config", "legacy"}
  BY DEF StateTopics, StateTopic, ConfigsOf, ConfigTopic, WipedFor, LegacyTopic, HubTopic,
         Avail, StatusConfig, CacheConfig, CacheTime

(* What an acknowledgement leaves of out.                                    *)
LEMMA AckedTyped ==
    ASSUME NEW m, out \in Seq(Pending), Acked(m)
    PROVE  out' \in Seq(Pending)
<1>1. ASSUME NEW k \in DOMAIN out, out' = Without(k)
      PROVE  out' \in Seq(Pending)
  <2> DEFINE s == [i \in 1 .. (Len(out) - 1) |-> IF i < k THEN out[i] ELSE out[i + 1]]
  <2>1. out' = s
    BY <1>1 DEF Without
  <2>2. \A i \in 1 .. (Len(out) - 1) : out[i] \in Pending /\ out[i + 1] \in Pending
    OBVIOUS
  <2>3. Len(out) - 1 \in Nat
    OBVIOUS
  <2>4. s \in Seq(Pending)
    BY <2>2, <2>3
  <2> QED
    BY <2>1, <2>4
<1> QED
  BY <1>1 DEF Acked

(* Whatever is published, out and wire keep their types.                     *)
LEMMA PublishTyped ==
    ASSUME TypeOK, NEW t \in Topic, NEW b \in Body,
           Publish0(t, b) \/ Publish1(t, b) \/ Send1(t, b)
    PROVE  wire' \in Seq(Packet) /\ out' \in Seq(Pending)
<1>1. [topic |-> t, body |-> b, qos |-> 0] \in Packet /\ [topic |-> t, body |-> b, qos |-> 1] \in Packet
  BY DEF Packet
<1>2. [topic |-> t, body |-> b, sent |-> net # "down"] \in Pending
  BY DEF Pending, TypeOK, MqttTypeOK
<1>3. out \in Seq(Pending) /\ wire \in Seq(Packet)
  BY DEF TypeOK, MqttTypeOK
<1>4. CASE Publish0(t, b)
  BY <1>1, <1>3, <1>4 DEF Publish0
<1>5. CASE Publish1(t, b) \/ Send1(t, b)
  <2>1. wire' = wire \/ wire' = Append(wire, [topic |-> t, body |-> b, qos |-> 1])
    BY <1>5 DEF Publish1, Send1
  <2>2. out' = Append(out, [topic |-> t, body |-> b, sent |-> net # "down"])
    BY <1>5 DEF Publish1, Send1
  <2>3. wire' \in Seq(Packet)
    BY <1>1, <1>3, <2>1
  <2>4. out' \in Seq(Pending)
    BY <1>2, <1>3, <2>2
  <2> QED
    BY <2>3, <2>4
<1> QED
  BY <1>4, <1>5

LEMMA MirrorTyped ==
    ASSUME TypeOK, NEW t \in Topic, NEW b \in Body, Mirror(t, b)
    PROVE  wire' \in Seq(Packet) /\ out' \in Seq(Pending) /\ last' \in [Topic -> Body]
<1>1. CASE Same(t, last[t], b)
  BY <1>1 DEF Mirror, TypeOK, MqttTypeOK
<1>2. CASE ~Same(t, last[t], b)
  BY <1>2, PublishTyped DEF Mirror, TypeOK
<1> QED
  BY <1>1, <1>2

LEMMA GoneTyped ==
    ASSUME TypeOK, Gone("off") \/ Gone("exited"), wire' \in Seq(Packet)
    PROVE  TypeOK'
<1>1. [t \in Topic |-> NoBody] \in [Topic -> Body]
  BY TopicsTyped
<1>2. <<>> \in Seq(Pending)
  OBVIOUS
<1> QED
  BY <1>1, <1>2 DEF Gone, world, TypeOK, MqttTypeOK, Steps

LEMMA RaiseTyped ==
    ASSUME TypeOK, NEW k \in SUBSET Rec, Raise(k)
    PROVE  TypeOK'
<1>1. CASE Gone("off") /\ UNCHANGED wire
  BY <1>1, GoneTyped DEF world, TypeOK, MqttTypeOK
<1>2. CASE pc' = "loop" /\ known' = k /\ UNCHANGED <<mqttVars, world, mode, stop, last,
             snap, batch, cur, todo, launches>>
  BY <1>2 DEF mqttVars, world, TypeOK, MqttTypeOK, Steps
<1> QED
  BY <1>1, <1>2 DEF Raise

(* The environment is one of those declared. *)
LEMMA EnvTyped ==
    ASSUME env \in DOMAIN Envs
    PROVE  /\ Env.modes \subseteq {"run", "once", "clear"}
           /\ Env.writes \subseteq Write
<1>1. Env \in Environment
  BY EnvironmentsTyped DEF Env
<1>2. Env.writes \subseteq Write /\ Env.modes \subseteq {"run", "once", "clear"}
  BY <1>1 DEF Environment
<1> QED
  BY <1>2

(* What a write does to the cache. *)
LEMMA WriteEffect ==
    ASSUME TypeOK, FindMyWrites
    PROVE  /\ stamp' = stamp + 1 /\ stamp' \in Nat
           /\ cache' \in Cache
           /\ \A t \in Mirrored : cache'.val[t] \in {stamp + 1, 0, cache.val[t]}
           /\ empty' \subseteq StateTopics \X Nat
           /\ empty \subseteq empty'
           /\ \A b \in empty' \ empty :
                 b \in StateTopics \X {stamp + 1} /\ cache'.val[b[1]] = stamp + 1
<1>1. PICK w \in Env.writes :
        /\ cache' = [listed |-> w.listed, raising |-> w.raising, ahead |-> w.ahead,
                     val |-> [t \in Mirrored |->
                                IF t \in w.fresh \cup w.blank THEN stamp + 1
                                ELSE IF t \in w.gone THEN 0 ELSE cache.val[t]]]
        /\ empty' = empty \cup {<<t, stamp + 1>> : t \in w.blank}
  BY DEF FindMyWrites
<1>2. w \in Write
  BY EnvTyped DEF TypeOK
<1>3. /\ w.listed \in SUBSET Rec /\ w.raising \in SUBSET Rec /\ w.ahead \in SUBSET Rec
      /\ w.blank \in SUBSET StateTopics
  BY <1>2 DEF Write
<1>4. stamp' = stamp + 1 /\ stamp + 1 \in Nat /\ empty \subseteq StateTopics \X Nat
  BY DEF FindMyWrites, world, TypeOK
<1>5. \A t \in Mirrored : cache.val[t] \in Nat
  BY DEF TypeOK, Cache
<1>6. cache' \in Cache
  BY <1>1, <1>3, <1>4, <1>5 DEF Cache
<1>7. \A t \in Mirrored : cache'.val[t] \in {stamp + 1, 0, cache.val[t]}
  BY <1>1
<1>8. \A t \in w.blank : cache'.val[t] = stamp + 1
  BY <1>1, <1>3, TopicsTyped
<1>9. \A b \in empty' \ empty :
         b \in StateTopics \X {stamp + 1} /\ cache'.val[b[1]] = stamp + 1
  BY <1>1, <1>3, <1>8
<1> QED
  BY <1>1, <1>3, <1>4, <1>6, <1>7, <1>9

LEMMA TypeInit == Init => TypeOK
<1> SUFFICES ASSUME Init PROVE TypeOK
  OBVIOUS
<1>1. NoCache \in Cache
  BY DEF NoCache, Cache
<1>2. MqttTypeOK
  <2>1. Legacy \in Body /\ NoBody \in Body
    BY DEF Body
  <2>2. retained \in [Topic -> Body]
    BY <2>1 DEF Init, MqttInit
  <2>3. out \in Seq(Pending) /\ wire \in Seq(Packet)
    BY DEF Init, MqttInit
  <2>4. connected \in BOOLEAN /\ session \in BOOLEAN /\ drops \in Nat
    BY DEF Init, MqttInit
  <2> QED
    BY <2>2, <2>3, <2>4 DEF Init, MqttInit, MqttTypeOK
<1>3. [t \in Topic |-> NoBody] \in [Topic -> Body]
  BY TopicsTyped
<1>4. mode \in {"run", "once", "clear"}
  BY EnvTyped DEF Init
<1> QED
  BY <1>1, <1>2, <1>3, <1>4 DEF Init, TypeOK, Steps

(* A step of the client or the network.                                      *)
LEMMA TypeMqtt ==
    ASSUME TypeOK, UNCHANGED <<world, mainVars>>,
           \/ TcpConnect \/ OnConnect \/ Announce \/ Resend \/ OnDisconnect
           \/ Break \/ Deliver \/ TakeBye \/ FireWill
    PROVE  TypeOK'
<1> SUFFICES MqttTypeOK'
  BY DEF world, TypeOK, mainVars
<1> USE DEF world, TypeOK, MqttTypeOK
<1>1. CASE TcpConnect
  BY <1>1, TopicsTyped DEF TcpConnect
<1>2. CASE OnConnect
  BY <1>2 DEF OnConnect
<1>3. CASE Announce
  BY <1>3, PublishTyped, TopicsTyped DEF Announce
<1>4. CASE Resend
  <2>1. CASE Queued = {} /\ netpc' = "idle" /\ UNCHANGED <<wire, out>>
    BY <1>4, <2>1 DEF Resend
  <2>2. ASSUME NEW i \in Queued,
               wire' = Append(wire, [topic |-> out[i].topic, body |-> out[i].body, qos |-> 1]),
               out' = [out EXCEPT ![i].sent = TRUE], UNCHANGED netpc
        PROVE  MqttTypeOK'
    <3>1. i \in 1 .. Len(out) /\ out[i] \in Pending
      BY DEF Queued
    <3>2. [topic |-> out[i].topic, body |-> out[i].body, qos |-> 1] \in Packet
      BY <3>1 DEF Pending, Packet
    <3>3. [out[i] EXCEPT !.sent = TRUE] \in Pending
      BY <3>1 DEF Pending
    <3>4. out' \in Seq(Pending)
      BY <2>2, <3>1, <3>3
    <3> QED
      BY <1>4, <2>2, <3>2, <3>4 DEF Resend
  <2> QED
    BY <1>4, <2>1, <2>2 DEF Resend
<1>5. CASE OnDisconnect
  <2>1. \A i \in DOMAIN out : [out[i] EXCEPT !.sent = FALSE] \in Pending
    <3>1. \A i \in DOMAIN out : out[i] \in Pending
      OBVIOUS
    <3>2. \A m \in Pending : [m EXCEPT !.sent = FALSE] \in Pending
      BY DEF Pending
    <3> QED
      BY <3>1, <3>2
  <2>2. out' \in Seq(Pending)
    BY <1>5, <2>1 DEF OnDisconnect
  <2> QED
    BY <1>5, <2>2 DEF OnDisconnect
<1>6. CASE Break
  BY <1>6 DEF Break
<1>7. CASE Deliver
  <2>1. Head(wire) \in Packet /\ Head(wire) # Bye /\ Tail(wire) \in Seq(Packet)
    BY <1>7 DEF Deliver
  <2>2. Head(wire).topic \in Topic /\ Head(wire).body \in Body
    BY <2>1 DEF Packet
  <2>3. out' \in Seq(Pending)
    BY <1>7, AckedTyped DEF Deliver
  <2> QED
    BY <1>7, <2>1, <2>2, <2>3 DEF Deliver
<1>8. CASE TakeBye
  <2>1. wire' \in Seq(Packet)
    BY <1>8 DEF TakeBye
  <2> QED
    BY <1>8, <2>1 DEF TakeBye
<1>9. CASE FireWill
  <2>1. wire' \in Seq(Packet)
    BY <1>9 DEF FireWill
  <2>2. retained' \in [Topic -> Body]
    BY <1>9, TopicsTyped DEF FireWill
  <2> QED
    BY <1>9, <2>1, <2>2 DEF FireWill
<1> QED
  BY <1>1, <1>2, <1>3, <1>4, <1>5, <1>6, <1>7, <1>8, <1>9

LEMMA TypeStart ==
    ASSUME TypeOK, Start
    PROVE  TypeOK'
<1> USE DEF world, TypeOK, MqttTypeOK, Goto, Steps
<1>1. CASE WaitEnds
  BY <1>1 DEF WaitEnds, mqttVars
<1>2. CASE PublishStatus /\ UNCHANGED <<net, netpc, connected, session, retained, drops>>
  BY <1>2, PublishTyped, TopicsTyped DEF PublishStatus
<1>3. CASE PublishCache /\ UNCHANGED <<net, netpc, connected, session, retained, drops>>
  BY <1>3, PublishTyped, TopicsTyped DEF PublishCache
<1>4. CASE PublishOnline /\ UNCHANGED <<net, netpc, connected, session, retained, drops>>
  BY <1>4, PublishTyped, TopicsTyped DEF PublishOnline
<1> QED
  BY <1>1, <1>2, <1>3, <1>4 DEF Start

LEMMA TypeEnvironment ==
    ASSUME TypeOK, FindMyWrites \/ Launch \/ Crash \/ Signal
    PROVE  TypeOK'
<1>1. CASE FindMyWrites
  <2>1. stamp' \in Nat /\ cache' \in Cache /\ empty' \subseteq StateTopics \X Nat
    BY <1>1, WriteEffect
  <2> QED
    BY <1>1, <2>1 DEF FindMyWrites, TypeOK, MqttTypeOK, mqttVars, mainVars
<1>2. CASE Launch
  <2>1. NoCache \in Cache
    BY DEF NoCache, Cache
  <2>2. launches' \in Nat /\ mode' \in {"run", "once", "clear"}
    BY <1>2, EnvTyped DEF Launch, TypeOK
  <2> QED
    BY <1>2, <2>1, <2>2 DEF Launch, world, TypeOK, MqttTypeOK, mqttVars, Steps
<1>3. CASE Crash
  BY <1>3, GoneTyped DEF Crash, world, TypeOK, MqttTypeOK
<1>4. CASE Signal
  BY <1>4 DEF Signal, world, TypeOK, MqttTypeOK, mqttVars
<1> QED
  BY <1>1, <1>2, <1>3, <1>4

LEMMA TypePoll ==
    ASSUME TypeOK, TodoTyped, Poll
    PROVE  TypeOK'
<1>1. CASE Iterate
  BY <1>1 DEF Iterate, Goto, world, TypeOK, MqttTypeOK, mqttVars, Steps
<1>2. CASE ReadOk
  BY <1>2 DEF ReadOk, Visible, Cache, world, TypeOK, MqttTypeOK, mqttVars, Steps
<1>3. CASE ReadFails
  BY <1>3 DEF ReadFails, Returned, Goto, world, TypeOK, MqttTypeOK, mqttVars, Steps
<1>4. CASE ReadRaises
  BY <1>4, RaiseTyped DEF ReadRaises, world, TypeOK
<1>5. CASE NextRecord
  <2>1. PICK r \in batch : /\ batch' = batch \ {r} /\ cur' = r
                           /\ todo' = IF r \in known THEN {} ELSE ConfigsOf(r)
    BY <1>5 DEF NextRecord, Upcoming
  <2>2. todo' \subseteq Topic
    BY <2>1, TopicsTyped DEF world, TypeOK
  <2> QED
    BY <1>5, <2>1, <2>2 DEF NextRecord, world, TypeOK, MqttTypeOK, mqttVars, Steps
<1>6. CASE PublishConfig
  <2>1. PICK t \in todo : todo' = todo \ {t} /\ Publish1(t, Config)
    BY <1>6 DEF PublishConfig
  <2>2. wire' \in Seq(Packet) /\ out' \in Seq(Pending)
    BY <2>1, PublishTyped, TopicsTyped DEF world, TypeOK
  <2> QED
    BY <1>6, <2>1, <2>2 DEF PublishConfig, world, TypeOK, MqttTypeOK
<1>7. CASE BuildState
  <2>1. cur \in Rec /\ snap \in Cache
    BY <1>7 DEF BuildState, world, TypeOK, TodoTyped
  <2>2. CASE cur \in snap.raising
    <3>1. known \cup {cur} \in SUBSET Rec
      BY <2>1, <2>2 DEF TypeOK, Cache
    <3> QED
      BY <1>7, <2>2, <3>1, RaiseTyped DEF BuildState
  <2>3. CASE cur \notin snap.raising
    <3>1. StatesOf(cur, snap.val) \subseteq Topic
      BY TopicsTyped DEF StatesOf
    <3>2. pc' \in Steps
      BY <1>7, <2>3 DEF BuildState, Steps
    <3>3. known' \subseteq Rec
      BY <1>7, <2>3 DEF BuildState, world, TypeOK, TodoTyped
    <3> QED
      BY <1>7, <2>3, <3>1, <3>2, <3>3 DEF BuildState, world, TypeOK, MqttTypeOK, mqttVars
  <2> QED
    BY <2>2, <2>3
<1>8. CASE PublishState
  <2>1. PICK t \in todo : todo' = todo \ {t} /\ Mirror(t, snap.val[t])
    BY <1>8 DEF PublishState
  <2>2. t \in Topic /\ snap.val[t] \in Body
    BY <1>8, <2>1, TopicsTyped DEF PublishState, TodoTyped, world, TypeOK, Cache, Body
  <2>3. wire' \in Seq(Packet) /\ out' \in Seq(Pending) /\ last' \in [Topic -> Body]
    BY <2>1, <2>2, MirrorTyped
  <2> QED
    BY <1>8, <2>1, <2>3 DEF PublishState, world, TypeOK, MqttTypeOK
<1>9. CASE PublishCacheTime
  <2> DEFINE time == cache.val[CacheTime]
  <2>1. CASE time = 0
    BY <1>9, <2>1 DEF PublishCacheTime, Returned, world, TypeOK, MqttTypeOK, Steps
  <2>2. CASE time # 0
    <3>1. time \in Body
      BY <2>2, TopicsTyped DEF TypeOK, Cache, Body
    <3>2. wire' \in Seq(Packet) /\ out' \in Seq(Pending) /\ last' \in [Topic -> Body]
      BY <1>9, <2>2, <3>1, MirrorTyped, TopicsTyped DEF PublishCacheTime
    <3> QED
      BY <1>9, <3>2 DEF PublishCacheTime, Returned, world, TypeOK, MqttTypeOK, Steps
  <2> QED
    BY <2>1, <2>2
<1> QED
  BY <1>1, <1>2, <1>3, <1>4, <1>5, <1>6, <1>7, <1>8, <1>9 DEF Poll

LEMMA TypeClear ==
    ASSUME TypeOK, TodoTyped, Clear
    PROVE  TypeOK'
<1>1. CASE ClearReads
  <2>1. snap' \in Cache
    BY <1>1 DEF ClearReads, NoCache, Cache, world, TypeOK
  <2>3. todo' \subseteq Topic
    BY <1>1, TopicsTyped DEF ClearReads
  <2> QED
    BY <1>1, <2>1, <2>3 DEF ClearReads, world, TypeOK, MqttTypeOK, mqttVars, Steps
<1>2. CASE ClearRaises
  BY <1>2, RaiseTyped DEF ClearRaises, world, TypeOK
<1>3. CASE Wipe
  <2>1. PICK t \in todo : todo' = todo \ {t} /\ Publish1(t, NoBody)
    BY <1>3 DEF Wipe
  <2>2. wire' \in Seq(Packet) /\ out' \in Seq(Pending)
    BY <2>1, PublishTyped, TopicsTyped DEF world, TypeOK
  <2> QED
    BY <1>3, <2>1, <2>2 DEF Wipe, world, TypeOK, MqttTypeOK
<1>4. CASE Wiped
  BY <1>4 DEF Wiped, Goto, world, TypeOK, MqttTypeOK, mqttVars, Steps
<1> QED
  BY <1>1, <1>2, <1>3, <1>4 DEF Clear

LEMMA TypeStop ==
    ASSUME TypeOK, Stop
    PROVE  TypeOK'
<1>1. CASE PublishOffline
  <2>1. wire' \in Seq(Packet) /\ out' \in Seq(Pending)
    BY <1>1, PublishTyped, TopicsTyped DEF PublishOffline
  <2>2. pc' \in Steps
    BY <1>1 DEF PublishOffline, Steps
  <2> QED
    BY <1>1, <2>1, <2>2 DEF PublishOffline, world, TypeOK, MqttTypeOK
<1>2. CASE StopWaiting
  BY <1>2 DEF StopWaiting, Goto, world, TypeOK, MqttTypeOK, mqttVars, Steps
<1>3. CASE Exit
  <2>1. wire' \in Seq(Packet)
    BY <1>3 DEF Exit, Packet, world, TypeOK, MqttTypeOK
  <2> QED
    BY <1>3, <2>1, GoneTyped DEF Exit
<1> QED
  BY <1>1, <1>2, <1>3 DEF Stop

(* What todo holds follows pc.                                               *)
LEMMA TodoStep ==
    ASSUME TypeOK, TodoTyped, Next
    PROVE  TodoTyped'
<1> USE DEF TodoTyped
<1>1. CASE FindMyWrites \/ Signal \/ NetworkThread \/ Network
  BY <1>1 DEF FindMyWrites, Signal, NetworkThread, Network, mainVars
<1>2. CASE Launch \/ Crash \/ Start \/ Stop
  BY <1>2 DEF Launch, Crash, Gone, Start, WaitEnds, PublishStatus, PublishCache, PublishOnline,
              Goto, Stop, PublishOffline, StopWaiting, Exit
<1>3. CASE Poll
  <2>1. CASE Iterate \/ ReadFails \/ PublishCacheTime
    BY <2>1 DEF Iterate, ReadFails, PublishCacheTime, Returned, Goto
  <2>2. CASE ReadOk
    BY <2>2 DEF ReadOk
  <2>3. CASE ReadRaises
    BY <2>3 DEF ReadRaises, Raise, Gone
  <2>4. CASE NextRecord
    BY <2>4 DEF NextRecord, Upcoming, world, TypeOK
  <2>5. CASE PublishConfig
    BY <2>5 DEF PublishConfig
  <2>6. CASE BuildState
    BY <2>6 DEF BuildState, Raise, Gone, StatesOf
  <2>7. CASE PublishState
    BY <2>7 DEF PublishState
  <2> QED
    BY <1>3, <2>1, <2>2, <2>3, <2>4, <2>5, <2>6, <2>7 DEF Poll
<1>4. CASE Clear
  <2>1. CASE ClearReads
    <3>1. Visible(snap') \subseteq Rec
      BY <2>1 DEF ClearReads, NoCache, Visible, Cache, world, TypeOK
    <3>2. /\ pc' = "wipe"
          /\ todo' = {StatusConfig} \cup {t \in Topic : \E r \in Visible(snap') : t \in WipedFor(r)}
      BY <2>1 DEF ClearReads
    <3>3. \A r \in Visible(snap') : \A t \in WipedFor(r) : t.kind \in {"config", "legacy"}
      BY <3>1, KindsDiffer
    <3> QED
      BY <3>2, <3>3, KindsDiffer
  <2>2. CASE ClearRaises
    BY <2>2 DEF ClearRaises, Raise, Gone
  <2>3. CASE Wipe
    BY <2>3 DEF Wipe
  <2>4. CASE Wiped
    BY <2>4 DEF Wiped, Goto
  <2> QED
    BY <1>4, <2>1, <2>2, <2>3, <2>4 DEF Clear
<1> QED
  BY <1>1, <1>2, <1>3, <1>4 DEF Next, MainThread

LEMMA TypeStep ==
    ASSUME TypeOK, TodoTyped, [Next]_vars
    PROVE  TypeOK' /\ TodoTyped'
<1>1. CASE UNCHANGED vars
  BY <1>1 DEF vars, mqttVars, mainVars, world, TypeOK, MqttTypeOK, TodoTyped
<1>2. CASE Next
  <2> SUFFICES TypeOK'
    BY <1>2, TodoStep
  <2>1. CASE FindMyWrites \/ Launch \/ Crash \/ Signal
    BY <2>1, TypeEnvironment
  <2>2. CASE MainThread
    BY <2>2, TypeStart, TypePoll, TypeClear, TypeStop DEF MainThread
  <2>3. CASE NetworkThread \/ Network
    BY <2>3, TypeMqtt DEF NetworkThread, Network
  <2> QED
    BY <1>2, <2>1, <2>2, <2>3 DEF Next
<1> QED
  BY <1>1, <1>2

(* Every variable keeps its type: no payload is 0 or missing, whatever the   *)
(* cache holds when a poll reads it (runtime.py, poll_once).                 *)
THEOREM TypeCorrect == Spec => []TypeOK
<1>1. Init => TypeOK /\ TodoTyped
  BY TypeInit DEF Init, TodoTyped
<1>2. TypeOK /\ TodoTyped /\ [Next]_vars => TypeOK' /\ TodoTyped'
  BY TypeStep
<1> QED
  BY <1>1, <1>2, PTL DEF Spec
=============================================================================
