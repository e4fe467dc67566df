-------------------------------- MODULE Mqtt --------------------------------
(* The MQTT client of the bridge and the broker behind it.                   *)
(*                                                                           *)
(* ThreadedPublisher (paho_publisher.py) is what the repository writes: the  *)
(* callbacks, the flavours of publish, the flag `connected`.  The rest is    *)
(* external and modelled from how the publisher uses it: paho keeps every    *)
(* QoS-1 message until its PUBACK and sends it again on a new connection,    *)
(* gives a QoS-0 message to the socket or drops it, and runs the callbacks   *)
(* on a network thread of its own; the broker keeps retained messages and    *)
(* publishes the will of a session that ends without DISCONNECT.             *)
EXTENDS Topics, Sequences

VARIABLES
    net,        \* the client's socket: "down", "up", or "broken" (not noticed yet)
    netpc,      \* paho's network thread: "idle" or a step of a connection
    connected,  \* ThreadedPublisher._connected
    out,        \* paho's unacknowledged QoS-1 messages, in call order
    wire,       \* bytes in flight to the broker on the session's connection
    session,    \* the broker holds a session for this client
    retained,   \* the broker's retained messages
    drops       \* connections lost so far

CONSTANT
    Legacy      \* what the broker retains on the legacy topics at first

ASSUME MqttConstants == Legacy \in {NoBody, OldState}

mqttVars == <<net, netpc, connected, out, wire, session, retained, drops>>

Bye == [topic |-> Avail, body |-> NoBody, qos |-> 2]   \* the DISCONNECT packet

Packet  == [topic : Topic, body : Body, qos : {0, 1}] \cup {Bye}
Pending == [topic : Topic, body : Body, sent : BOOLEAN]

MqttTypeOK ==
    /\ net \in {"down", "up", "broken"}
    /\ netpc \in {"idle", "connack", "announce", "resend"}
    /\ connected \in BOOLEAN
    /\ out \in Seq(Pending)
    /\ wire \in Seq(Packet)
    /\ session \in BOOLEAN
    /\ retained \in [Topic -> Body]
    /\ drops \in Nat

(* Nothing was published before but, perhaps, by a build that still wrote    *)
(* home/not_home to the legacy topics.                                       *)
MqttInit ==
    /\ net = "down" /\ netpc = "idle" /\ connected = FALSE
    /\ out = <<>> /\ wire = <<>>
    /\ session = FALSE
    /\ retained = [t \in Topic |-> IF t.kind = "legacy" THEN Legacy ELSE NoBody]
    /\ drops = 0

-----------------------------------------------------------------------------
(* Calls of Client.publish: change out and wire.                             *)

(* QoS 0: written to the socket if there is one, silently dropped if not.    *)
Publish0(t, b) ==
    /\ wire' = IF net = "down" THEN wire
               ELSE Append(wire, [topic |-> t, body |-> b, qos |-> 0])
    /\ UNCHANGED out

(* QoS 1: kept until acknowledged, and written now if there is a socket.     *)
Send1(t, b) ==
    /\ wire' = IF net = "down" THEN wire
               ELSE Append(wire, [topic |-> t, body |-> b, qos |-> 1])
    /\ out' = Append(out, [topic |-> t, body |-> b, sent |-> net # "down"])

(* Another thread's QoS-1 publish waits for the mutex that the network       *)
(* thread holds while it sends again.                                        *)
Publish1(t, b) == netpc # "resend" /\ Send1(t, b)

-----------------------------------------------------------------------------
(* The network thread.                                                       *)

(* A TCP connection, and the broker taking the CONNECT that comes with it.   *)
(* The session of an earlier connection, if any, ends with its will.         *)
TcpConnect ==
    /\ net = "down" /\ netpc = "idle"
    /\ net' = "up" /\ netpc' = "connack"
    /\ wire' = <<>>
    /\ session' = TRUE
    /\ retained' = IF session THEN [retained EXCEPT ![Avail] = Offline] ELSE retained
    /\ UNCHANGED <<connected, out, drops>>

(* _on_connect up to the publish: the flag is set first. *)
OnConnect ==
    /\ netpc = "connack"
    /\ netpc' = "announce"
    /\ connected' = TRUE
    /\ UNCHANGED <<net, out, wire, session, retained, drops>>

(* Mutant: _on_connect leaves "online" to the first start. *)
AnnounceNothing ==
    /\ netpc = "announce"
    /\ netpc' = "resend"
    /\ UNCHANGED <<net, connected, out, wire, session, retained, drops>>

(* _on_connect publishes lwt_online. *)
Announce ==
    /\ netpc = "announce"
    /\ netpc' = "resend"
    /\ Send1(Avail, Online)
    /\ UNCHANGED <<net, connected, session, retained, drops>>

(* After the callback, paho sends what it still holds, in order.             *)
Queued == {i \in DOMAIN out : ~out[i].sent}

Resend ==
    /\ netpc = "resend"
    /\ \/ \E i \in Queued :
            /\ \A j \in Queued : i <= j
            /\ wire' = Append(wire, [topic |-> out[i].topic, body |-> out[i].body,
                                     qos |-> 1])
            /\ out' = [out EXCEPT ![i].sent = TRUE]
            /\ UNCHANGED netpc
       \/ /\ Queued = {}
          /\ netpc' = "idle"
          /\ UNCHANGED <<wire, out>>
    /\ UNCHANGED <<net, connected, session, retained, drops>>

(* The client finds its connection dead: _on_disconnect, and every message   *)
(* without PUBACK is to be sent again.                                       *)
OnDisconnect ==
    /\ net = "broken" /\ netpc \in {"idle", "connack"}
    /\ net' = "down" /\ netpc' = "idle"
    /\ connected' = FALSE
    /\ out' = [i \in DOMAIN out |-> [out[i] EXCEPT !.sent = FALSE]]
    /\ UNCHANGED <<wire, session, retained, drops>>

-----------------------------------------------------------------------------
(* The network and the broker.                                               *)

(* The connection breaks; neither side knows yet.  From here on PUBACKs are  *)
(* lost, while what is in flight may still arrive.                           *)
Break ==
    /\ net = "up"
    /\ net' = "broken"
    /\ drops' = drops + 1
    /\ UNCHANGED <<netpc, connected, out, wire, session, retained>>

(* PUBACK of m: paho forgets the oldest message it answers. *)
Holds(i, m) == out[i].topic = m.topic /\ out[i].body = m.body /\ out[i].sent

Without(k) == [i \in 1 .. (Len(out) - 1) |-> IF i < k THEN out[i] ELSE out[i + 1]]

Acked(m) ==
    \/ \E k \in DOMAIN out :
          /\ Holds(k, m) /\ \A j \in DOMAIN out : Holds(j, m) => k <= j
          /\ out' = Without(k)
    \/ (\A j \in DOMAIN out : ~Holds(j, m)) /\ UNCHANGED out

(* The broker takes a PUBLISH and retains it; a PUBACK reaches the client    *)
(* unless the connection is broken.                                          *)
Deliver ==
    /\ session /\ wire # <<>> /\ Head(wire) # Bye
    /\ wire' = Tail(wire)
    /\ retained' = [retained EXCEPT ![Head(wire).topic] = Head(wire).body]
    /\ IF net = "up" /\ Head(wire).qos = 1 THEN Acked(Head(wire)) ELSE UNCHANGED out
    /\ UNCHANGED <<net, netpc, connected, session, drops>>

(* A DISCONNECT ends the session and discards the will. *)
TakeBye ==
    /\ session /\ wire # <<>> /\ Head(wire) = Bye
    /\ session' = FALSE
    /\ wire' = <<>>
    /\ UNCHANGED <<net, netpc, connected, out, retained, drops>>

(* Mutant: no will was set. *)
FireNoWill ==
    /\ session /\ net # "up"
    /\ wire # <<>> => wire[Len(wire)] # Bye
    /\ session' = FALSE
    /\ wire' = <<>>
    /\ UNCHANGED <<net, netpc, connected, out, retained, drops>>

(* The broker gives up on a connection that ended without one: the will.     *)
FireWill ==
    /\ session /\ net # "up"
    /\ wire # <<>> => wire[Len(wire)] # Bye
    /\ session' = FALSE
    /\ wire' = <<>>
    /\ retained' = [retained EXCEPT ![Avail] = Offline]
    /\ UNCHANGED <<net, netpc, connected, out, drops>>
=============================================================================
