--------------------------- MODULE Subscriptions ---------------------------
(* The subscription map of ThreadedPublisher (paho_publisher.py): subscribe  *)
(* on the main thread against _on_connect and _on_message on the network     *)
(* thread, with watch_ha_birth as one subscriber.  The bridge of this        *)
(* repository subscribes to nothing; this is what the toolkit offers.        *)
EXTENDS Naturals

CONSTANTS
    Topics,      \* what the program subscribes to, in any order
    Status,      \* <discovery_prefix>/status, among them
    MaxDrops,    \* bound: connections that break
    MaxBirths    \* bound: birth messages of Home Assistant

ASSUME SubscriptionsConstants == Status \in Topics /\ MaxDrops \in Nat /\ MaxBirths \in Nat

VARIABLES
    map,         \* the keys of _subscriptions: the topics with a handler
    connected,   \* _connected
    pc, cur,     \* main thread: in subscribe, for topic cur
    netpc,       \* network thread
    left, seen,  \* its loop over the map: topics to come, and the keys at its start
    net,         \* the connection: "lost" until the network thread notices
    subscribed,  \* the subscriptions the broker has for the session
    inbox,       \* topics of messages on their way to the client
    ignored,     \* history: a message found no handler
    births, drops

mainVars == <<map, pc, cur>>
loopVars == <<connected, netpc, left, seen>>
linkVars == <<net, subscribed, inbox>>
vars     == <<mainVars, loopVars, linkVars, ignored, births, drops>>

TypeOK ==
    /\ map \subseteq Topics /\ connected \in BOOLEAN
    /\ pc \in {"app", "check", "send"} /\ cur \in Topics
    /\ netpc \in {"idle", "connack", "connected", "loop", "dead"}
    /\ left \subseteq seen /\ seen \subseteq map
    /\ net \in {"down", "up", "lost"}
    /\ subscribed \subseteq Topics /\ inbox \subseteq Topics
    /\ ignored \in BOOLEAN
    /\ births \in 0 .. MaxBirths /\ drops \in 0 .. MaxDrops

Init ==
    /\ map = {} /\ connected = FALSE
    /\ pc = "app" /\ cur = Status
    /\ netpc = "idle" /\ left = {} /\ seen = {}
    /\ net = "down" /\ subscribed = {} /\ inbox = {}
    /\ ignored = FALSE /\ births = 0 /\ drops = 0

(* A SUBSCRIBE: nothing without a connection, and paho never repeats it.     *)
Send(t) == subscribed' = IF net = "up" THEN subscribed \cup {t} ELSE subscribed

-----------------------------------------------------------------------------
(* subscribe, on the main thread. *)

(* Mutant: the map is for topics that cannot be subscribed to right now. *)
SubscribeOrNote ==
    /\ pc = "app" /\ pc' = "check"
    /\ cur' \in Topics \ map
    /\ map' = IF connected THEN map ELSE map \cup {cur'}
    /\ UNCHANGED <<loopVars, linkVars, ignored, births, drops>>

Subscribe ==
    /\ pc = "app" /\ pc' = "check"
    /\ cur' \in Topics \ map
    /\ map' = map \cup {cur'}
    /\ UNCHANGED <<loopVars, linkVars, ignored, births, drops>>

IfConnected ==
    /\ pc = "check"
    /\ pc' = IF connected THEN "send" ELSE "app"
    /\ UNCHANGED <<map, cur, loopVars, linkVars, ignored, births, drops>>

SendNow ==
    /\ pc = "send" /\ pc' = "app"
    /\ Send(cur)
    /\ UNCHANGED <<map, cur, loopVars, net, inbox, ignored, births, drops>>

Main == Subscribe \/ IfConnected \/ SendNow
-----------------------------------------------------------------------------
(* The network thread. *)

(* A session starts without subscriptions (clean start, no expiry).          *)
Connect ==
    /\ net = "down" /\ netpc = "idle"
    /\ net' = "up" /\ netpc' = "connack"
    /\ UNCHANGED <<mainVars, connected, left, seen, subscribed, inbox, ignored, births, drops>>

(* _on_connect sets the flag, publishes "online", and goes through the map.  *)
OnConnect ==
    /\ netpc = "connack" /\ netpc' = "connected" /\ connected' = TRUE
    /\ UNCHANGED <<mainVars, left, seen, linkVars, ignored, births, drops>>

(* Mutant: only the first connection subscribes. *)
BeginLoopOnce ==
    /\ netpc = "connected" /\ netpc' = "loop"
    /\ left' = (IF drops = 0 THEN map ELSE {}) /\ seen' = map
    /\ UNCHANGED <<mainVars, connected, linkVars, ignored, births, drops>>

BeginLoop ==
    /\ netpc = "connected" /\ netpc' = "loop"
    /\ left' = map /\ seen' = map
    /\ UNCHANGED <<mainVars, connected, linkVars, ignored, births, drops>>

LoopSends ==
    /\ netpc = "loop" /\ map = seen
    /\ \E t \in left : left' = left \ {t} /\ Send(t)
    /\ UNCHANGED <<mainVars, connected, netpc, seen, net, inbox, ignored, births, drops>>

LoopEnds ==
    /\ netpc = "loop" /\ map = seen /\ left = {} /\ netpc' = "idle"
    /\ UNCHANGED <<mainVars, connected, left, seen, linkVars, ignored, births, drops>>

(* The iterator of a dict that grew raises; paho lets it through, and the    *)
(* network thread is no more.                                                *)
LoopRaises ==
    /\ netpc = "loop" /\ map # seen /\ netpc' = "dead" /\ left' = {}
    /\ UNCHANGED <<mainVars, connected, seen, linkVars, ignored, births, drops>>

(* Mutant: the handlers go with the connection. *)
OnDisconnectForgets ==
    /\ net = "lost" /\ netpc = "idle"
    /\ net' = "down" /\ connected' = FALSE /\ inbox' = {} /\ map' = {}
    /\ UNCHANGED <<pc, cur, netpc, left, seen, subscribed, ignored, births, drops>>

(* The socket is closed, with what was not read of it. *)
OnDisconnect ==
    /\ net = "lost" /\ netpc = "idle"
    /\ net' = "down" /\ connected' = FALSE /\ inbox' = {}
    /\ UNCHANGED <<mainVars, netpc, left, seen, subscribed, ignored, births, drops>>

(* _on_message: the handler of the topic, whose exceptions it catches; that  *)
(* of watch_ha_birth publishes what the program wants to.                    *)
OnMessage ==
    /\ netpc = "idle"
    /\ \E t \in inbox : inbox' = inbox \ {t} /\ ignored' = (ignored \/ t \notin map)
    /\ UNCHANGED <<mainVars, loopVars, net, subscribed, births, drops>>

NetworkThread ==
    \/ Connect \/ OnConnect \/ BeginLoop \/ LoopSends \/ LoopEnds \/ LoopRaises
    \/ OnDisconnect \/ OnMessage

-----------------------------------------------------------------------------
(* The broker and Home Assistant. *)

(* What the client's socket had received is still read, the rest is lost.    *)
Break ==
    /\ net = "up" /\ net' = "lost"
    /\ drops < MaxDrops /\ drops' = drops + 1
    /\ subscribed' = {} /\ inbox' \in SUBSET inbox
    /\ UNCHANGED <<mainVars, loopVars, ignored, births>>

(* Home Assistant is back; who is not subscribed does not hear of it.        *)
Birth ==
    /\ births < MaxBirths /\ births' = births + 1
    /\ inbox' = inbox \cup ({Status} \cap subscribed)
    /\ UNCHANGED <<mainVars, loopVars, net, subscribed, ignored, drops>>

Next == Main \/ NetworkThread \/ Break \/ Birth

Spec ==
    /\ Init /\ [][Next]_vars
    /\ WF_vars(IfConnected) /\ WF_vars(SendNow) /\ WF_vars(NetworkThread)

-----------------------------------------------------------------------------
(* A topic is in the map before the broker can send anything on it, and      *)
(* stays there: no message, also of a connection that was lost meanwhile, is *)
(* "ignored on unsubscribed topic" (paho_publisher.py:301).                  *)
NoneIgnored == ~ignored /\ subscribed \subseteq map

(* When the network thread is through with a connection, and the main thread *)
(* is not in subscribe, the broker has every topic of the map: what came     *)
(* before the flag was in the loop, what came after it was sent.             *)
NothingForgotten == net = "up" /\ netpc = "idle" /\ pc = "app" => map \subseteq subscribed

(* "Re-applied automatically on reconnect" (paho_publisher.py:19), whether   *)
(* subscribe came before the flag, between the flag and the loop, or while   *)
(* there was no connection.  That is, unless a subscribe met the loop, which *)
(* kills the network thread, while _connected goes on saying TRUE.           *)
Resubscribed ==
    [](netpc # "dead") /\ <>[](net = "up") => <>[](map \subseteq subscribed)
=============================================================================
