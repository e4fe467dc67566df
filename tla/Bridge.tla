------------------------------- MODULE Bridge -------------------------------
(* The bridge process: Bridge (runtime.py) under the three modes of cli.py,  *)
(* as the main thread that runs next to paho's network thread (Mqtt).        *)
(*                                                                           *)
(* The Find My cache is read as a whole here; reading it file by file, with  *)
(* a key that may be stale, is the subject of KeySource.                     *)
EXTENDS Mqtt, FiniteSets

CONSTANTS
    Exclude,    \* records the filters of the configuration leave out
    Envs        \* by name, the environments a process may meet

(* What one write of the cache by FindMy can do to it. *)
Write == [listed  : SUBSET Rec,           \* records in the files
          raising : SUBSET Rec,           \* those that build_state raises on
          ahead   : SUBSET Rec,           \* those listed before the first of them
          fresh   : SUBSET Mirrored,      \* new value: a field, the newest mtime
          blank   : SUBSET StateTopics,   \* fields whose new value is ""
          gone    : SUBSET Mirrored]      \* no value: None in the record, no file

(* What goes wrong in an environment, and the bounds of what happens in it.  *)
Environment ==
    [modes    : SUBSET {"run", "once", "clear"},   \* command lines that are started
     faults   : SUBSET {"crash",      \* the process dies, at any point
                        "stop",       \* SIGTERM arrives
                        "timeout"},   \* the 15 s wait ends without a connection
     writes   : SUBSET Write,         \* how FindMy writes the cache
     stamps   : Nat,     \* bound: writes of the cache
     launches : Nat,     \* bound: times a process is started
     drops    : Nat]     \* bound: connections that break

ASSUME BridgeConstants == Exclude \subseteq Rec
ASSUME EnvironmentsTyped == \A e \in DOMAIN Envs : Envs[e] \in Environment

VARIABLES
    env,       \* the environment of this behaviour: chosen at first, never changed
    cache,     \* the cache as FindMy last wrote it
    stamp,     \* the writes of FindMy so far
    empty,     \* the payloads that are "": by topic, the writes they come from
    pc, mode,  \* the main thread, and the command line it runs
    stop,      \* Bridge._stop
    known,     \* Bridge._known
    last,      \* Bridge._last
    snap,      \* what collect returned in this poll
    batch,     \* records of the poll still to come
    cur,       \* the record being published
    todo,      \* its topics still to publish (the topics to wipe, under --clear)
    launches   \* processes started so far

mainVars == <<pc, mode, stop, known, last, snap, batch, cur, todo, launches>>
world    == <<env, cache, stamp, empty>>
vars     == <<mqttVars, world, mainVars>>

Env == Envs[env]

(* val is what the records hold, and the newest mtime of the files that      *)
(* exist: each the number of the write that made it so, 0 for none.  (When   *)
(* the newest file is removed, what is now the newest mtime is an older time *)
(* but comes from a later write.)                                            *)
Cache == [listed : SUBSET Rec, raising : SUBSET Rec, ahead : SUBSET Rec,
          val : [Mirrored -> Nat]]

NoCache == [listed |-> {}, raising |-> {}, ahead |-> {}, val |-> [t \in Mirrored |-> 0]]

Steps == {"off", "exited", "wait", "status", "cache", "online", "loop", "read",
          "config", "state", "wipe", "drain", "ack", "join"}

TypeOK ==
    /\ env \in DOMAIN Envs
    /\ MqttTypeOK
    /\ cache \in Cache /\ stamp \in Nat /\ empty \subseteq StateTopics \X Nat
    /\ pc \in Steps /\ mode \in {"run", "once", "clear"}
    /\ stop \in BOOLEAN
    /\ known \subseteq Rec
    /\ last \in [Topic -> Body]
    /\ snap \in Cache
    /\ batch \subseteq Rec /\ cur \in Rec \cup {Hub}
    /\ todo \subseteq Topic
    /\ launches \in Nat

Init ==
    /\ env \in DOMAIN Envs
    /\ MqttInit
    /\ cache = NoCache /\ stamp = 0 /\ empty = {}
    /\ pc = "off" /\ mode \in Env.modes /\ stop = FALSE
    /\ known = {} /\ last = [t \in Topic |-> NoBody]
    /\ snap = NoCache /\ batch = {} /\ cur = Hub /\ todo = {}
    /\ launches = 0

-----------------------------------------------------------------------------
(* FindMy and the cache. *)

(* FindMy writes the cache: some fields get a new value, some lose theirs.   *)
FindMyWrites ==
    /\ stamp < Env.stamps
    /\ stamp' = stamp + 1
    /\ \E w \in Env.writes :
          /\ cache' = [listed |-> w.listed, raising |-> w.raising, ahead |-> w.ahead,
                       val |-> [t \in Mirrored |->
                                  IF t \in w.fresh \cup w.blank THEN stamp + 1
                                  ELSE IF t \in w.gone THEN 0 ELSE cache.val[t]]]
          /\ empty' = empty \cup {<<t, stamp + 1>> : t \in w.blank}
    /\ UNCHANGED <<env, mqttVars, mainVars>>

-----------------------------------------------------------------------------
(* The life of a process. *)

(* A new process: Bridge.__init__ and pub.start.                             *)
Launch ==
    /\ pc \in {"off", "exited"} /\ launches < Env.launches
    /\ launches' = launches + 1
    /\ pc' = "wait" /\ mode' \in Env.modes
    /\ snap' = NoCache
    /\ UNCHANGED <<mqttVars, world, stop, known, last, batch, cur, todo>>

(* The process is gone, and its memory: its socket closes, what it wrote may *)
(* still arrive.  (snap stays, as what the last process had read.)           *)
Gone(where) ==
    /\ pc' = where /\ stop' = FALSE
    /\ known' = {} /\ last' = [t \in Topic |-> NoBody]
    /\ batch' = {} /\ cur' = Hub /\ todo' = {}
    /\ net' = "down" /\ netpc' = "idle" /\ connected' = FALSE /\ out' = <<>>
    /\ UNCHANGED <<mode, snap, launches, session, retained, drops, world>>

Crash == "crash" \in Env.faults /\ pc \notin {"off", "exited"} /\ Gone("off") /\ UNCHANGED wire

(* SIGINT or SIGTERM under "run": Bridge.stop. *)
Signal ==
    /\ "stop" \in Env.faults /\ mode = "run" /\ ~stop
    /\ pc \notin {"off", "exited", "ack", "join"}
    /\ stop' = TRUE
    /\ UNCHANGED <<mqttVars, world, pc, mode, known, last, snap, batch, cur, todo,
                   launches>>

(* A step of the main thread that changes pc and nothing else of its own. *)
Goto(from, to) ==
    /\ pc = from /\ pc' = to
    /\ UNCHANGED <<world, mode, stop, known, last, snap, batch, cur, todo, launches>>

(* Mutant: nobody waits for the connection. *)
WaitSkipped ==
    /\ Goto("wait", IF mode = "clear" THEN "read" ELSE "status")
    /\ UNCHANGED mqttVars

(* wait_until_connected(15.0) returns, connected or not. *)
WaitEnds ==
    /\ connected \/ "timeout" \in Env.faults
    /\ Goto("wait", IF mode = "clear" THEN "read" ELSE "status")
    /\ UNCHANGED mqttVars

(* The rest of Bridge.start: the hub's configs, then "online". *)
PublishStatus == Goto("status", "cache") /\ Publish1(StatusConfig, Config)
PublishCache  == Goto("cache", "online") /\ Publish1(CacheConfig, Config)
PublishOnline ==
    Goto("online", IF mode = "run" THEN "loop" ELSE "read") /\ Publish1(Avail, Online)

Start ==
    \/ WaitEnds
    \/ /\ PublishStatus \/ PublishCache \/ PublishOnline
       /\ UNCHANGED <<net, netpc, connected, session, retained, drops>>

-----------------------------------------------------------------------------
(* One poll. *)

(* Mutant: the loop does not look at _stop. *)
IterateAnyway == Goto("loop", "read") /\ UNCHANGED mqttVars

(* The loop of Bridge.run; the poll interval lies between two iterations.    *)
Iterate == ~stop /\ Goto("loop", "read") /\ UNCHANGED mqttVars

(* Where poll_once returns to.                                               *)
Returned == IF mode = "run" THEN "loop" ELSE "drain"

(* Mutant: run() lets the exception through. *)
RaiseEverywhere(k) == Gone("off") /\ UNCHANGED wire

(* An exception that leaves poll_once: run() catches it, --once does not     *)
(* (and neither does --clear).  k is what is known by then.                  *)
Raise(k) ==
    \/ /\ mode = "run" /\ pc' = "loop" /\ known' = k
       /\ UNCHANGED <<mqttVars, world, mode, stop, last, snap, batch, cur, todo,
                      launches>>
    \/ mode # "run" /\ Gone("off") /\ UNCHANGED wire

Visible(c) == c.listed \ Exclude

(* The key and the files are read: collect, then apply_filters.              *)
ReadOk ==
    /\ pc = "read" /\ mode # "clear"
    /\ snap' = cache /\ batch' = Visible(cache)
    /\ cur' = Hub /\ todo' = {}
    /\ pc' = "state"
    /\ UNCHANGED <<mqttVars, world, mode, stop, known, last, launches>>

(* KeyExtractionError or DecryptError, also after the retry: poll_once gives *)
(* up this time.                                                             *)
ReadFails == mode # "clear" /\ Goto("read", Returned) /\ UNCHANGED mqttVars

(* An error of another class: a key blob that does not parse, a battery      *)
(* level that is not a number.                                               *)
ReadRaises == pc = "read" /\ mode # "clear" /\ Raise(known)

(* Records come in the order of the files, of which the model keeps that     *)
(* those ahead of a record that raises come before it.                       *)
Upcoming == IF batch \cap snap.ahead = {} THEN batch ELSE batch \cap snap.ahead

(* Mutant: the record is noted as known before the question whether it is. *)
NextRecordMarked ==
    /\ pc = "state" /\ todo = {}
    /\ pc' = "config" /\ todo' = {}
    /\ \E r \in Upcoming : batch' = batch \ {r} /\ cur' = r
    /\ UNCHANGED <<mqttVars, world, mode, stop, known, last, snap, launches>>

(* The next record: its configs first if it is not known.                    *)
NextRecord ==
    /\ pc = "state" /\ todo = {}
    /\ pc' = "config"
    /\ \E r \in Upcoming :
          /\ batch' = batch \ {r} /\ cur' = r
          /\ todo' = IF r \in known THEN {} ELSE ConfigsOf(r)
    /\ UNCHANGED <<mqttVars, world, mode, stop, known, last, snap, launches>>

(* Mutant: discovery at QoS 0. *)
PublishConfigQos0 ==
    /\ pc = "config"
    /\ \E t \in todo : todo' = todo \ {t} /\ Publish0(t, Config)
    /\ UNCHANGED <<net, netpc, connected, session, retained, drops, world, pc, mode,
                   stop, known, last, snap, batch, cur, launches>>

PublishConfig ==
    /\ pc = "config"
    /\ \E t \in todo : todo' = todo \ {t} /\ Publish1(t, Config)
    /\ UNCHANGED <<net, netpc, connected, session, retained, drops, world, pc, mode,
                   stop, known, last, snap, batch, cur, launches>>

(* All configs of the record are out: it is known.  Then build_state, which  *)
(* makes the whole list before the first publish, and raises on some values. *)
BuildState ==
    /\ pc = "config" /\ todo = {}
    /\ IF cur \in snap.raising
       THEN Raise(known \cup {cur})
       ELSE /\ known' = known \cup {cur}
            /\ todo' = StatesOf(cur, snap.val) /\ pc' = "state"
            /\ UNCHANGED <<mqttVars, world, mode, stop, last, snap, batch, cur,
                           launches>>

(* Two payloads of a topic with the same body: that of one write, or both "". *)
Same(t, a, b) == a = b \/ {<<t, a>>, <<t, b>>} \subseteq empty

(* Mutant: state at QoS 1. *)
MirrorQos1(t, b) ==
    IF Same(t, last[t], b)
    THEN UNCHANGED <<last, out, wire>>
    ELSE last' = [last EXCEPT ![t] = b] /\ Publish1(t, b)

(* Mutant: any earlier payload on the topic suppresses this one. *)
MirrorOnce(t, b) ==
    IF last[t] # NoBody
    THEN UNCHANGED <<last, out, wire>>
    ELSE last' = [last EXCEPT ![t] = b] /\ Publish0(t, b)

(* One payload: nothing if it equals the last one, else publish_state or     *)
(* publish_attributes, both at QoS 0, after it is noted as the last one.     *)
(* One that is "" takes the topic off the broker: retained[t] is then its    *)
(* number, and nothing is retained.                                          *)
Mirror(t, b) ==
    IF Same(t, last[t], b)
    THEN UNCHANGED <<last, out, wire>>
    ELSE last' = [last EXCEPT ![t] = b] /\ Publish0(t, b)

PublishState ==
    /\ pc = "state"
    /\ \E t \in todo : todo' = todo \ {t} /\ Mirror(t, snap.val[t])
    /\ UNCHANGED <<net, netpc, connected, session, retained, drops, world, pc, mode,
                   stop, known, snap, batch, cur, launches>>

(* _publish_cache_mtime: the newest mtime of now, not of what was read, and  *)
(* nothing when there is no file.                                            *)
PublishCacheTime ==
    /\ pc = "state" /\ todo = {} /\ batch = {}
    /\ pc' = Returned
    /\ IF cache.val[CacheTime] = 0
       THEN UNCHANGED <<last, out, wire>>
       ELSE Mirror(CacheTime, cache.val[CacheTime])
    /\ UNCHANGED <<net, netpc, connected, session, retained, drops, world, mode,
                   stop, known, snap, batch, cur, todo, launches>>

Poll ==
    \/ Iterate \/ ReadOk \/ ReadFails \/ ReadRaises
    \/ NextRecord \/ PublishConfig \/ BuildState \/ PublishState \/ PublishCacheTime

-----------------------------------------------------------------------------
(* Bridge.clear. *)

(* The records whose configs go, none if key or files cannot be read, and    *)
(* the status config of the hub.                                             *)
ClearReads ==
    /\ pc = "read" /\ mode = "clear"
    /\ \/ snap' = cache
       \/ snap' = NoCache
    /\ todo' = {StatusConfig} \cup {t \in Topic : \E r \in Visible(snap') : t \in WipedFor(r)}
    /\ pc' = "wipe"
    /\ UNCHANGED <<mqttVars, world, mode, stop, known, last, batch, cur, launches>>

ClearRaises == pc = "read" /\ mode = "clear" /\ Raise(known)

(* Mutant: configs are emptied at the default QoS of publish_raw. *)
WipeQos0 ==
    /\ pc = "wipe"
    /\ \E t \in todo : todo' = todo \ {t} /\ Publish0(t, NoBody)
    /\ UNCHANGED <<net, netpc, connected, session, retained, drops, world, pc, mode,
                   stop, known, last, snap, batch, cur, launches>>

Wipe ==
    /\ pc = "wipe"
    /\ \E t \in todo : todo' = todo \ {t} /\ Publish1(t, NoBody)
    /\ UNCHANGED <<net, netpc, connected, session, retained, drops, world, pc, mode,
                   stop, known, last, snap, batch, cur, launches>>

(* _known and _last are emptied; they were empty in this process. *)
Wiped == todo = {} /\ Goto("wipe", "drain") /\ UNCHANGED mqttVars

Clear == ClearReads \/ ClearRaises \/ Wipe \/ Wiped

-----------------------------------------------------------------------------
(* ThreadedPublisher.stop. *)

(* The loop of run() ends, or the 4 s sleep of --once and --clear.  Without  *)
(* a socket wait_for_publish raises at once, and the exception is swallowed. *)
PublishOffline ==
    /\ \/ pc = "loop" /\ stop
       \/ pc = "drain"
    /\ Publish1(Avail, Offline)
    /\ pc' = IF net = "down" THEN "join" ELSE "ack"
    /\ UNCHANGED <<net, netpc, connected, session, retained, drops, world, mode, stop,
                   known, last, snap, batch, cur, todo, launches>>

(* wait_for_publish: acknowledged, or 2 s have passed. *)
StopWaiting == Goto("ack", "join") /\ UNCHANGED mqttVars

(* loop_stop joins the network thread, which ends when nothing waits for a   *)
(* PUBACK or the connection is gone; then disconnect.                        *)
Exit ==
    /\ pc = "join" /\ netpc = "idle"
    /\ net # "down" => out = <<>>
    /\ \/ net # "down" /\ wire' = Append(wire, Bye)
       \/ net # "up" /\ UNCHANGED wire
    /\ Gone("exited")

Stop == PublishOffline \/ StopWaiting \/ Exit

-----------------------------------------------------------------------------
Running == pc \notin {"off", "exited"}

NetworkThread ==
    /\ Running
    /\ TcpConnect \/ OnConnect \/ Announce \/ Resend \/ OnDisconnect
    /\ UNCHANGED <<world, mainVars>>

Network ==
    /\ (drops < Env.drops /\ Break) \/ Deliver \/ TakeBye \/ FireWill
    /\ UNCHANGED <<world, mainVars>>

MainThread == Start \/ Poll \/ Clear \/ Stop

Next == \/ FindMyWrites \/ Launch \/ Crash \/ Signal
        \/ MainThread \/ NetworkThread \/ Network

Spec == Init /\ [][Next]_vars

(* launchd starts a process that died again, both threads run, the broker    *)
(* can be reached again after each of the bounded outages and notices        *)
(* (keepalive) a connection that died, and the cache is readable again and   *)
(* again.                                                                    *)
Relaunch  == pc = "off" /\ Launch
DeliverUp == net = "up" /\ Deliver /\ UNCHANGED <<world, mainVars>>
Expire    == FireWill /\ UNCHANGED <<world, mainVars>>

Fairness ==
    /\ WF_vars(Relaunch) /\ WF_vars(MainThread) /\ WF_vars(NetworkThread)
    /\ WF_vars(DeliverUp) /\ WF_vars(Expire)
    /\ SF_vars(ReadOk)

FairSpec == Spec /\ Fairness

-----------------------------------------------------------------------------
(* Safety. *)

Held(t, b) ==
    \/ retained[t] = b
    \/ \E i \in DOMAIN out : out[i].topic = t /\ out[i].body = b

(* Marking a record as known ends the publishing of its configs for the life *)
(* of the process (runtime.py:180-185), so by then every config must be at   *)
(* the broker or in the hands of paho, whatever connections were lost.       *)
ConfigsHeld == \A r \in known : \A t \in ConfigsOf(r) : Held(t, Config)

(* With a live connection, on_connect done and nothing in flight, the broker *)
(* shows the bridge online: no earlier will or "offline" is left over.       *)
OnlineWhileUp ==
    net = "up" /\ netpc = "idle" /\ wire = <<>> /\ pc \notin {"ack", "join"}
        => retained[Avail] = Online

(* The broker shows "online" only while it has a session whose will can take *)
(* it back.                                                                  *)
OnlineImpliesSession == retained[Avail] = Online => session

(* The same for a daemon that nobody stops: the will set before connecting   *)
(* (paho_publisher.py:126-132) takes "online" back.                          *)
Unstopped == Env.modes = {"run"} /\ "stop" \notin Env.faults

UnstoppedOnline == Unstopped => OnlineImpliesSession

(* A retained state is never replaced by one from an earlier write of the    *)
(* cache, by whatever order reconnects, redelivery and restarts bring        *)
(* messages to the broker.                                                   *)
NeverGoesBack ==
    [][\A t \in Mirrored :
          retained[t] # NoBody /\ retained'[t] # NoBody => retained'[t] >= retained[t]]_vars

Board == INSTANCE StateBoard
            WITH Place <- Mirrored, clock <- stamp, source <- cache.val, blank <- empty,
                 board <- [t \in Mirrored |-> IF retained[t] = NoBody THEN 0 ELSE retained[t]]

(* Every process of the bridge, through outages, crashes, restarts and       *)
(* --clear, does to the retained values only what the abstract board allows: *)
(* none is newer than the cache or goes back, and none is taken away but by  *)
(* an empty value that the cache had later.                                  *)
ImplementsBoard == Board!BoardSpec

(* The connection comes in time and is never lost, and nothing dies.         *)
Calm == Env.faults = {} /\ Env.drops = 0

(* Between polls, when all is delivered, the broker retains what _last says  *)
(* was published.  (Where no connection is lost; see StatesConverge.)        *)
LastIsRetained ==
    Calm /\ pc = "loop" /\ wire = <<>> => \A t \in Topic : last[t] \in {NoBody, retained[t]}

(* When --clear has nothing left to send, no record that it could read has a *)
(* config, or a legacy state, left at the broker.                            *)
Cleared == mode = "clear" /\ pc \in {"drain", "ack", "join"} /\ out = <<>>

ClearTakesEffect ==
    Cleared => \A r \in Visible(snap) : \A t \in WipedFor(r) : retained[t] = NoBody

(* The docstring of Bridge.clear: every published config is removed.         *)
ClearRemovesEveryConfig ==
    Cleared /\ snap = cache => \A t \in Topic : retained[t] # Config

-----------------------------------------------------------------------------
(* Liveness, under FairSpec. *)

(* A record that raises in each poll keeps those behind it from being        *)
(* published at all (runtime.py:179-198); those ahead of it get through.     *)
Reached(r) == r \in cache.ahead \ cache.raising \/ cache.raising = {}

(* A record that stays in the cache, and is not behind one that raises, gets *)
(* its configs to the broker for good, whether the connection was lost or    *)
(* the process died on the way.                                              *)
ConfigsConverge ==
    \A r \in Rec :
        <>[](Running /\ r \in Visible(cache) /\ Reached(r))
            => <>[](\A t \in ConfigsOf(r) : retained[t] = Config)

(* The availability topic ends up with the truth about the process.  (Where  *)
(* it is not stopped; see OnlineImpliesSession.)                             *)
AvailabilityConverges ==
    /\ <>[]Running => <>[](retained[Avail] = Online)
    /\ <>[](Unstopped /\ ~Running) => <>[](retained[Avail] # Online)

(* What the cache says of a record that stays there, and is not behind one   *)
(* that raises, ends up at the broker.                                       *)
Stays(t) ==
    Running /\ t.rec \in Visible(cache) /\ Reached(t.rec) /\ cache.val[t] # 0

Shown(t) == Same(t, retained[t], cache.val[t])

StatesConverge == \A t \in StateTopics : <>[]Stays(t) => <>[]Shown(t)

(* The same where no connection is lost: also for the records ahead of one   *)
(* that breaks every poll, and for all of them once it raises no more.       *)
CalmStatesConverge == \A t \in StateTopics : <>[](Calm /\ Stays(t)) => <>[]Shown(t)

(* "One bad poll must not kill the loop" (runtime.py:121): where nothing     *)
(* kills or stops the process, the loop comes round again and again,         *)
(* whatever a poll runs into.                                                *)
Undisturbed == Env.faults \cap {"crash", "stop"} = {}

KeepsPolling == []<>(Undisturbed => pc = "loop")

(* A process that was told to stop comes to an end, in whatever state the    *)
(* connection is: loop_stop, which joins the network thread, does not hang.  *)
StopEnds == []<>~stop
=============================================================================
