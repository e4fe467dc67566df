------------------------------- MODULE Topics -------------------------------
(* The MQTT namespace of the bridge: the topics it publishes, all of them     *)
(* retained, and the payloads that go there.  A record of the Find My cache   *)
(* (a device or an item) owns one discovery config and one state topic for    *)
(* each of its entities (tracker, battery, sensors, details); the hub owns    *)
(* two configs, the availability topic and the cache-time topic.              *)
(* Names, JSON and units are abstracted: a topic is identified by what it is  *)
(* about, and a state payload by the number of the cache write it comes from, *)
(* also one that is "".                                                       *)
EXTENDS Naturals

CONSTANTS
    Rec,        \* uuids of the records the cache can list
    Entity,     \* the Home Assistant entities of one record
    Hub,        \* the hub device, which is no record
    Online, Offline,   \* payloads of the availability topic
    Config,     \* a discovery config (any non-empty one)
    OldState,   \* what builds before zone resolution left on <uuid>/state
    NoBody      \* the empty payload: nothing retained

ASSUME NamesAreDistinct ==
    /\ Hub \notin Rec
    /\ Hub \notin Entity
    /\ Online # Offline
    /\ NoBody \notin {Online, Offline, Config, OldState}
    /\ Config \notin {Online, Offline, OldState}
    /\ {Online, Offline, Config, OldState, NoBody} \cap Nat = {}

ConfigTopic(r, e) == [kind |-> "config", rec |-> r, ent |-> e]
StateTopic(r, e)  == [kind |-> "state", rec |-> r, ent |-> e]
LegacyTopic(r)    == [kind |-> "legacy", rec |-> r, ent |-> Hub]
HubTopic(k)       == [kind |-> k, rec |-> Hub, ent |-> Hub]

Avail         == HubTopic("availability")
StatusConfig  == HubTopic("status config")
CacheConfig   == HubTopic("cache config")
CacheTime     == HubTopic("cache time")

StateTopics == {StateTopic(r, e) : r \in Rec, e \in Entity}

(* What mirrors the cache. *)
Mirrored == StateTopics \cup {CacheTime}

Topic ==
    {ConfigTopic(r, e) : r \in Rec, e \in Entity}
        \cup StateTopics
        \cup {LegacyTopic(r) : r \in Rec}
        \cup {Avail, StatusConfig, CacheConfig, CacheTime}

Body == (Nat \ {0}) \cup {Online, Offline, Config, OldState, NoBody}

-----------------------------------------------------------------------------
(* What one record publishes. *)

ConfigsOf(r) == {ConfigTopic(r, e) : e \in Entity}

(* Mutant: None is published as if it were a value. *)
StatesOfAll(r, val) == {t \in StateTopics : t.rec = r}

(* The state topics of r that get a payload: the fields that are None in the *)
(* record (value 0 here) are left out, and keep what was retained before.    *)
StatesOf(r, val) == {t \in StateTopics : t.rec = r /\ val[t] # 0}

(* What --clear empties for a record. *)
WipedFor(r) == ConfigsOf(r) \cup {LegacyTopic(r)}
=============================================================================
