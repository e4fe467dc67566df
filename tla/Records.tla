------------------------------ MODULE Records ------------------------------
(* What becomes of the fields of one record of the Find My cache: normalize  *)
(* (normalize.py, battery.py), the tables of fields.py, and the configs and  *)
(* payloads of entities.py, over polls between which FindMy changes fields.  *)
(*                                                                           *)
(* A value is the class the code tells it apart by.  A field of location or  *)
(* address is a field of the record here: only through .get are they read.   *)
(* An attribute has the name of the field it shows; payloads that are no     *)
(* dict have the one attribute "value".  A poll is one step (see Bridge).    *)
EXTENDS Naturals, Functions

CONSTANT MaxWrites      \* bound: fields that FindMy changes

ASSUME RecordsConstants == MaxWrites \in Nat

Kind    == {"item", "device"}
Numbers == {"none", "negative", "zero", "half", "one", "many"}
Texts   == {"none", "", "text"}
Bools   == {"none", "true", "false"}
Shown   == {"iso", "label", "0%", "50%", "100%", "ON", "OFF", "hex"}   \* made by the bridge

(* The fields of a record ...                                                *)
Identity  == {"identifier", "id", "baUUID"}
Named     == {"name", "deviceDisplayName"}
Model     == {"productType", "deviceModel", "rawDeviceModel", "modelDisplayName"}
Role      == {"emoji", "roleName"}
Plain     == {"deviceClass", "serialNumber", "systemVersion"}
Flags     == {"lowPowerMode", "deviceWithYou", "lostModeEnabled", "activationLocked"}
Position  == {"altitude", "verticalAccuracy", "floorLevel", "latitude", "longitude",
              "horizontalAccuracy", "isInaccurate", "isOld", "locationFinished",
              "positionType", "timeStamp"}
Address   == {"mapItemFullAddress", "label", "streetAddress", "locality"}

Field == Identity \cup Named \cup Model \cup Role \cup Plain \cup Flags \cup Position \cup Address
            \cup {"batteryLevel", "batteryStatus", "crowdSourcedLocation", "features"}

(* ... and the values that occur in them.                                    *)
Values(f) ==
    CASE f \in Identity -> {"none", "text", "many"}
      [] f \in Named    -> Texts \cup {"blank"}
      [] f \in Model \cup Role \cup Address \cup {"positionType"} -> Texts
      [] f \in Plain    -> {"none", "text"}
      [] f \in Flags \cup {"isInaccurate", "isOld", "locationFinished"} -> Bools
      [] f \in {"altitude", "verticalAccuracy", "floorLevel"} -> {"none", "negative", "many"}
      [] f \in {"latitude", "longitude", "horizontalAccuracy"} -> {"none", "zero", "many"}
      [] f = "timeStamp"            -> {"none", "zero", "many", "huge", "text"}
      [] f = "batteryLevel"         -> Numbers \cup {"text", "true", "nan"}
      [] f = "batteryStatus"        -> Texts \cup {"zero", "many"}
      [] f = "crowdSourcedLocation" -> {"none", "dict"}
      [] f = "features"             -> {"none", "dict", "bytes"}

Value == Shown \cup UNION {Values(f) : f \in Field}

-----------------------------------------------------------------------------
(* normalize.py and battery.py. *)

Truthy(v) == v \notin {"none", "", "zero", "false"}
Or(a, b)  == IF Truthy(a) THEN a ELSE b
IsText(v) == v \in {"", "blank", "text"}

(* The field the uuid comes from: it stands for the uuid.                    *)
Uuid(kind, raw) ==
    IF kind = "item" THEN "identifier" ELSE IF Truthy(raw["id"]) THEN "id" ELSE "baUUID"

HasUuid(kind, raw) == raw[Uuid(kind, raw)] = "text"

(* The label of a role: its emoji or its name.                               *)
Label(v) == IF IsText(v) /\ Truthy(v) THEN v ELSE "none"

ModelOf(kind, raw) ==
    IF kind = "device" THEN Or(Or(raw["deviceModel"], raw["rawDeviceModel"]), raw["modelDisplayName"])
    ELSE IF IsText(raw["productType"]) THEN raw["productType"] ELSE Label(raw["roleName"])

(* Mutant: one coordinate makes a fix. *)
HasFixEither(raw) == raw["latitude"] # "none" \/ raw["longitude"] # "none"

HasFix(raw) == raw["latitude"] # "none"

(* Mutant: the number is published as it is. *)
LastSeenRaw(raw) == raw["timeStamp"]

(* epoch_ms_to_iso, with "" turned into None.                                *)
LastSeen(raw) == IF raw["timeStamp"] \in {"many", "huge"} THEN "iso" ELSE "none"

DevicePercent(v) ==
    CASE v = "zero" -> "0%" [] v = "half" -> "50%" [] v = "one" -> "100%" [] OTHER -> "none"

(* Integers the table of labels does not have go through as they are.        *)
ItemText(v) == IF v = "zero" THEN "label" ELSE IF v = "many" THEN v ELSE "none"

(* Mutant: a percentage of 0 counts as none. *)
BatteryTruthy(kind, raw) ==
    IF kind = "item" THEN ItemText(raw["batteryStatus"])
    ELSE IF DevicePercent(raw["batteryLevel"]) \notin {"none", "0%"}
         THEN DevicePercent(raw["batteryLevel"]) ELSE Label(raw["batteryStatus"])

(* battery_percent, else battery_text.                                       *)
BatteryOf(kind, raw) ==
    IF kind = "item" THEN ItemText(raw["batteryStatus"])
    ELSE IF DevicePercent(raw["batteryLevel"]) # "none"
         THEN DevicePercent(raw["batteryLevel"]) ELSE Label(raw["batteryStatus"])

NormalizeRaises(kind, raw)  == kind = "device" /\ raw["batteryLevel"] = "nan"
BuildStateRaises(raw) == raw["timeStamp"] = "huge"     \* no year of a datetime

-----------------------------------------------------------------------------
(* fields.py. *)

NegSentinel == {"altitude", "verticalAccuracy", "floorLevel"}

(* Mutant: a sentinel is looked for, a missing value is not. *)
CleanSentinels(d) == Restrict(d, {a \in DOMAIN d : ~(a \in NegSentinel /\ d[a] = "negative")})

(* Mutant: values that are false in Python are left out. *)
CleanFalsy(d) == Restrict(d, {a \in DOMAIN d : Truthy(d[a]) /\ ~(a \in NegSentinel /\ d[a] = "negative")})

Clean(d) == Restrict(d, {a \in DOMAIN d : d[a] # "none" /\ ~(a \in NegSentinel /\ d[a] = "negative")})

(* mapItemFullAddress, else label.                                           *)
Place(raw) == Or(raw["mapItemFullAddress"], raw["label"])

(* The attributes of a tracker ("place" is of the bridge's making).          *)
TrackerFields ==
    Position \cup Role \cup {"deviceModel", "rawDeviceModel", "deviceClass", "serialNumber",
                             "place", "streetAddress", "locality"}

TrackerValue(kind, raw, a) ==
    CASE a = "timeStamp"   -> LastSeen(raw)
      [] a = "deviceModel" -> ModelOf(kind, raw)
      [] a = "place"       -> Place(raw)
      [] a \in Role        -> Label(raw[a])
      [] OTHER             -> raw[a]

TrackerAttributes(kind, raw) == Clean([a \in TrackerFields |-> TrackerValue(kind, raw, a)])

(* SENSORS and BINARY_SENSORS: the entities of a kind, by the field each one *)
(* shows (last_seen, place and model by a name of their own).                *)
Sensors(kind) ==
    {"last_seen", "horizontalAccuracy", "altitude", "positionType", "place", "model"} \cup
    IF kind = "item" THEN {"emoji", "roleName", "serialNumber", "systemVersion"}
                     ELSE {"batteryStatus", "deviceClass"}

BinarySensors(kind) == {"isInaccurate", "isOld"} \cup IF kind = "device" THEN Flags ELSE {}

SensorValue(kind, raw, s) ==
    CASE s = "last_seen" -> LastSeen(raw)
      [] s = "place"     -> Place(raw)
      [] s = "model"     -> ModelOf(kind, raw)
      [] s \in Role      -> Label(raw[s])
      [] OTHER           -> raw[s]

DetailsSkip == Position \cup Address \cup {"crowdSourcedLocation", "name", "identifier", "id"}

DetailsAttributes(raw) ==
    [f \in {g \in Field \ DetailsSkip : raw[g] # "none"} |-> IF raw[f] = "bytes" THEN "hex" ELSE raw[f]]
-----------------------------------------------------------------------------
(* entities.py. *)

(* A config as build_discovery_payload makes it: the topics it names, by     *)
(* their last level, and what Home Assistant expects on the state topic.     *)
Discovery(component, state, attributes, form) ==
    [component |-> component, state |-> state, attributes |-> attributes, form |-> form]

SensorForm(s) ==
    CASE s = "last_seen" -> "timestamp"
      [] s \in {"horizontalAccuracy", "altitude"} -> "measurement"
      [] OTHER -> "any"

BuildDiscovery(kind) ==
    {Discovery("device_tracker", "none", "attrs", "any"),
     Discovery("sensor", "battery", "none", IF kind = "device" THEN "measurement" ELSE "any"),
     Discovery("sensor", "details_state", "details", "any")}
        \cup {Discovery("sensor", s, "none", SensorForm(s)) : s \in Sensors(kind)}
        \cup {Discovery("binary_sensor", s, "none", "on/off") : s \in BinarySensors(kind)}

Plainly(v) == [a \in {"value"} |-> v]

Payload(kind, raw, t) ==
    CASE t = "attrs"                -> TrackerAttributes(kind, raw)
      [] t = "details"              -> DetailsAttributes(raw)
      [] t = "details_state"        -> Plainly("label")
      [] t = "battery"              -> Plainly(BatteryOf(kind, raw))
      [] t \in BinarySensors("device") -> Plainly(IF Truthy(raw[t]) THEN "ON" ELSE "OFF")
      [] OTHER                      -> Plainly(SensorValue(kind, raw, t))

(* The topics that get a payload: nothing is published of a value that is None. *)
Published(kind, raw) ==
    {"details_state", "details"}
        \cup {t \in {"attrs"} : HasFix(raw)}
        \cup {t \in {"battery"} : BatteryOf(kind, raw) # "none"}
        \cup {t \in Sensors(kind) : SensorValue(kind, raw, t) # "none"}
        \cup {t \in BinarySensors(kind) : raw[t] # "none"}

(* Mutant: every record publishes the values of both kinds. *)
BuildStateOfBoth(kind, raw) ==
    [t \in Published("item", raw) \cup Published("device", raw) |-> Payload(kind, raw, t)]

(* The payloads of a record, by topic. *)
BuildState(kind, raw) == [t \in Published(kind, raw) |-> Payload(kind, raw, t)]

-----------------------------------------------------------------------------
VARIABLES
    kind, raw,  \* a record of the cache, as FindMy last wrote it
    writes,     \* fields changed so far
    known,      \* Bridge._known
    configs,    \* what is retained, by uuid: configs ...
    board,      \* ... and payloads, by topic
    shown       \* history: what a complete poll last published of, by uuid

vars == <<kind, raw, writes, known, configs, board, shown>>

(* A payload: attributes by name, or one value; never None.                  *)
PayloadOK(b) == DOMAIN b \subseteq Field \cup {"value", "place"} /\ Range(b) \subseteq Value \ {"none"}

TypeOK ==
    /\ kind \in Kind /\ writes \in 0 .. MaxWrites
    /\ raw \in [Field -> Value] /\ \A f \in Field : raw[f] \in Values(f)
    /\ known \subseteq Identity
    /\ DOMAIN configs = known
    /\ \A u \in DOMAIN board : \A t \in DOMAIN board[u] : PayloadOK(board[u][t])
    /\ DOMAIN shown \subseteq known

(* A record with a fix and a value in every field its kind has.              *)
Absent(k) ==
    {"crowdSourcedLocation"} \cup
    IF k = "item" THEN Flags \cup {"id", "baUUID", "deviceDisplayName", "batteryLevel"}
                  ELSE Role \cup {"identifier", "name", "productType"}

Usual(k) ==
    [f \in Field |->
        IF f \in Absent(k) THEN "none"
        ELSE IF f = "batteryLevel" THEN "half"
        ELSE IF f = "batteryStatus" /\ k = "item" THEN "zero"
        ELSE IF "text" \in Values(f) /\ f # "timeStamp" THEN "text"
        ELSE CHOOSE v \in {"many", "true", "dict"} : v \in Values(f)]

Init ==
    /\ kind \in Kind /\ raw = Usual(kind) /\ writes = 0
    /\ known = {} /\ configs = <<>> /\ board = <<>> /\ shown = <<>>

(* FindMy changes a field. *)
FindMyWrites ==
    /\ writes < MaxWrites /\ writes' = writes + 1
    /\ \E f \in Field : \E v \in Values(f) \ {raw[f]} : raw' = [raw EXCEPT ![f] = v]
    /\ UNCHANGED <<kind, known, configs, board, shown>>

(* f with the value v at x.                                                  *)
With(f, x, v) == [y \in DOMAIN f \cup {x} |-> IF y = x THEN v ELSE f[y]]

(* The empty payload takes what is retained off the topic.                   *)
Retained(old, new) ==
    LET both == [t \in DOMAIN old \cup DOMAIN new |-> IF t \in DOMAIN new THEN new[t] ELSE old[t]]
    IN  Restrict(both, {t \in DOMAIN both : both[t] # Plainly("")})

Of(f, u) == IF u \in DOMAIN f THEN f[u] ELSE <<>>

(* poll_once, for this record: nothing of it if it has no uuid or normalize  *)
(* raises; nothing but its configs, of a new one, if build_state raises.     *)
Poll ==
    LET u == Uuid(kind, raw)
    IN  /\ HasUuid(kind, raw) /\ ~NormalizeRaises(kind, raw)
        /\ known' = known \cup {u}
        /\ configs' = IF u \in known THEN configs ELSE With(configs, u, BuildDiscovery(kind))
        /\ IF BuildStateRaises(raw) THEN UNCHANGED <<board, shown>>
           ELSE /\ board' = With(board, u, Retained(Of(board, u), BuildState(kind, raw)))
                /\ shown' = With(shown, u, raw)
        /\ UNCHANGED <<kind, raw, writes>>

Next == FindMyWrites \/ Poll

Spec == Init /\ [][Next]_vars

-----------------------------------------------------------------------------
(* Every payload goes where a config of the same thing, that is out, says:   *)
(* values to a state topic, attributes to an attributes topic.  (The configs *)
(* go out once, by kind; the payloads at every poll, by value.)              *)
Announced ==
    \A u \in DOMAIN board : \A t \in DOMAIN board[u] :
        \E c \in configs[u] :
            IF DOMAIN board[u][t] = {"value"} THEN c.state = t ELSE c.attributes = t

(* Home Assistant gets what the config promises: a time, ON or OFF, and of   *)
(* accuracy and altitude a number.  The battery of a device is left out: its *)
(* config says measurement too, but it falls back to a text (entities.py:143). *)
FormsFit ==
    \A u \in DOMAIN board : \A c \in configs[u] :
        c.state \in DOMAIN board[u] =>
            LET v == board[u][c.state]["value"]
            IN  /\ c.form = "timestamp" => v = "iso"
                /\ c.form = "on/off" => v \in {"ON", "OFF"}
                /\ c.form = "measurement" /\ c.state # "battery" => v \in Numbers

(* The battery of a device shows a percentage whenever the level is one, 0   *)
(* included, although it has one topic with the status as a text; that of an *)
(* item never does.                                                          *)
BatteryShown ==
    \A u \in DOMAIN shown :
        LET level   == shown[u]["batteryLevel"]
            percent == "battery" \in DOMAIN board[u]
                          /\ board[u]["battery"]["value"] \in {"0%", "50%", "100%"}
        IN  IF kind = "item" THEN ~percent
            ELSE level \in {"zero", "half", "one"} => percent

(* The attributes of a thing's tracker are those of the last record that had *)
(* a latitude, as a whole: a record without one leaves them, position and    *)
(* all; another puts its own position there, never a coordinate of its own   *)
(* next to one of an earlier record.  (It takes the thing off the map if it  *)
(* has lost its longitude only: a fix to the code is a latitude,             *)
(* normalize.py:40.)  The time it was last seen is not taken away.           *)
KeepsLastFix ==
    [][\A u \in DOMAIN board :
          /\ "attrs" \in DOMAIN board[u] =>
                /\ "attrs" \in DOMAIN board'[u]
                /\ board'[u]["attrs"] # board[u]["attrs"] =>
                      /\ raw["latitude"] # "none"
                      /\ \A x \in {"latitude", "longitude"} :
                            IF raw[x] = "none" THEN x \notin DOMAIN board'[u]["attrs"]
                            ELSE x \in DOMAIN board'[u]["attrs"] /\ board'[u]["attrs"][x] = raw[x]
          /\ "last_seen" \in DOMAIN board[u] => "last_seen" \in DOMAIN board'[u]]_vars

(* Field f of the record last published is shown by some payload of it.      *)
Surfaced(u, f) ==
    \/ \E t \in DOMAIN board[u] : f \in DOMAIN board[u][t]
    \/ f \in DOMAIN board[u] \cup {"name", "identifier", "id"}
    \/ f = "timeStamp" /\ "last_seen" \in DOMAIN board[u]
    \/ f \in {"mapItemFullAddress", "label"} /\ "place" \in DOMAIN board[u]

(* Field f of record d has something to show: no None and no sentinel of     *)
(* Apple's, a time that is one, and of the two names of a place the first.   *)
Telling(d, f) ==
    /\ d[f] # "none"
    /\ f \in {"altitude", "verticalAccuracy", "floorLevel"} => d[f] # "negative"
    /\ f = "timeStamp" => d[f] = "many"
    /\ f \in {"mapItemFullAddress", "label"} => Truthy(d[f])
    /\ f = "label" => ~Truthy(d["mapItemFullAddress"])

(* With a fix, what Details leaves out as "already surfaced elsewhere"       *)
(* (fields.py:138-140) is: every field of the model is an attribute of the   *)
(* tracker or of Details, with its value of now, 0 and FALSE included.  Not  *)
(* so crowdSourcedLocation, and what only the config shows.                  *)
LocatedShowsAll ==
    \A u \in DOMAIN shown :
        \A f \in Field \ {"crowdSourcedLocation", "name", "identifier", "id"} :
            shown[u]["latitude"] # "none" /\ Telling(shown[u], f) =>
                LET a == IF f \in {"mapItemFullAddress", "label"} THEN "place" ELSE f
                    v == IF f = "timeStamp" THEN "iso"
                         ELSE IF shown[u][f] = "bytes" THEN "hex" ELSE shown[u][f]
                IN  \E t \in {"attrs", "details"} : a \in DOMAIN board[u][t] /\ board[u][t][a] = v

(* README.md:50-53: every field is a sensor or an attribute.                 *)
NothingDropped ==
    \A u \in DOMAIN shown : \A f \in Field :
        shown[u][f] \notin {"none", "negative", ""} => Surfaced(u, f)
=============================================================================
