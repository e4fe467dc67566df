--------------------------- MODULE RecordsProofs ---------------------------
(* Theorems about what becomes of the fields of a record (Records), for any   *)
(* number of writes: the strengthening they need is what each topic of a     *)
(* thing may ever hold, and that what the last poll published is still there. *)
EXTENDS Records, TLAPS

RecordOK(d) == d \in [Field -> Value] /\ \A f \in Field : d[f] \in Values(f)

(* The topics that a thing of kind k may have. *)
TopicsOf(k) == {"attrs", "details", "details_state", "battery"} \cup Sensors(k) \cup BinarySensors(k)

Percent == {"0%", "50%", "100%"}

(* What may be on topic t of a thing of kind k. *)
OnTopic(k, t, b) ==
    /\ t = "attrs"   => "latitude" \in DOMAIN b /\ DOMAIN b \subseteq TrackerFields
    /\ t = "details" => DOMAIN b \subseteq Field
    /\ t \notin {"attrs", "details"} => DOMAIN b = {"value"}
    /\ t = "last_seen" => b["value"] = "iso"
    /\ t \in BinarySensors(k) => b["value"] \in {"ON", "OFF"}
    /\ t \in {"horizontalAccuracy", "altitude"} => b["value"] \in Numbers
    /\ t = "battery" /\ k = "item" => b["value"] \notin Percent

-----------------------------------------------------------------------------
(* The operators. *)

LEMMA ValuesTyped == Shown \subseteq Value /\ \A f \in Field : Values(f) \subseteq Value
<1> DEFINE In == UNION {Values(f) : f \in Field}
<1>1. \A f \in Field : Values(f) \subseteq In
  OBVIOUS
<1>2. Value = Shown \cup In
  BY DEF Value
<1> HIDE DEF In
<1> QED
  BY <1>1, <1>2

LEMMA PlainlyHas == ASSUME NEW v PROVE DOMAIN Plainly(v) = {"value"} /\ Plainly(v)["value"] = v
  BY DEF Plainly

LEMMA PlainlyOK == ASSUME NEW v \in Value \ {"none"} PROVE PayloadOK(Plainly(v))
  BY DEF Plainly, PayloadOK, Range

LEMMA OrIs == ASSUME NEW a, NEW b PROVE Or(a, b) \in {a, b}
  BY DEF Or

LEMMA LabelIs == ASSUME NEW v PROVE Label(v) \in {v, "none"}
  BY DEF Label

LEMMA LastSeenIs == ASSUME NEW d PROVE LastSeen(d) \in {"iso", "none"}
  BY DEF LastSeen

LEMMA NoneIsValue == {"none", "iso", "label", "ON", "OFF", "hex", "0%", "50%", "100%", "many"} \subseteq Value
<1>1. Shown \cup Values("latitude") \subseteq Value
  BY ValuesTyped DEF Field, Position
<1> QED
  BY <1>1 DEF Values, Shown, Position, Identity, Named, Model, Role, Address, Plain, Flags

LEMMA ModelTyped == ASSUME NEW k, NEW d, RecordOK(d) PROVE ModelOf(k, d) \in Value
<1>1. /\ d["deviceModel"] \in Value /\ d["rawDeviceModel"] \in Value /\ d["modelDisplayName"] \in Value
      /\ d["productType"] \in Value /\ d["roleName"] \in Value
  BY DEF RecordOK, Field, Model, Role
<1>2. Or(Or(d["deviceModel"], d["rawDeviceModel"]), d["modelDisplayName"]) \in Value
  BY <1>1 DEF Or
<1>3. Label(d["roleName"]) \in Value
  BY <1>1, NoneIsValue DEF Label
<1> QED
  BY <1>1, <1>2, <1>3 DEF ModelOf

LEMMA PlaceTyped == ASSUME NEW d, RecordOK(d) PROVE Place(d) \in Value
<1>1. d["mapItemFullAddress"] \in Value /\ d["label"] \in Value
  BY DEF RecordOK, Field, Address
<1> QED
  BY <1>1 DEF Place, Or

(* A record without a usable level shows no percentage; an item never does.  *)
LEMMA BatteryTyped ==
    ASSUME NEW k \in Kind, NEW d, RecordOK(d)
    PROVE  /\ BatteryOf(k, d) \in Value
           /\ k = "item" => BatteryOf(k, d) \notin Percent
           /\ k = "device" /\ d["batteryLevel"] \in {"zero", "half", "one"}
                => BatteryOf(k, d) \in Percent
<1>1. d["batteryStatus"] \in Value
  BY DEF RecordOK, Field
<1>2. CASE k = "item"
  <2>1. BatteryOf(k, d) \in {"label", "many", "none"}
    BY <1>2 DEF BatteryOf, ItemText
  <2> QED
    BY <1>2, <2>1, NoneIsValue DEF Percent
<1>3. CASE k = "device"
  <2>1. DevicePercent(d["batteryLevel"]) \in Percent \cup {"none"}
    BY DEF DevicePercent, Percent
  <2>2. d["batteryLevel"] \in {"zero", "half", "one"} => DevicePercent(d["batteryLevel"]) \in Percent
    BY DEF DevicePercent, Percent
  <2>3. BatteryOf(k, d) \in {DevicePercent(d["batteryLevel"]), Label(d["batteryStatus"])}
    BY <1>3 DEF BatteryOf
  <2>4. Label(d["batteryStatus"]) \in Value
    BY <1>1, LabelIs, NoneIsValue
  <2>5. Percent \subseteq Value /\ "none" \notin Percent
    BY NoneIsValue DEF Percent
  <2>6. d["batteryLevel"] \in {"zero", "half", "one"} => BatteryOf(k, d) \in Percent
    BY <1>3, <2>2, <2>5 DEF BatteryOf
  <2> QED
    BY <1>3, <2>1, <2>3, <2>4, <2>5, <2>6, NoneIsValue
<1> QED
  BY <1>2, <1>3 DEF Kind

LEMMA SensorTyped ==
    ASSUME NEW k \in Kind, NEW d, RecordOK(d), NEW s \in Sensors(k)
    PROVE  /\ SensorValue(k, d, s) \in Value
           /\ s = "last_seen" => SensorValue(k, d, s) \in {"iso", "none"}
           /\ s \in {"horizontalAccuracy", "altitude"} => SensorValue(k, d, s) \in Numbers
<1>1. CASE s = "last_seen"
  <2>1. SensorValue(k, d, s) = LastSeen(d)
    BY <1>1 DEF SensorValue, Role
  <2> QED
    BY <1>1, <2>1, LastSeenIs, NoneIsValue
<1>2. CASE s = "place"
  <2>1. SensorValue(k, d, s) = Place(d)
    BY <1>2 DEF SensorValue, Role
  <2> QED
    BY <1>2, <2>1, PlaceTyped
<1>3. CASE s = "model"
  <2>1. SensorValue(k, d, s) = ModelOf(k, d)
    BY <1>3 DEF SensorValue, Role
  <2> QED
    BY <1>3, <2>1, ModelTyped
<1>4. CASE s \in Role
  <2>1. d[s] \in Value
    BY <1>4 DEF RecordOK, Field
  <2>2. Label(d[s]) \in Value
    BY <2>1, LabelIs, NoneIsValue
  <2>3. s \in {"emoji", "roleName"} /\ SensorValue(k, d, s) = Label(d[s])
    BY <1>4 DEF SensorValue, Role
  <2> QED
    BY <2>2, <2>3
<1>5. CASE s \notin Role \cup {"last_seen", "place", "model"}
  <2>1. s \in {"horizontalAccuracy", "altitude", "positionType", "serialNumber", "systemVersion",
               "batteryStatus", "deviceClass"}
    BY <1>5 DEF Sensors, Role
  <2>2. s \in Field /\ SensorValue(k, d, s) = d[s]
    BY <1>5, <2>1 DEF SensorValue, Field, Position, Plain
  <2>3. s = "horizontalAccuracy" => Values(s) = {"none", "zero", "many"}
    BY DEF Values, Identity, Named, Model, Role, Address, Plain, Flags
  <2>4. s = "altitude" => Values(s) = {"none", "negative", "many"}
    BY DEF Values, Identity, Named, Model, Role, Address, Plain, Flags
  <2> QED
    BY <1>5, <2>2, <2>3, <2>4 DEF RecordOK, Numbers
<1> QED
  BY <1>1, <1>2, <1>3, <1>4, <1>5

LEMMA CleanIs ==
    ASSUME NEW f
    PROVE  /\ DOMAIN Clean(f) = {a \in DOMAIN f : f[a] # "none" /\ ~(a \in NegSentinel /\ f[a] = "negative")}
           /\ \A a \in DOMAIN Clean(f) : Clean(f)[a] = f[a]
  BY DEF Clean, Restrict

LEMMA TrackerTyped ==
    ASSUME NEW k \in Kind, NEW d, RecordOK(d), NEW a \in TrackerFields
    PROVE  TrackerValue(k, d, a) \in Value
<1>1. CASE a = "timeStamp"
  <2>1. TrackerValue(k, d, a) = LastSeen(d)
    BY <1>1 DEF TrackerValue, Role
  <2> QED
    BY <2>1, LastSeenIs, NoneIsValue
<1>2. CASE a = "deviceModel"
  <2>1. TrackerValue(k, d, a) = ModelOf(k, d)
    BY <1>2 DEF TrackerValue, Role
  <2> QED
    BY <2>1, ModelTyped
<1>3. CASE a = "place"
  <2>1. TrackerValue(k, d, a) = Place(d)
    BY <1>3 DEF TrackerValue, Role
  <2> QED
    BY <2>1, PlaceTyped
<1>4. CASE a \in Role
  <2>1. TrackerValue(k, d, a) = Label(d[a])
    BY <1>4 DEF TrackerValue, Role
  <2>2. d[a] \in Value
    BY <1>4, ValuesTyped DEF RecordOK, Field
  <2> QED
    BY <2>1, <2>2, LabelIs, NoneIsValue
<1>5. CASE a \notin Role \cup {"timeStamp", "deviceModel", "place"}
  <2>1. TrackerValue(k, d, a) = d[a]
    BY <1>5 DEF TrackerValue
  <2>2. a \in Field
    BY <1>5 DEF TrackerFields, Field, Model, Plain, Address
  <2> QED
    BY <2>1, <2>2, ValuesTyped DEF RecordOK
<1> QED
  BY <1>1, <1>2, <1>3, <1>4, <1>5

(* The attributes of a located thing: among them the latitude, and each that *)
(* is neither None nor a sentinel.                                           *)
LEMMA TrackerFits ==
    ASSUME NEW k \in Kind, NEW d, RecordOK(d), HasFix(d)
    PROVE  LET b == TrackerAttributes(k, d)
           IN  /\ PayloadOK(b) /\ "latitude" \in DOMAIN b /\ DOMAIN b \subseteq TrackerFields
               /\ \A a \in TrackerFields :
                     LET v == TrackerValue(k, d, a)
                     IN  /\ v = "none" => a \notin DOMAIN b
                         /\ v # "none" /\ ~(a \in NegSentinel /\ v = "negative") =>
                               a \in DOMAIN b /\ b[a] = v
<1> DEFINE f == [a \in TrackerFields |-> TrackerValue(k, d, a)]
           b == TrackerAttributes(k, d)
<1>1. b = Clean(f)
  BY DEF TrackerAttributes
<1>2. DOMAIN f = TrackerFields /\ \A a \in TrackerFields : f[a] = TrackerValue(k, d, a) /\ f[a] \in Value
  BY TrackerTyped
<1> HIDE DEF f, b
<1>3. /\ DOMAIN b = {a \in DOMAIN f : f[a] # "none" /\ ~(a \in NegSentinel /\ f[a] = "negative")}
      /\ \A a \in DOMAIN b : b[a] = f[a]
  BY <1>1, CleanIs
<1>4. /\ DOMAIN b \subseteq TrackerFields
      /\ \A a \in DOMAIN b : b[a] \in Value \ {"none"}
      /\ \A a \in TrackerFields : f[a] # "none" /\ a \notin NegSentinel => a \in DOMAIN b
  BY <1>2, <1>3
<1>5. TrackerFields \subseteq Field \cup {"value", "place"}
  BY DEF TrackerFields, Field, Model, Plain, Address
<1>6. "latitude" \in TrackerFields /\ "latitude" \notin NegSentinel
  BY DEF TrackerFields, Position, NegSentinel
<1>7. TrackerValue(k, d, "latitude") = d["latitude"]
  BY DEF TrackerValue, Role
<1>8. "latitude" \in DOMAIN b
  BY <1>2, <1>4, <1>6, <1>7 DEF HasFix
<1>9. PayloadOK(b)
  BY <1>4, <1>5 DEF PayloadOK, Range
<1>10. ASSUME NEW a \in TrackerFields
       PROVE  /\ TrackerValue(k, d, a) = "none" => a \notin DOMAIN b
              /\ TrackerValue(k, d, a) # "none"
                   /\ ~(a \in NegSentinel /\ TrackerValue(k, d, a) = "negative")
                   => a \in DOMAIN b /\ b[a] = TrackerValue(k, d, a)
  BY <1>2, <1>3
<1> QED
  BY <1>4, <1>8, <1>9, <1>10 DEF b

LEMMA DetailsFits ==
    ASSUME NEW d, RecordOK(d)
    PROVE  LET b == DetailsAttributes(d)
           IN  /\ PayloadOK(b) /\ DOMAIN b \subseteq Field
               /\ \A f \in Field \ DetailsSkip :
                     d[f] # "none" =>
                        f \in DOMAIN b /\ b[f] = IF d[f] = "bytes" THEN "hex" ELSE d[f]
<1> DEFINE b == DetailsAttributes(d)
<1>1. /\ DOMAIN b = {g \in Field \ DetailsSkip : d[g] # "none"}
      /\ \A f \in DOMAIN b : b[f] = IF d[f] = "bytes" THEN "hex" ELSE d[f]
  BY DEF DetailsAttributes
<1>2. \A f \in DOMAIN b : b[f] \in Value \ {"none"}
  BY <1>1, ValuesTyped, NoneIsValue DEF RecordOK
<1>3. PayloadOK(b)
  BY <1>1, <1>2 DEF PayloadOK, Range
<1> QED
  BY <1>1, <1>3

LEMMA PublishedIs ==
    ASSUME NEW k \in Kind, NEW d
    PROVE  /\ Published(k, d) \subseteq TopicsOf(k)
           /\ "attrs" \in Published(k, d) <=> HasFix(d)
           /\ "battery" \in Published(k, d) <=> BatteryOf(k, d) # "none"
           /\ \A t \in Sensors(k) : t \in Published(k, d) <=> SensorValue(k, d, t) # "none"
           /\ \A t \in BinarySensors(k) : t \in Published(k, d) <=> d[t] # "none"
           /\ {"details", "details_state"} \subseteq Published(k, d)
  BY DEF Published, TopicsOf, Sensors, BinarySensors, Flags

(* What a poll puts on a topic may be there. *)
LEMMA PayloadFits ==
    ASSUME NEW k \in Kind, NEW d, RecordOK(d), NEW t \in Published(k, d)
    PROVE  t \in TopicsOf(k) /\ PayloadOK(Payload(k, d, t)) /\ OnTopic(k, t, Payload(k, d, t))
<1>1. t \in TopicsOf(k)
  BY PublishedIs
<1> USE DEF OnTopic
<1>2. CASE t = "attrs"
  <2>1. Payload(k, d, t) = TrackerAttributes(k, d)
    BY <1>2 DEF Payload, BinarySensors, Flags
  <2> QED
    BY <1>1, <1>2, <2>1, TrackerFits, PublishedIs DEF BinarySensors, Flags
<1>3. CASE t = "details"
  <2>1. Payload(k, d, t) = DetailsAttributes(d)
    BY <1>3 DEF Payload, BinarySensors, Flags
  <2> QED
    BY <1>1, <1>3, <2>1, DetailsFits DEF BinarySensors, Flags
<1>4. CASE t = "details_state"
  <2>1. Payload(k, d, t) = Plainly("label")
    BY <1>4 DEF Payload, BinarySensors, Flags
  <2> QED
    BY <1>1, <1>4, <2>1, PlainlyHas, PlainlyOK, NoneIsValue DEF BinarySensors, Flags
<1>5. CASE t = "battery"
  <2>1. Payload(k, d, t) = Plainly(BatteryOf(k, d))
    BY <1>5 DEF Payload, BinarySensors, Flags
  <2>2. BatteryOf(k, d) # "none"
    BY <1>5, PublishedIs
  <2> QED
    BY <1>1, <1>5, <2>1, <2>2, PlainlyHas, PlainlyOK, BatteryTyped DEF BinarySensors, Flags
<1>6. CASE t \in BinarySensors(k)
  <2>1. t \in BinarySensors("device") /\ t \notin {"attrs", "details", "details_state", "battery",
                                                 "last_seen", "horizontalAccuracy", "altitude"}
    BY <1>6 DEF BinarySensors, Flags
  <2>2. Payload(k, d, t) = Plainly(IF Truthy(d[t]) THEN "ON" ELSE "OFF")
    BY <2>1 DEF Payload
  <2> QED
    BY <1>1, <1>6, <2>1, <2>2, PlainlyHas, PlainlyOK, NoneIsValue
<1>7. CASE t \in Sensors(k)
  <2>1. t \notin BinarySensors("device") \cup {"attrs", "details", "details_state", "battery"}
    BY <1>7 DEF Sensors, BinarySensors, Flags
  <2>2. t \notin BinarySensors(k)
    BY <2>1 DEF BinarySensors
  <2>3. Payload(k, d, t) = Plainly(SensorValue(k, d, t))
    BY <2>1 DEF Payload
  <2>4. SensorValue(k, d, t) # "none"
    BY <1>7, PublishedIs
  <2> QED
    BY <1>1, <1>7, <2>1, <2>2, <2>3, <2>4, PlainlyHas, PlainlyOK, SensorTyped
<1> QED
  BY <1>1, <1>2, <1>3, <1>4, <1>5, <1>6, <1>7 DEF TopicsOf

-----------------------------------------------------------------------------
(* The invariant: a thing has the configs of its kind and only topics and    *)
(* payloads that go with them; what the last complete poll published of it   *)
(* is still there, but for the empty payloads, which take a topic off.       *)
BoardInv ==
    /\ \A u \in known : configs[u] = BuildDiscovery(kind)
    /\ DOMAIN board \subseteq known
    /\ \A u \in DOMAIN board : \A t \in DOMAIN board[u] :
          t \in TopicsOf(kind) /\ OnTopic(kind, t, board[u][t])

ShownInv ==
    /\ DOMAIN shown \subseteq DOMAIN board
    /\ \A u \in DOMAIN shown :
          /\ RecordOK(shown[u])
          /\ \A t \in Published(kind, shown[u]) :
                Payload(kind, shown[u], t) # Plainly("")
                    => t \in DOMAIN board[u] /\ board[u][t] = Payload(kind, shown[u], t)

RecordsInv == TypeOK /\ BoardInv /\ ShownInv

LEMMA RetainedIs ==
    ASSUME NEW old, NEW new
    PROVE  LET both(t) == IF t \in DOMAIN new THEN new[t] ELSE old[t]
           IN  /\ DOMAIN Retained(old, new) =
                    {t \in DOMAIN old \cup DOMAIN new : both(t) # Plainly("")}
               /\ \A t \in DOMAIN Retained(old, new) : Retained(old, new)[t] = both(t)
<1> DEFINE both == [t \in DOMAIN old \cup DOMAIN new |-> IF t \in DOMAIN new THEN new[t] ELSE old[t]]
<1>1. /\ DOMAIN both = DOMAIN old \cup DOMAIN new
      /\ \A t \in DOMAIN both : both[t] = IF t \in DOMAIN new THEN new[t] ELSE old[t]
  OBVIOUS
<1>2. Retained(old, new) = Restrict(both, {t \in DOMAIN both : both[t] # Plainly("")})
  BY DEF Retained
<1> HIDE DEF both
<1> QED
  BY <1>1, <1>2 DEF Restrict

LEMMA UsualTyped == ASSUME NEW k \in Kind PROVE RecordOK(Usual(k))
<1>1. \A f \in Field : /\ "none" \in Values(f)
                       /\ "text" \in Values(f) \/ \E v \in {"many", "true", "dict"} : v \in Values(f)
  <2> SUFFICES ASSUME NEW f \in Field
               PROVE  "none" \in Values(f) /\ \E v \in {"text", "many", "true", "dict"} : v \in Values(f)
    OBVIOUS
  <2> USE DEF Values, Identity, Named, Model, Role, Plain, Flags, Address, Texts, Bools, Numbers
  <2>1. CASE f \in Identity \cup Named \cup Plain
    BY <2>1
  <2>2. CASE f \in Model \cup Role \cup Address
    BY <2>2
  <2>3. CASE f \in Flags
    BY <2>3
  <2>4. CASE f \in Position
    BY <2>4 DEF Position
  <2>5. CASE f \in {"batteryLevel", "batteryStatus", "crowdSourcedLocation", "features"}
    BY <2>5
  <2> QED
    BY <2>1, <2>2, <2>3, <2>4, <2>5 DEF Field
<1>2. "half" \in Values("batteryLevel") /\ "zero" \in Values("batteryStatus")
  BY DEF Values, Identity, Named, Model, Role, Plain, Flags, Position, Address, Numbers
<1>3. \A f \in Field : Usual(k)[f] \in Values(f)
  <2> SUFFICES ASSUME NEW f \in Field PROVE Usual(k)[f] \in Values(f)
    OBVIOUS
  <2>1. CASE f \in Absent(k)
    BY <1>1, <2>1 DEF Usual
  <2>2. CASE f \notin Absent(k) /\ f = "batteryLevel"
    BY <1>2, <2>2 DEF Usual
  <2>3. CASE f \notin Absent(k) /\ f = "batteryStatus" /\ k = "item"
    BY <1>2, <2>3 DEF Usual
  <2>4. CASE f \notin Absent(k) /\ f # "batteryLevel" /\ ~(f = "batteryStatus" /\ k = "item")
    <3>1. CASE "text" \in Values(f) /\ f # "timeStamp"
      BY <2>4, <3>1 DEF Usual
    <3>2. CASE ~("text" \in Values(f) /\ f # "timeStamp")
      <4>1. \E v \in {"many", "true", "dict"} : v \in Values(f)
        BY <1>1, <3>2 DEF Values, Identity, Named, Model, Role, Plain, Flags, Position, Address
      <4>2. Usual(k)[f] = CHOOSE v \in {"many", "true", "dict"} : v \in Values(f)
        BY <2>4, <3>2 DEF Usual
      <4> QED
        BY <4>1, <4>2
    <3> QED
      BY <3>1, <3>2
  <2> QED
    BY <2>1, <2>2, <2>3, <2>4
<1>4. Usual(k) \in [Field -> Value]
  <2>1. Usual(k) = [f \in Field |-> Usual(k)[f]]
    BY DEF Usual
  <2> QED
    BY <1>3, <2>1, ValuesTyped
<1> QED
  BY <1>3, <1>4 DEF RecordOK

LEMMA RecordsInit == Init => RecordsInv
<1> SUFFICES ASSUME Init PROVE RecordsInv
  OBVIOUS
<1>1. RecordOK(raw) /\ kind \in Kind
  BY UsualTyped DEF Init
<1>2. known = {} /\ DOMAIN configs = {} /\ DOMAIN board = {} /\ DOMAIN shown = {}
  BY DEF Init
<1>3. writes \in 0 .. MaxWrites
  BY RecordsConstants DEF Init
<1> QED
  BY <1>1, <1>2, <1>3 DEF RecordsInv, TypeOK, BoardInv, ShownInv, RecordOK

-----------------------------------------------------------------------------
(* A complete poll of the record.  What was on a topic stays there, unless   *)
(* the record has a payload for it.                                          *)
LEMMA OfBoard ==
    ASSUME RecordsInv, NEW u, NEW t \in DOMAIN Of(board, u)
    PROVE  u \in DOMAIN board /\ t \in DOMAIN board[u] /\ Of(board, u)[t] = board[u][t]
<1>1. u \in DOMAIN board
  BY DEF Of
<1> QED
  BY <1>1 DEF Of

LEMMA BuildStateIs ==
    ASSUME NEW k, NEW d
    PROVE  /\ DOMAIN BuildState(k, d) = Published(k, d)
           /\ \A t \in Published(k, d) : BuildState(k, d)[t] = Payload(k, d, t)
  BY DEF BuildState

LEMMA PolledThing ==
    ASSUME RecordsInv, NEW u
    PROVE  LET b == Retained(Of(board, u), BuildState(kind, raw))
           IN  /\ \A t \in DOMAIN b : /\ t \in TopicsOf(kind) /\ OnTopic(kind, t, b[t])
                                      /\ PayloadOK(b[t])
               /\ \A t \in Published(kind, raw) :
                     Payload(kind, raw, t) # Plainly("") => t \in DOMAIN b /\ b[t] = Payload(kind, raw, t)
               /\ u \in DOMAIN board => \A t \in DOMAIN board[u] \ Published(kind, raw) :
                     board[u][t] # Plainly("") => t \in DOMAIN b /\ b[t] = board[u][t]
<1> DEFINE old == Of(board, u)
           new == BuildState(kind, raw)
           b   == Retained(old, new)
<1>1. kind \in Kind /\ RecordOK(raw)
  BY DEF RecordsInv, TypeOK, RecordOK
<1>2. DOMAIN new = Published(kind, raw) /\ \A t \in DOMAIN new : new[t] = Payload(kind, raw, t)
  BY BuildStateIs
<1>3. \A t \in DOMAIN new : t \in TopicsOf(kind) /\ PayloadOK(new[t]) /\ OnTopic(kind, t, new[t])
  BY <1>1, <1>2, PayloadFits
<1>4. \A t \in DOMAIN old : t \in TopicsOf(kind) /\ PayloadOK(old[t]) /\ OnTopic(kind, t, old[t])
  BY OfBoard DEF RecordsInv, BoardInv, TypeOK
<1>5. u \in DOMAIN board => old = board[u]
  BY DEF Of
<1> HIDE DEF old, new
<1>6. /\ DOMAIN b = {t \in DOMAIN old \cup DOMAIN new :
                        (IF t \in DOMAIN new THEN new[t] ELSE old[t]) # Plainly("")}
      /\ \A t \in DOMAIN b : b[t] = IF t \in DOMAIN new THEN new[t] ELSE old[t]
  BY RetainedIs
<1> HIDE DEF b
<1>7. \A t \in DOMAIN b : t \in TopicsOf(kind) /\ OnTopic(kind, t, b[t]) /\ PayloadOK(b[t])
  BY <1>3, <1>4, <1>6
<1>8. \A t \in Published(kind, raw) :
          Payload(kind, raw, t) # Plainly("") => t \in DOMAIN b /\ b[t] = Payload(kind, raw, t)
  BY <1>2, <1>6
<1>9. u \in DOMAIN board => \A t \in DOMAIN board[u] \ Published(kind, raw) :
          board[u][t] # Plainly("") => t \in DOMAIN b /\ b[t] = board[u][t]
  BY <1>2, <1>5, <1>6
<1> QED
  BY <1>7, <1>8, <1>9 DEF b, old, new

LEMMA PollStep == ASSUME RecordsInv, Poll PROVE RecordsInv'
<1> DEFINE u == Uuid(kind, raw)
           b == Retained(Of(board, u), BuildState(kind, raw))
<1>1. kind' = kind /\ raw' = raw /\ writes' = writes
  BY DEF Poll
<1>2. known' = known \cup {u} /\ u \in Identity
  BY DEF Poll, Uuid, Identity
<1>3. configs' = IF u \in known THEN configs ELSE With(configs, u, BuildDiscovery(kind))
  BY DEF Poll
<1>4. DOMAIN configs' = known' /\ \A v \in known' : configs'[v] = BuildDiscovery(kind)
  <2>1. CASE u \in known
    BY <1>2, <1>3, <2>1 DEF RecordsInv, TypeOK, BoardInv
  <2>2. CASE u \notin known
    <3>1. configs' = With(configs, u, BuildDiscovery(kind)) /\ DOMAIN configs = known
      BY <1>3, <2>2 DEF RecordsInv, TypeOK
    <3> QED
      BY <1>2, <3>1 DEF With, RecordsInv, BoardInv
  <2> QED
    BY <2>1, <2>2
<1>5. CASE BuildStateRaises(raw)
  <2>1. board' = board /\ shown' = shown
    BY <1>5 DEF Poll
  <2>2. TypeOK'
    BY <1>1, <1>2, <1>4, <2>1 DEF RecordsInv, TypeOK
  <2>3. BoardInv' /\ ShownInv'
    BY <1>1, <1>2, <1>4, <2>1 DEF RecordsInv, BoardInv, ShownInv
  <2> QED
    BY <2>2, <2>3 DEF RecordsInv
<1>6. CASE ~BuildStateRaises(raw)
  <2>1. board' = With(board, u, b) /\ shown' = With(shown, u, raw)
    BY <1>6 DEF Poll
  <2>2. /\ \A t \in DOMAIN b : t \in TopicsOf(kind) /\ OnTopic(kind, t, b[t]) /\ PayloadOK(b[t])
        /\ \A t \in Published(kind, raw) :
              Payload(kind, raw, t) # Plainly("") => t \in DOMAIN b /\ b[t] = Payload(kind, raw, t)
    BY PolledThing
  <2> HIDE DEF b, u
  <2>3. /\ DOMAIN board' = DOMAIN board \cup {u} /\ board'[u] = b
        /\ \A v \in DOMAIN board : v # u => board'[v] = board[v]
    BY <2>1 DEF With
  <2>4. /\ DOMAIN shown' = DOMAIN shown \cup {u} /\ shown'[u] = raw
        /\ \A v \in DOMAIN shown : v # u => shown'[v] = shown[v]
    BY <2>1 DEF With
  <2>5. TypeOK'
    <3>1. \A v \in DOMAIN board' : \A t \in DOMAIN board'[v] : PayloadOK(board'[v][t])
      BY <2>2, <2>3 DEF RecordsInv, TypeOK
    <3>2. DOMAIN shown' \subseteq known'
      BY <1>2, <2>4 DEF RecordsInv, TypeOK
    <3> QED
      BY <1>1, <1>2, <1>4, <3>1, <3>2 DEF RecordsInv, TypeOK
  <2>6. BoardInv'
    <3>1. DOMAIN board' \subseteq known'
      BY <1>2, <2>3 DEF RecordsInv, BoardInv
    <3>2. \A v \in DOMAIN board' : \A t \in DOMAIN board'[v] :
              t \in TopicsOf(kind) /\ OnTopic(kind, t, board'[v][t])
      BY <2>2, <2>3 DEF RecordsInv, BoardInv
    <3> QED
      BY <1>1, <1>4, <3>1, <3>2 DEF BoardInv
  <2>7. ShownInv'
    <3>1. DOMAIN shown' \subseteq DOMAIN board'
      BY <2>3, <2>4 DEF RecordsInv, ShownInv
    <3>2. \A v \in DOMAIN shown' : RecordOK(shown'[v])
      BY <2>4 DEF RecordsInv, ShownInv, TypeOK, RecordOK
    <3>3. ASSUME NEW v \in DOMAIN shown', NEW t \in Published(kind, shown'[v]),
                 Payload(kind, shown'[v], t) # Plainly("")
          PROVE  t \in DOMAIN board'[v] /\ board'[v][t] = Payload(kind, shown'[v], t)
      <4>1. CASE v = u
        BY <2>2, <2>3, <2>4, <3>3, <4>1
      <4>2. CASE v # u
        <5>1. v \in DOMAIN shown /\ shown'[v] = shown[v] /\ v \in DOMAIN board /\ board'[v] = board[v]
          BY <2>3, <2>4, <4>2 DEF RecordsInv, ShownInv
        <5> QED
          BY <3>3, <5>1 DEF RecordsInv, ShownInv
      <4> QED
        BY <4>1, <4>2
    <3> QED
      BY <1>1, <3>1, <3>2, <3>3 DEF ShownInv
  <2> QED
    BY <2>5, <2>6, <2>7 DEF RecordsInv
<1> QED
  BY <1>5, <1>6

LEMMA RecordsStep == ASSUME RecordsInv, [Next]_vars PROVE RecordsInv'
<1>1. CASE FindMyWrites
  <2>1. UNCHANGED <<kind, known, configs, board, shown>> /\ writes' \in 0 .. MaxWrites
    BY <1>1, RecordsConstants DEF FindMyWrites, RecordsInv, TypeOK
  <2>2. RecordOK(raw')
    <3>1. PICK f \in Field : \E v \in Values(f) \ {raw[f]} : raw' = [raw EXCEPT ![f] = v]
      BY <1>1 DEF FindMyWrites
    <3>2. PICK v \in Values(f) \ {raw[f]} : raw' = [raw EXCEPT ![f] = v]
      BY <3>1
    <3>3. v \in Value
      BY ValuesTyped
    <3> QED
      BY <3>2, <3>3 DEF RecordsInv, TypeOK, RecordOK
  <2>3. TypeOK'
    BY <2>1, <2>2 DEF RecordsInv, TypeOK, RecordOK
  <2> QED
    BY <2>1, <2>3 DEF RecordsInv, BoardInv, ShownInv
<1>2. CASE Poll
  BY <1>2, PollStep
<1>3. CASE UNCHANGED vars
  BY <1>3 DEF vars, RecordsInv, TypeOK, BoardInv, ShownInv
<1> QED
  BY <1>1, <1>2, <1>3 DEF Next

LEMMA RecordsHold == Spec => []RecordsInv
<1>1. RecordsInv /\ [Next]_vars => RecordsInv'
  BY RecordsStep
<1> QED
  BY <1>1, RecordsInit, PTL DEF Spec

-----------------------------------------------------------------------------
(* The record, what is retained and what was shown stay within their types,  *)
(* and no payload holds a None, whatever FindMy writes.                      *)
THEOREM RecordsTyped == Spec => []TypeOK
<1>1. RecordsInv => TypeOK
  BY DEF RecordsInv
<1> QED
  BY <1>1, RecordsHold, PTL

(* Every payload that is retained, from whichever poll, goes where a config  *)
(* of the same thing says: values to its state topic, attributes to its      *)
(* attributes topic.                                                         *)
THEOREM AnnouncedHolds == Spec => []Announced
<1>1. ASSUME RecordsInv, NEW u \in DOMAIN board, NEW t \in DOMAIN board[u]
      PROVE  \E c \in configs[u] :
                IF DOMAIN board[u][t] = {"value"} THEN c.state = t ELSE c.attributes = t
  <2>1. configs[u] = BuildDiscovery(kind) /\ t \in TopicsOf(kind) /\ OnTopic(kind, t, board[u][t])
    BY <1>1 DEF RecordsInv, BoardInv
  <2>2. CASE t = "attrs"
    <3>1. DOMAIN board[u][t] # {"value"}
      BY <2>1, <2>2 DEF OnTopic
    <3>2. Discovery("device_tracker", "none", "attrs", "any") \in configs[u]
      BY <2>1 DEF BuildDiscovery
    <3> QED
      BY <2>2, <3>1, <3>2 DEF Discovery
  <2>3. CASE t = "details"
    <3>1. DOMAIN board[u][t] # {"value"}
      BY <2>1, <2>3 DEF OnTopic, Field, Identity, Named, Model, Role, Plain, Flags, Position, Address
    <3>2. Discovery("sensor", "details_state", "details", "any") \in configs[u]
      BY <2>1 DEF BuildDiscovery
    <3> QED
      BY <2>3, <3>1, <3>2 DEF Discovery
  <2>4. CASE t \notin {"attrs", "details"}
    <3>1. DOMAIN board[u][t] = {"value"}
      BY <2>1, <2>4 DEF OnTopic
    <3>2. \E c \in BuildDiscovery(kind) : c.state = t
      <4>1. CASE t = "battery"
        <5>1. \E form : Discovery("sensor", "battery", "none", form) \in BuildDiscovery(kind)
          BY DEF BuildDiscovery
        <5> QED
          BY <4>1, <5>1 DEF Discovery
      <4>2. CASE t = "details_state"
        <5>1. Discovery("sensor", "details_state", "details", "any") \in BuildDiscovery(kind)
          BY DEF BuildDiscovery
        <5> QED
          BY <4>2, <5>1 DEF Discovery
      <4>3. CASE t \in Sensors(kind)
        <5>1. Discovery("sensor", t, "none", SensorForm(t)) \in BuildDiscovery(kind)
          BY <4>3 DEF BuildDiscovery
        <5> QED
          BY <5>1 DEF Discovery
      <4>4. CASE t \in BinarySensors(kind)
        <5>1. Discovery("binary_sensor", t, "none", "on/off") \in BuildDiscovery(kind)
          BY <4>4 DEF BuildDiscovery
        <5> QED
          BY <5>1 DEF Discovery
      <4> QED
        BY <2>1, <2>4, <4>1, <4>2, <4>3, <4>4 DEF TopicsOf
    <3> QED
      BY <2>1, <3>1, <3>2
  <2> QED
    BY <2>2, <2>3, <2>4
<1>2. RecordsInv => Announced
  BY <1>1 DEF Announced
<1> QED
  BY <1>2, RecordsHold, PTL

(* A config that promises a time, ON or OFF, or a number gets nothing else   *)
(* on its topic, from any poll.                                              *)
THEOREM FormsFitHolds == Spec => []FormsFit
<1>1. ASSUME RecordsInv, NEW u \in DOMAIN board, NEW c \in configs[u], c.state \in DOMAIN board[u]
      PROVE  LET v == board[u][c.state]["value"]
             IN  /\ c.form = "timestamp" => v = "iso"
                 /\ c.form = "on/off" => v \in {"ON", "OFF"}
                 /\ c.form = "measurement" /\ c.state # "battery" => v \in Numbers
  <2>1. c \in BuildDiscovery(kind) /\ OnTopic(kind, c.state, board[u][c.state])
    BY <1>1 DEF RecordsInv, BoardInv
  <2>2. CASE \E s \in Sensors(kind) : c = Discovery("sensor", s, "none", SensorForm(s))
    <3>1. PICK s \in Sensors(kind) : c = Discovery("sensor", s, "none", SensorForm(s))
      BY <2>2
    <3>2. c.state = s /\ c.form = SensorForm(s)
      BY <3>1 DEF Discovery
    <3>3. CASE s = "last_seen"
      BY <2>1, <3>2, <3>3 DEF SensorForm, OnTopic
    <3>4. CASE s \in {"horizontalAccuracy", "altitude"}
      BY <2>1, <3>2, <3>4 DEF SensorForm, OnTopic
    <3>5. CASE s \notin {"last_seen", "horizontalAccuracy", "altitude"}
      BY <3>2, <3>5 DEF SensorForm
    <3> QED
      BY <3>3, <3>4, <3>5
  <2>3. CASE \E s \in BinarySensors(kind) : c = Discovery("binary_sensor", s, "none", "on/off")
    <3>1. PICK s \in BinarySensors(kind) : c = Discovery("binary_sensor", s, "none", "on/off")
      BY <2>3
    <3>2. c.state = s /\ c.form = "on/off"
      BY <3>1 DEF Discovery
    <3> QED
      BY <2>1, <3>2 DEF OnTopic
  <2>4. CASE c.form = "any" \/ (c.state = "battery" /\ c.form = "measurement")
    BY <2>4
  <2> QED
    BY <2>1, <2>2, <2>3, <2>4 DEF BuildDiscovery, Discovery
<1>2. RecordsInv => FormsFit
  BY <1>1 DEF FormsFit
<1> QED
  BY <1>2, RecordsHold, PTL

(* A device whose level is a fraction, 0 included, shows a percentage; an    *)
(* item never does, nor keeps one from an earlier poll.                      *)
THEOREM BatteryShownHolds == Spec => []BatteryShown
<1>1. ASSUME RecordsInv, NEW u \in DOMAIN shown, kind = "item", "battery" \in DOMAIN board[u]
      PROVE  board[u]["battery"]["value"] \notin Percent
  <2>1. u \in DOMAIN board
    BY <1>1 DEF RecordsInv, ShownInv
  <2> QED
    BY <1>1, <2>1 DEF RecordsInv, BoardInv, OnTopic
<1>2. ASSUME RecordsInv, NEW u \in DOMAIN shown, kind # "item",
             shown[u]["batteryLevel"] \in {"zero", "half", "one"}
      PROVE  "battery" \in DOMAIN board[u] /\ board[u]["battery"]["value"] \in Percent
  <2> DEFINE v == BatteryOf(kind, shown[u])
  <2>1. kind \in Kind /\ kind = "device" /\ RecordOK(shown[u])
    BY <1>2 DEF RecordsInv, TypeOK, ShownInv, Kind
  <2>2. v \in Percent
    BY <1>2, <2>1, BatteryTyped
  <2>3. "battery" \in Published(kind, shown[u])
    BY <2>1, <2>2, PublishedIs DEF Percent
  <2>4. Payload(kind, shown[u], "battery") = Plainly(v)
    BY DEF Payload, BinarySensors, Flags
  <2>5. Plainly(v)["value"] = v /\ Plainly("")["value"] = "" /\ v # ""
    BY <2>2, PlainlyHas DEF Percent
  <2> HIDE DEF v
  <2>6. "battery" \in DOMAIN board[u] /\ board[u]["battery"] = Plainly(v)
    BY <1>2, <2>3, <2>4, <2>5 DEF RecordsInv, ShownInv
  <2> QED
    BY <2>2, <2>5, <2>6
<1>3. RecordsInv => BatteryShown
  BY <1>1, <1>2 DEF BatteryShown, Percent
<1> QED
  BY <1>3, RecordsHold, PTL

(* What Details of a thing is: the attributes of the record last published.  *)
LEMMA DetailsShown ==
    ASSUME RecordsInv, NEW u \in DOMAIN shown
    PROVE  board[u]["details"] = DetailsAttributes(shown[u])
<1> DEFINE b == DetailsAttributes(shown[u])
<1>1. kind \in Kind /\ RecordOK(shown[u])
  BY DEF RecordsInv, TypeOK, ShownInv
<1>2. "details" \in Published(kind, shown[u])
  BY <1>1, PublishedIs
<1>3. Payload(kind, shown[u], "details") = b
  BY DEF Payload, BinarySensors, Flags
<1>4. DOMAIN b \subseteq Field
  BY <1>1, DetailsFits
<1> HIDE DEF b
<1>5. b # Plainly("")
  BY <1>4, PlainlyHas DEF Field, Identity, Named, Model, Role, Plain, Flags, Position, Address
<1>6. board[u]["details"] = b
  BY <1>2, <1>3, <1>5 DEF RecordsInv, ShownInv
<1> QED
  BY <1>6 DEF b

(* Bytes occur among the raw fields only. *)
LEMMA NoBytes == \A f \in Position \cup Address : "bytes" \notin Values(f)
<1> SUFFICES ASSUME NEW f \in Position \cup Address PROVE "bytes" \notin Values(f)
  OBVIOUS
<1>1. CASE f \in Address \cup {"positionType"}
  BY <1>1 DEF Values, Texts, Identity, Named, Model, Role, Address, Plain, Flags
<1>2. CASE f \in {"isInaccurate", "isOld", "locationFinished"}
  BY <1>2 DEF Values, Bools, Identity, Named, Model, Role, Address, Plain
<1>3. CASE f \in {"altitude", "verticalAccuracy", "floorLevel"}
  BY <1>3 DEF Values, Identity, Named, Model, Role, Address, Plain, Flags
<1>4. CASE f \in {"latitude", "longitude", "horizontalAccuracy"}
  BY <1>4 DEF Values, Identity, Named, Model, Role, Address, Plain, Flags
<1>5. CASE f = "timeStamp"
  BY <1>5 DEF Values, Identity, Named, Model, Role, Address, Plain, Flags
<1> QED
  BY <1>1, <1>2, <1>3, <1>4, <1>5 DEF Position

(* What the tracker of a thing shows: the attributes of the record last      *)
(* published, if that had a fix.                                             *)
LEMMA TrackerShown ==
    ASSUME RecordsInv, NEW u \in DOMAIN shown, HasFix(shown[u])
    PROVE  board[u]["attrs"] = TrackerAttributes(kind, shown[u])
<1> DEFINE b == TrackerAttributes(kind, shown[u])
<1>1. kind \in Kind /\ RecordOK(shown[u])
  BY DEF RecordsInv, TypeOK, ShownInv
<1>2. "attrs" \in Published(kind, shown[u])
  BY <1>1, PublishedIs
<1>3. Payload(kind, shown[u], "attrs") = b
  BY DEF Payload, BinarySensors, Flags
<1>4. "latitude" \in DOMAIN b
  BY <1>1, TrackerFits
<1> HIDE DEF b
<1>5. b # Plainly("")
  <2> SUFFICES ASSUME b = Plainly("") PROVE FALSE
    OBVIOUS
  <2>1. "latitude" \in DOMAIN Plainly("") /\ DOMAIN Plainly("") = {"value"}
    BY <1>4, PlainlyHas
  <2>2. "latitude" \in {"value"}
    BY <2>1
  <2> QED
    BY ONLY <2>2
<1>6. board[u]["attrs"] = b
  BY <1>2, <1>3, <1>5 DEF RecordsInv, ShownInv
<1> QED
  BY <1>6 DEF b

(* With a fix, every field of the record that has something to show is an    *)
(* attribute of the tracker or of Details, with the value it had at the last *)
(* complete poll: the two tables leave nothing between them.                 *)
THEOREM LocatedShowsAllHolds == Spec => []LocatedShowsAll
<1> DEFINE Name(f) == IF f \in {"mapItemFullAddress", "label"} THEN "place" ELSE f
           Face(u, f) == IF f = "timeStamp" THEN "iso"
                         ELSE IF shown[u][f] = "bytes" THEN "hex" ELSE shown[u][f]
           Skipped == {"crowdSourcedLocation", "name", "identifier", "id"}
<1>1. ASSUME RecordsInv, NEW u \in DOMAIN shown, NEW f \in Field \ Skipped,
             shown[u]["latitude"] # "none", Telling(shown[u], f)
      PROVE  \E t \in {"attrs", "details"} :
                Name(f) \in DOMAIN board[u][t] /\ board[u][t][Name(f)] = Face(u, f)
  <2> DEFINE d == shown[u]
             b == TrackerAttributes(kind, d)
  <2>1. kind \in Kind /\ RecordOK(d) /\ HasFix(d)
    BY <1>1 DEF RecordsInv, TypeOK, ShownInv, HasFix
  <2>2. d[f] # "none"
    BY <1>1 DEF Telling
  <2>3. CASE f \notin DetailsSkip
    <3>1. Name(f) = f /\ f # "timeStamp"
      BY <2>3 DEF DetailsSkip, Address, Position
    <3>2. f \in DOMAIN board[u]["details"] /\ board[u]["details"][f] = Face(u, f)
      BY <1>1, <2>1, <2>2, <2>3, <3>1, DetailsFits, DetailsShown
    <3> QED
      BY <3>1, <3>2
  <2>4. CASE f \in DetailsSkip
    <3>1. f \in Position \cup Address
      BY <2>4 DEF DetailsSkip
    <3>2. Name(f) \in TrackerFields
      BY <3>1 DEF TrackerFields, Address
    <3>3. TrackerValue(kind, d, Name(f)) = Face(u, f)
      <4>1. CASE f = "timeStamp"
        <5>1. d[f] = "many" /\ Name(f) = "timeStamp"
          BY <1>1, <4>1 DEF Telling
        <5>2. TrackerValue(kind, d, "timeStamp") = LastSeen(d)
          BY DEF TrackerValue, Role
        <5>3. LastSeen(d) = "iso"
          BY <4>1, <5>1 DEF LastSeen
        <5> QED
          BY <4>1, <5>1, <5>2, <5>3
      <4>2. CASE f \in {"mapItemFullAddress", "label"}
        <5>1. Place(d) = d[f]
          BY <1>1, <4>2 DEF Telling, Place, Or
        <5>2. TrackerValue(kind, d, "place") = Place(d)
          BY DEF TrackerValue, Role
        <5>3. d[f] # "bytes"
          BY <2>1, <3>1, NoBytes DEF RecordOK, Field
        <5> QED
          BY <4>2, <5>1, <5>2, <5>3
      <4>3. CASE f \notin {"timeStamp", "mapItemFullAddress", "label"}
        <5>1. Name(f) = f /\ f \notin Role \cup {"timeStamp", "deviceModel", "place"}
          BY <3>1, <4>3 DEF Role, Position, Address
        <5>2. TrackerValue(kind, d, f) = d[f]
          BY <5>1 DEF TrackerValue
        <5>3. d[f] # "bytes"
          BY <2>1, <3>1, NoBytes DEF RecordOK, Field
        <5> QED
          BY <4>3, <5>1, <5>2, <5>3
      <4> QED
        BY <4>1, <4>2, <4>3
    <3>4. Face(u, f) # "none"
      BY <2>2
    <3>5. ~(Name(f) \in NegSentinel /\ Face(u, f) = "negative")
      BY <1>1 DEF Telling, NegSentinel
    <3>6. Name(f) \in DOMAIN b /\ b[Name(f)] = Face(u, f)
      <4> HIDE DEF Name, Face
      <4> QED
        BY <2>1, <3>2, <3>3, <3>4, <3>5, TrackerFits
    <3>7. board[u]["attrs"] = b
      BY <1>1, <2>1, TrackerShown
    <3> QED
      BY <3>6, <3>7
  <2> QED
    BY <2>3, <2>4
<1>2. RecordsInv => LocatedShowsAll
  BY <1>1 DEF LocatedShowsAll
<1> QED
  BY <1>2, RecordsHold, PTL

(* The tracker of a thing shows the last record that had a latitude as a     *)
(* whole, and the time it was last seen is not taken away: for any changes   *)
(* of the record.                                                            *)
THEOREM KeepsLastFixHolds == Spec => KeepsLastFix
<1> DEFINE Own(b, x) == IF raw[x] = "none" THEN x \notin DOMAIN b
                        ELSE x \in DOMAIN b /\ b[x] = raw[x]
           Kept(u) ==
             /\ "attrs" \in DOMAIN board[u] =>
                   /\ "attrs" \in DOMAIN board'[u]
                   /\ board'[u]["attrs"] # board[u]["attrs"] =>
                         /\ raw["latitude"] # "none"
                         /\ \A x \in {"latitude", "longitude"} : Own(board'[u]["attrs"], x)
             /\ "last_seen" \in DOMAIN board[u] => "last_seen" \in DOMAIN board'[u]
<1>1. ASSUME RecordsInv, [Next]_vars, NEW u \in DOMAIN board
      PROVE  Kept(u)
  <2>1. \A t \in DOMAIN board[u] : OnTopic(kind, t, board[u][t])
    BY <1>1 DEF RecordsInv, BoardInv
  <2>2. CASE board'[u] = board[u]
    BY <2>2
  <2>3. CASE board'[u] # board[u]
    <3> DEFINE x == Uuid(kind, raw)
               b == Retained(Of(board, x), BuildState(kind, raw))
               new == TrackerAttributes(kind, raw)
    <3>1. board' = With(board, x, b)
      BY <1>1, <2>3 DEF Next, FindMyWrites, Poll, vars
    <3>2. u = x
      BY <1>1, <2>3, <3>1 DEF With
    <3>3. board'[u] = b
      BY <1>1, <3>1, <3>2 DEF With
    <3>4. /\ \A t \in DOMAIN b : OnTopic(kind, t, b[t])
          /\ \A t \in Published(kind, raw) :
                Payload(kind, raw, t) # Plainly("") => t \in DOMAIN b /\ b[t] = Payload(kind, raw, t)
          /\ \A t \in DOMAIN board[u] \ Published(kind, raw) :
                board[u][t] # Plainly("") => t \in DOMAIN b /\ b[t] = board[u][t]
      BY <1>1, <3>2, PolledThing
    <3>5. kind \in Kind /\ RecordOK(raw)
      BY <1>1 DEF RecordsInv, TypeOK, RecordOK
    <3>6. \A t \in Published(kind, raw) : OnTopic(kind, t, Payload(kind, raw, t))
      BY <3>5, PayloadFits
    <3> HIDE DEF b, x
    <3>7. DOMAIN Plainly("") = {"value"} /\ Plainly("")["value"] = ""
      BY PlainlyHas
    <3>8. ASSUME NEW p, OnTopic(kind, "attrs", p) PROVE p # Plainly("")
      <4> SUFFICES ASSUME p = Plainly("") PROVE FALSE
        OBVIOUS
      <4>1. "latitude" \in DOMAIN Plainly("")
        BY <3>8 DEF OnTopic
      <4>2. "latitude" \in {"value"}
        BY <3>7, <4>1
      <4> QED
        BY ONLY <4>2
    <3>9. ASSUME NEW p, OnTopic(kind, "last_seen", p) PROVE p # Plainly("")
      <4>1. p["value"] = "iso"
        BY <3>9 DEF OnTopic
      <4> QED
        BY <3>7, <4>1
    <3>10. "last_seen" \in DOMAIN board[u] => "last_seen" \in DOMAIN b
      BY <2>1, <3>4, <3>6, <3>9
    <3>11. CASE ~HasFix(raw)
      <4>1. "attrs" \notin Published(kind, raw)
        BY <3>5, <3>11, PublishedIs
      <4>2. "attrs" \in DOMAIN board[u] => "attrs" \in DOMAIN b /\ b["attrs"] = board[u]["attrs"]
        BY <2>1, <3>4, <3>8, <4>1
      <4> QED
        BY <3>3, <3>10, <4>2
    <3>12. CASE HasFix(raw)
      <4>1. "attrs" \in Published(kind, raw)
        BY <3>5, <3>12, PublishedIs
      <4>2. Payload(kind, raw, "attrs") = new
        BY DEF Payload, BinarySensors, Flags
      <4>3. "attrs" \in DOMAIN b /\ b["attrs"] = new
        BY <3>4, <3>6, <3>8, <4>1, <4>2
      <4>4. ASSUME NEW c \in {"latitude", "longitude"} PROVE Own(new, c)
        <5>1. c \in TrackerFields /\ c \notin NegSentinel
          BY DEF TrackerFields, Position, NegSentinel
        <5>2. TrackerValue(kind, raw, c) = raw[c]
          BY DEF TrackerValue, Role
        <5> QED
          BY <3>5, <3>12, <5>1, <5>2, TrackerFits
      <4> HIDE DEF new
      <4> QED
        BY <3>3, <3>10, <3>12, <4>3, <4>4 DEF HasFix
    <3> QED
      BY <3>11, <3>12
  <2> QED
    BY <2>2, <2>3
<1>2. RecordsInv /\ [Next]_vars => [\A u \in DOMAIN board : Kept(u)]_vars
  BY <1>1
<1> QED
  BY <1>2, RecordsHold, PTL DEF Spec, KeepsLastFix
=============================================================================
