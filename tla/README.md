# Verification of findmy-mqtt-bridge

TLA+ models of the bridge that mirrors Apple's Find My cache to Home Assistant
over MQTT, the TLC runs that check them on small instances, and TLAPS proofs of
the properties that matter most. File names without a directory are those of
`src/findmy_bridge/`; `paho_publisher.py` and `outbox.py` are those of
`_shared/ha-mqtt-bridge-toolkit/ha_mqtt_bridge/`.

    tlc -config MCBridge_faults.cfg MCBridge      # one run
    tlc -config Freshness.cfg Freshness
    tlapm BridgeSafetyProofs.tla                  # one module of proofs

## 1. The system

| Part | State it keeps | Operations | Talks to |
|---|---|---|---|
| `Bridge` (runtime.py, cli.py) | `_known` (records whose configs were published), `_last` (last body per topic), `_stop` | `start`, `run`, `stop`, `poll_once`, `_publish_cache_mtime`, `clear`; command lines run, `--once`, `--clear` | key provider, cache files, publisher |
| `ThreadedPublisher` (paho_publisher.py) | `_connected`, `_subscriptions`, the health file; paho's unacknowledged messages and socket | `start`, `stop`, `wait_until_connected`, the publish flavours, `subscribe`, callbacks | paho's network thread, the broker |
| Key and cache (keyprovider.py, decrypt.py, `collect`) | `_key` | `get`, `_run`, `collect`, `decrypt_records` | the extractor, files that FindMy rewrites |
| Entities (entities.py, fields.py, normalize.py, battery.py) | none | which topics a record owns, what goes there | called by `Bridge` |
| `findmy-keepawake.sh` | none but where it is in its loop | check, kill, open | FindMy.app, the mtimes of the cache |
| `Outbox` (outbox.py) | a JSONL file, a lock | `enqueue`, `drain` | `publish_event_with_ack`; not used by this bridge |
| the rest of the toolkit, config, extractor, scripts, installer | none or one-shot | parsing, naming, retries | see section 8 |

The main thread polls: it gets the key, decrypts two files one after the other,
turns them into records, publishes the discovery configs of records it does not
know (QoS 1, retained) and the states that differ from `_last` (QoS 0,
retained), then the mtime of the cache. paho's network thread connects,
reconnects, runs the callbacks and sends again what was not acknowledged. The
broker keeps retained messages and publishes the will of a session that ends
without DISCONNECT. launchd starts the bridge again after a failure, and the
watcher always.

What is hard:

* two threads and a broker: `_on_connect` publishes "online" while the main
  thread is in `start`, in a poll, or in `stop`; wills of old sessions arrive
  in between;
* messages are dropped (QoS 0 without a socket), lost with a connection, or
  sent twice and late (QoS 1);
* `_known` and `_last` note what was *handed over*, not what arrived, and are
  lost when the process dies;
* files and key change between any two steps of a poll, and each of many errors
  leaves the poll at a different point;
* configs are made once, by the kind of a record; payloads at every poll, by
  what its fields hold, each of which may come and go;
* the watcher sees FindMy only through the age of a file, and Home Assistant
  sees it only through what a poll of the bridge got to publish.

What makes each part correct is in section 4; every hazard is listed at its
line in `PROJECT.json`, with the properties that cover it or why none does.

## 2. The modules

| Module | Models | Builds on |
|---|---|---|
| `Topics` | the topics of a record and of the hub, payloads, which of them get one | |
| `Mqtt` | paho, the callbacks, the network, the broker | `Topics` |
| `StateBoard` | abstract: what the bridge promises of the retained values | |
| `Bridge` | the process: main thread, three command lines, crash, signal, restart; implements `StateBoard` | `Mqtt`, `StateBoard` (INSTANCE) |
| `MCBridge` | the environments that the runs of `Bridge` use | `Bridge` |
| `Records` | what a record's fields become: normalize, configs, payloads | |
| `CacheFeed` | abstract: what a poll promises of the files it read | |
| `KeySource` | key, files and retry; implements `CacheFeed` | `CacheFeed` (INSTANCE) |
| `KeepAwake` | the watcher and FindMy, in discrete time | |
| `Freshness` | the poll loop, its connection and the health file next to the watcher; implements `KeepAwake` | `KeepAwake` |
| `Subscriptions` | `subscribe` and `_on_message` against reconnects | |
| `EventQueue` | abstract: at least once, first deliveries in order | |
| `Outbox` | the disk-backed queue; implements `EventQueue` | `EventQueue` (INSTANCE) |

Theorems are in `BridgeProofs` (types), `BridgeSafetyProofs`,
`BridgeOrderProofs` (with the refinement of `StateBoard`), `RecordsProofs`,
`KeySourceProofs`, `FreshnessProofs` (the watcher alone, then with the bridge),
`SubscriptionsProofs` and `OutboxProofs`. The three of the bridge EXTEND one
another in that order.

### Bridge and Mqtt

`Bridge` has one action for each point of the main thread between which another
thread, the network or a crash can come. `pc` names the point:

| `pc` | code |
|---|---|
| wait | `wait_until_connected(15.0)`, runtime.py:91 |
| status, cache, online | the three publishes of `Bridge.start` |
| loop | the loop condition of `run`, with the poll interval |
| read | the key, `collect`, `apply_filters` |
| config, state | the configs and the states of the record `cur` |
| wipe | the publishes of `clear` |
| drain | the 4 s sleep of `--once` and `--clear` |
| ack, join | inside `ThreadedPublisher.stop` |
| off, exited | died; ended with success |

`mode` is the command line; an exception that leaves `poll_once` is caught by
`run` and ends the other two (`Raise`). `cache` and `stamp` are the files and
their writes, read as a whole here (section below). A payload, of a state or of
the cache time, is the number of the write it comes from, 0 for a field that is
`None` or for no file; so "older" and "newer" are what the properties compare.
When the newest file is removed, the newest mtime goes back to an earlier time,
but from a later write. `empty` says which payloads are `""`: they are published
retained like the others, and take the topic off the broker. `raising` are
records that `build_state` raises on, `ahead` those listed before the first of
them, which a poll still publishes.

`env` is chosen in `Init` and never changes: an *environment* says which command
lines are started, which faults there are (crash, stop, timeout of the wait),
how FindMy writes the cache, and how often each thing happens. `Envs` is a
constant, so one run checks a property under several environments, and a theorem
holds for all of them.

In `Mqtt`, `out` is paho's list of unacknowledged QoS-1 messages and `wire` what
is in flight. `net` is "broken" from the moment a connection dies until the
client notices: PUBACKs are lost then, while bytes under way may still arrive.
A QoS-0 publish goes to the socket or nowhere. The network thread is `netpc`:
CONNACK, `_on_connect` up to the flag, its publish, then what paho still holds.
`session` is the broker's session; `TcpConnect` with a session still open is a
takeover, which publishes the will first. Wills fire (`FireWill`) any time after
a connection ended without DISCONNECT. A process that dies (`Gone`) closes its
socket and forgets; the wire may still be delivered.

Order within a record and between records is left open (a set instead of a
list), but for `ahead`: the code's order is one of those checked.

`StateBoard` says in two actions what all of this does to the retained values of
the cache (`Mirrored`: every state and attributes topic, and the cache time).
The source writes: a field gets a new value, loses it or keeps it. The board
shows a value that came from the source, is not older than what is shown and not
newer than what the source has; nothing is taken away but by a value that is
`""`, a later one than the one it takes away. `Bridge` maps `stamp` to the
clock, `cache` to the source and `retained` to the board: only a delivery by the broker is a
`Show`, everything else, `--clear`, crashes and restarts included, is a stutter.

### Records

One record of the cache, item or device, whose fields FindMy changes. A value is
the *class* the code tells apart: `None`, `""`, 0, a negative number, a fraction,
NaN, bytes, and so on; `normalize`, the tables of fields.py and the configs and
payloads of entities.py are operators over such records. `configs` and `board`
are what the broker retains; an empty payload takes a topic off. The uuid of a
device may move from its id to its baUUID, which makes it a new thing. `shown`
is a history variable: the record that a complete poll last published. A poll is
one step; its interleavings are the subject of `Bridge`.

### CacheFeed and KeySource

A file is a version, the key it is under, and a form: good, absent, torn (does
not decrypt), odd (`normalize` raises). FindMy may rewrite a file, and the
keychain may get a new key, between any two steps: before and after
`os.path.exists`, between the two files, between the first attempt and the
retry. `KeySource` implements `CacheFeed`: a poll returns, of each file, a
content the file had *during that poll*, or nothing at all. It does not promise
that both files are from the same moment. `Bridge` reads the cache in one step;
that abstracts from records of the two files being of different moments, which
no property of `Bridge` tells apart.

### KeepAwake and Freshness

Seconds pass (`Tick`); a step of the script or a write of a healthy FindMy that
is due holds time back. FindMy is external and does what the comments of the
script say: an instance fetches, wedges at any time, and then only a kill helps.
The script may find a cache of any age at its start, a healthy instance a fresh
one. `restarts` counts launchd starting the script again, at any point, also between
the kill and the open.

`Freshness` composes the watcher with the bridge in the same time: every action
of `KeepAwake` leaves the bridge's variables alone, but `Pass` ticks for both.
`noted` is the age of the mtime in `_last`, `missed` says that its publish was
lost, `touched` is the age of the health file. A poll takes no time, its pauses
do; it may fail before `_publish_cache_mtime` at most `MaxFailed` times in a row.
The connection breaks at any time, and is "broken" before it is noticed, as in
`Mqtt`. There is one age of the cache. The script takes the newest of three
files, the bridge the newest of the two it reads; that FindMy writes them in one
go is an assumption on it.

### Subscriptions

`subscribe` is three steps of the main thread (insert, look at the flag, send),
`_on_connect` a loop over the map on the network thread. A dict that grows
during the loop raises RuntimeError, which ends the network thread (`LoopRaises`).
Subscriptions last as long as a connection (clean start). When one is lost, any
part of what was under way is still read by the client. `watch_ha_birth`
is one subscriber: `Birth` is a message on its topic.

### Outbox

The lock makes an `enqueue` one step; a drain is one step per line and one for
the final rewrite, so a crash can come between an acknowledgement and the
rewrite. An append may fail half way (`EnqueueTorn`), and
`publish_event_with_ack` may give up on a message that paho sends later (`late`).
`EventQueue` is what that amounts to: events go in in order, and what is delivered
never passes one that waits. An event counts as taken in when a line of its own
was written for it (`Promised`), and as delivered from its first arrival.

## 3. Bounds and deadlock

All bounds are constants. An environment of `Bridge` has `stamps` (cache
writes), `launches` (processes) and `drops` (lost connections):

| Environment (run) | Command lines | Faults | stamps, launches, drops |
|---|---|---|---|
| outage (`faults`) | run | | 2, 1, 1 |
| fields (`faults`) | run | crash; fields that become `""` or `None`, files removed | 2, 2, 0 |
| modes (`faults`) | run, `--once`, `--clear` | crash, stop, timeout | 1, 2, 0 |
| outage (`live`) | run | crash | 1, 1, 1 |
| restart (`live`) | run | crash | 1, 2, 0 |
| late (`live`) | run | crash, timeout | 1, 1, 0 |
| halt (`live`) | run | stop | 0, 1, 1 |
| calm (`live`) | run | a record that raises, listed last or perhaps first | 2, 1, 0 |

Two writes and one lost connection are enough for an old value to be redelivered
after a newer one; two processes for everything a restart can find. `faults` and
`live` have two records, one of them excluded in `faults`, so that a poll can
fail between two records and a filtered one can be told from a listed one. The
theorems of section 6 hold for every `Envs`. Records and entities are model
values; no symmetry is declared, because the environments name `r1` in a write.

The others: `MaxWrites` (`Records`: two fields change, before, between or after
polls; one is enough for the violation), `NFiles`/`MaxVersion`/`MaxKey`
(`KeySource`: two of each), `Old` (age at which counting stops, above every bound
that is checked), `MaxRestarts`, `MaxFailed` (one each), `MaxDrops`/`MaxBirths`
(`Subscriptions`: two each; the second connection can be lost too),
`MaxPending`/`MaxEvents`/`MaxTorn`/`MaxCrashes` (`Outbox`: a cap of four that the
fifth event meets).

`freshness` counts in units of 5 s: the script's check interval of 15 s is 3, its
threshold of 60 s is 12, the kill pause of 3 s and the settle time of 8 s round up
to 1 and 2, a first write comes within 10 s and later ones within 30 s, and a
poll every 10 s stands for `poll_interval_seconds`. Smaller instants matter to
none of its properties, which are bounds in sums of these constants;
`keepawake_boot` uses seconds, and the theorems any values.

Deadlock is checked in `keysource`, `freshness`, `keepawake_boot` and `stale`. It
is off where the system really stops: after the last launch of a process that
ended (`faults`, `live`, `stoprace`, `clear`), when a record without a uuid
cannot be polled and no field changes any more (`records`, `dropped`), when all
is subscribed (`subscriptions`), and when the outbox is empty and no event is
left (`outbox`).

## 4. The runs

| Run | Question | Checked |
|---|---|---|
| `faults` | a daemon through a lost connection, with redelivery; one whose fields come and go, and that crashes; all command lines, two processes, crash, SIGTERM, no or late connection | `TypeOK`, `OnlineWhileUp`, `ConfigsHeld`, `ClearTakesEffect`, `NeverGoesBack`, `ImplementsBoard` |
| `live` | the five environments above, under fairness | `UnstoppedOnline`, `LastIsRetained`, `ConfigsConverge`, `AvailabilityConverges`, `CalmStatesConverge`, `KeepsPolling`, `StopEnds` |
| `records` | an item or a device with two changing fields | `TypeOK`, `Announced`, `FormsFit`, `BatteryShown`, `LocatedShowsAll`, `KeepsLastFix` |
| `keysource` | two files, rewritten and re-keyed at any step | `TypeOK`, `ImplementsFeed`, `RetryIsEnough`, `Recovers` |
| `freshness` | watcher and polls in one time; FindMy wedges and dies, the script is restarted, the connection breaks, polls fail | `FreshTypeOK`, `StalenessBounded`, `ShownIsFresh`, `HealthIsTouched`, `LossIsRecent`, `LeavesHealthyAlone`, `KeepsFetching`, `MissedIsMadeUp` |
| `subscriptions` | three topics, two lost connections, births of Home Assistant | `TypeOK`, `NoneIgnored`, `NothingForgotten`, `Resubscribed` |
| `outbox` | five events, cap four, two torn appends, two crashes | `TypeOK`, `NothingLost`, `FirstInOrder`, `ImplementsQueue`, `EveryEventArrives` |

Each property has a mutant in `PROJECT.json`: a plausible mistake in the code
(another QoS, a missing will, a skipped wait, an off-by-one) that breaks it.

What they show:

* *Availability.* The availability topic is right whenever the connection is up
  and quiet, in spite of wills and redelivery, and "online" never outlives the
  session of a daemon that nobody stops.
* *Order.* Retained states never go back, *because* they are sent at QoS 0 (the
  mutant that sends them at QoS 1 breaks this). Nor are they ever newer than the
  cache, or taken away but by a later value that is `""`: they are a `StateBoard`.
* *Configs.* A record is marked known only when each of its configs is at the
  broker or in paho's hands, and the configs reach the broker.
* *Life.* A failing poll ends neither the loop nor what was published; `stop`
  ends in an outage and in the middle of a reconnect; `--clear` takes what it
  could read off the broker.
* *States.* Where no connection is lost the broker ends up with what the cache
  says. A record that raises in every poll starves those after it; those ahead of
  it converge all the same.
* *Records.* What is published fits a config that went out earlier, for whatever
  the record looked like then; 0 % is shown as 0 %; with a fix, every field is
  shown by the tracker or by Details; a record without a latitude leaves the
  position shown before as it was. (One that loses its longitude alone takes the
  thing off the map: `has_fix` looks at the latitude only.)
* *Reading.* A poll never returns contents from before it began. A retry that
  fails on files that are readable by then was overtaken by a write, so a stale
  key heals.
* *Freshness.* With healthy fetch times the watcher kills only what wedged; the
  cache, the shown cache time and the health file have a worst age, in spite of
  failing polls; a cache time that was lost at QoS 0 is made up for by the next
  write, which the watcher forces: a loss is never older than that worst age.
* *Toolkit.* No message reaches a subscriber's topic before its handler, and
  every topic is subscribed to again, unless a `subscribe` met the loop of
  `_on_connect`: then the network thread is dead while `is_connected` goes on
  saying true, and `Resubscribed` excepts just that. The outbox loses nothing
  unacknowledged but events written behind a torn line; for the others it is an
  `EventQueue`.

## 5. Where code and words disagree

Five runs end in a violation, each of a sentence of the repository.

* `stale`: with one lost connection `StatesConverge` fails. `_last` is set
  before a QoS-0 publish; a dropped message counts as published ("last published
  body", runtime.py:85; "will keep retrying in background", runtime.py:92) and
  is not sent again until the value changes. `CalmStatesConverge` is the part
  that holds.
* `stoprace`: `stop` during a reconnect. "offline" is queued before the
  "online" of `_on_connect`, and DISCONNECT discards the will: "online" stays
  with no bridge behind it (paho_publisher.py:15-17). `UnstoppedOnline` is the
  part that holds.
* `clear`: "Remove every published discovery config" (runtime.py:131), but the
  config of the cache-time sensor stays. `ClearTakesEffect` is the part that
  holds.
* `dropped`: "Nothing is dropped" (README.md:50-53) and "EVERYTHING else so no
  field is lost" (fields.py:139-140), but `crowdSourcedLocation` is skipped by
  Details and shown nowhere, and address and location fields that only the
  tracker shows are shown with a fix only. `LocatedShowsAll` is the part that
  holds, for the fields that the tables name.
* `keepawake_boot`: "leaves a healthy FindMy alone" (findmy-keepawake.sh:12)
  needs a first write within 15 s of the script's start when the cache is old;
  there is no settle time after line 43. In `freshness` the first write takes at
  most 10 s.

Three more have no run of their own. "Percent for devices, a text label for
items" (README.md:166): the battery of a device shows its status as a text when
there is no level, on a topic whose config says % (battery.py:7-8 wants it so);
`FormsFit` leaves that topic out, `BatteryShown` is the part that holds. A
`--clear` that has no connection ends after 4 s with all it has to remove still
queued (cli.py:39); `ClearTakesEffect` speaks of one that has nothing left. An append of the outbox
that fails half way takes the next event with it (outbox.py:42); `NothingLost`
excepts that event.

## 6. What is proved

TLAPS checks each theorem for every value of the constants, from the named
assumptions of the modules (`NamesAreDistinct`, `MqttConstants`,
`BridgeConstants`, `EnvironmentsTyped`, `KeySourceConstants`,
`KeepAwakeConstants`, `FreshnessConstants`, `SubscriptionsConstants`,
`OutboxConstants`, `RecordsConstants`) and what the theorem itself assumes.

| Theorem | Says | By |
|---|---|---|
| `TypeCorrect` | `Spec => []TypeOK` | inductive as it stands |
| `OnlineWhileUpHolds` | `Spec => []OnlineWhileUp` | `OnlineInv` |
| `ConfigsHeldHolds` | `Spec => []ConfigsHeld` | `ConfigInv` |
| `ClearTakesEffectHolds` | `Spec => []ClearTakesEffect` | `EraseInv` |
| `UnstoppedOnlineHolds` | `Spec => []UnstoppedOnline` | `UnstoppedInv` |
| `NeverGoesBackHolds` | `Spec => NeverGoesBack` | `OrderInv` |
| `BridgeKeepsBoard` | `Bridge` implements `StateBoard` | `OrderInv`, step by step |
| `LastIsRetainedHolds` | `Spec => []LastIsRetained` | `CalmInv` |
| `KeySourceTyped`, `KeySourceImplementsFeed` | `KeySource` implements `CacheFeed` | `ReadInv` |
| `KeySourceNeverGoesBack` | no poll returns older contents than one before | from the refinement |
| `RetryIsEnoughHolds` | a retry with a forced key fails on readable files only if one was written meanwhile | `RetryInv` |
| `HealthyIsLeftAlone` | only wedged or dead instances are relaunched, if `Paced` | `HealthInv` |
| `WorstAgeHolds` | `Spec => []StalenessBounded`, if `Paced` and `Settles` | `AgeInv` |
| `SourceIsWatched`, `FreshTyped` | `FreshSpec` implements the `Spec` of `KeepAwake` | step by step |
| `ShownIsFreshHolds`, `HealthIsTouchedHolds` | the worst age of the shown time and of the health file, if `Paced` and `Settles` | `NotedInv` |
| `LossIsRecentHolds` | a lost publish of the cache time is never longer ago, if also `Counted` | `MissedInv` |
| `SubscriptionsTyped`, `NoMessageIgnored` | types, and no message without a handler | `Inv` |
| `NothingIsForgotten` | between callbacks every topic of the map is subscribed to | `Reapplied` |
| `OutboxTyped`, `NothingIsLost`, `DrainsInOrder` | types, `NothingLost`, `FirstInOrder` | `Inv` |
| `OutboxIsQueue` | `Outbox` implements `EventQueue` | `Inv`, step by step |
| `RecordsTyped`, `AnnouncedHolds`, `FormsFitHolds`, `BatteryShownHolds`, `LocatedShowsAllHolds`, `KeepsLastFixHolds` | the properties of `Records`, for any number of writes | `RecordsInv` |

So every invariant and action property that a passing run checks, and each of the
three refinements of an abstract specification, is also proved. Why strengthenings are needed:

* `OnlineWhileUp` speaks of quiet states only, so `OnlineInv` says what is under
  way while things are not quiet: before `stop` only "online" is waiting in paho
  or on the wire for the availability topic, and once `_on_connect` has
  published, "online" is at the broker or on the wire of this session.
* `ConfigInv` says of every topic whose config this process has handed over
  (those of known records, and of the current one those not in `todo` any more)
  that the config is retained or waits in paho; that nothing in paho's queue
  removes a config unless the process is `--clear`; and that bytes of an earlier
  `--clear` can be on the wire only while the new process has no connection and
  still holds all of its own configs.
* `EraseInv` is its counterpart for `--clear`: what it has handed over is off the
  broker, or its removal waits in paho, and nothing this process queued or wrote
  on its connection puts a config back, although bytes of an earlier daemon may
  still arrive before the first connection.
* `UnstoppedInv` adds that no DISCONNECT is ever written.
* `OrderInv`: no state or cache time is ever in paho's queue (`NoneQueued`: they
  go out at QoS 0), so those on the wire are in order and not older than the
  retained one (`Ordered`); and what is retained or on the wire is not newer than
  the files, nor, within a poll, than what this poll has read (`Fits`,
  `Versions`). So what is published next, also by a new process, is not older
  than what its topic already has. The refinement of `StateBoard` needs the same
  invariant: `Fits` is what its `Show` asks of a value.
* `CalmInv`, where no connection is lost: while there is a main thread past its
  wait there is a connection, so of every topic the last packet on the wire, or
  else the retained message, is what `_last` says (`Settled`).
* `ReadInv` bounds what was read so far between the version at the start of the
  poll and the version now.
* `RetryInv`: in a retry a file under a newer key than the one in hand was written
  in this poll, for the key was the keychain's when it was forced; so was a file
  that is gone although `os.path.exists` saw it.
* `HealthInv` says that a fresh instance has had, or still has before the next
  check, a whole check interval; this and `Paced` (first write within a check
  interval, later ones within the threshold) rule out the kill. `AgeInv` bounds
  the age at each point of the script, and a fresh instance by its own uptime.
* `NotedInv`: what a poll noted is at least as old as the cache, by at most the
  polls that failed since and the pause that is running; with a connection the
  health file is not older than that. The bound on the cache itself comes from
  `WorstAgeHolds`, through the refinement `SourceIsWatched`. `MissedInv` tells a
  lost time from none: an age that is `Old` was never noted, given that counting
  goes beyond the worst age (`Counted`, a condition on the bound, not the code).
* `Reapplied`: on a live connection each topic of the map is subscribed to, still
  to come in the loop of `_on_connect`, or the one `subscribe` has in hand.
* `Inv` of `OutboxProofs`: the snapshot of a drain equals the file, and every
  event before `at` has arrived (`Reading`); the file, what is late and what is
  next are in order (`Sorted`, `Numbered`, `LateInOrder`); only the last line can
  be unended (`Ends`). In the refinement a drain's step is a delivery only at the
  first arrival of a promised event; `FirstInOrder` then is what `EventQueue` asks,
  and everything promised that has not arrived is in the file (`Safe`).
* `RecordsInv`: a uuid that is known has the configs of its kind; each topic has
  only payloads of the form that goes with it; and what the last complete poll
  published of a record is on the board as it was published then, but for the
  empty payloads. So what went out at different polls fits together, although
  the configs are made once, by kind, and payloads each time, by value.

`UnstoppedOnline` has its condition in its statement, that the environment has no
SIGTERM and no other command line: with a stop it is false (run `stoprace`).
`LastIsRetained` speaks of environments without faults (`Calm`), for with a lost
connection it is false too (run `stale`). `Paced` is what the run
`keepawake_boot` violates.

Only model-checked: all that needs fairness, which is out of the prover's reach
(liveness, ENABLED): `ConfigsConverge`, `AvailabilityConverges`,
`CalmStatesConverge`, `KeepsPolling`, `StopEnds`, `Recovers`, `KeepsFetching`,
`MissedIsMadeUp`, `EveryEventArrives`, `Resubscribed`. What they rest on is
proved: nothing is noted as done that is not held somewhere (`ConfigsHeld`,
`NothingLost`), nothing that was done is undone (`OnlineWhileUp`,
`NeverGoesBack`), and a step that fails did so for a cause that passes
(`RetryIsEnough`, `LossIsRecent`, `NothingForgotten`). No module uses a RECURSIVE
operator.

## 7. Fairness

* Main thread and network thread: each goes on when it can (weak fairness per
  thread; paho's loop reconnects by itself, `reconnect_delay` bounded).
* `DeliverUp`, `Expire`: a live connection delivers, and the broker gives up on
  a dead one after the keepalive. Lost connections are bounded by `drops` of the
  environment; nothing says when they happen.
* `Relaunch`: launchd's `KeepAlive` with `SuccessfulExit` false starts a bridge
  that failed, and only that; a process that exited with success stays ended
  unless somebody starts it.
* `ReadOk` is strongly fair: the cache is readable again and again. Without it
  no poll need ever succeed.
* `KeySource`: polls go on, and the extractor does not fail for ever (strong
  fairness of `Extract`). FindMy's writes are not fair.
* `Freshness`: time passes (`Pass`), due steps of the script are taken, an
  instance that has not wedged writes when its time is up (`DueWrite`), and a
  poll that is due is made, without saying whether it fails; that it does so at
  most `MaxFailed` times in a row is a bound of the model. Nothing forces or
  forbids wedging, and nothing makes the connection come back: `MissedIsMadeUp`
  has that as its premise.
* `Subscriptions`: a `subscribe` that began ends, and the network thread goes on.
* `Outbox`: `drain` is called again and again, and an acknowledgement comes
  again and again (strong fairness of `PublishOk`).

## 8. What is not modelled

* Names, JSON, units, icons, labels, the formatting of times (`config.py`,
  `discovery.py` and `time_utils.py` but for what a payload's class depends on,
  `topics.py`). Configs carry no name, so a renamed record, whose new name is
  not published before a restart, is not told from the same one.
* `publish_event`, which nothing in the repository calls; paho's limit of 20
  messages in flight; connection refusals (reason code not 0), which only log.
* Contents: a payload is the write it comes from, so a value that comes back
  counts as a new one (but for `""`), and "older" is an order of writes, not of
  times. Of location and address, the fields that no table names: the bridge
  drops them, as the run `dropped` shows of one that is named only by the skip
  list.
* A broker that forgets retained messages: the docstring of `watch_ha_birth` is
  about that case, and the bridge does not use it.
* Two processes with one client id at the same time (`--clear` next to the
  daemon).
* Files that FindMy writes at different times, as far as their ages go.
* `http_retry.py`, `aiomqtt_helpers.py`, `config_helpers.py`, `app_helpers.py`,
  the extractor, the scripts, `install.sh`: pure, one-shot, or, the retry, not
  used by this bridge.

## 9. The plan

Done: `Topics`, `Mqtt` and `Bridge`, with safety, liveness and the refinement of
`StateBoard`; `Records`; `CacheFeed` and `KeySource`; `KeepAwake` and
`Freshness`; `Subscriptions`; `EventQueue` and `Outbox`; the proofs of all their
safety properties and refinements; the hazards and the disagreements.

Left, in this order:

1. A broker that restarts without its retained messages, and `--clear` next to a
   running daemon: both need a second client or a second epoch in `Mqtt`, and an
   invariant for each property that still holds.
2. Names in configs: which of two names a renamed record shows, and until when.
3. The retry loop of `http_retry.py`, with its waits and its limit.
