------------------------------ MODULE MCBridge ------------------------------
(* Instances of Bridge for TLC.                                              *)
EXTENDS Bridge

CONSTANTS r1, r2, e1

W(raising, ahead, fresh, blank, gone) ==
    [listed |-> Rec, raising |-> raising, ahead |-> ahead, fresh |-> fresh,
     blank |-> blank, gone |-> gone]

(* Every record is listed, every field new. *)
AllNew == {W({}, {}, Mirrored, {}, {})}

OneNew == {[w EXCEPT !.listed = {r1}] : w \in AllNew}

(* All of them, or "" in each field, or None, or the files are removed. *)
NewOrNone ==
    AllNew \cup {W({}, {}, {CacheTime}, StateTopics, {}),
                 W({}, {}, {CacheTime}, {}, StateTopics),
                 [W({}, {}, {}, {}, Mirrored) EXCEPT !.listed = {}]}

(* All of them, or one record with a value that build_state raises on, which *)
(* is listed last or perhaps first.                                          *)
NewOrRaising ==
    AllNew \cup {W({r1}, ahead, {StateTopic(r2, e1), CacheTime}, {}, {}) :
                    ahead \in {{}, {r2}}}

-----------------------------------------------------------------------------
(* Environments. *)

E(ms, fs, ws, s, l, d) ==
    [modes |-> ms, faults |-> fs, writes |-> ws, stamps |-> s, launches |-> l, drops |-> d]

Anything == {"run", "once", "clear"}

(* A daemon that loses its connection once, between two writes of the cache; *)
(* one whose fields come and go, with a second process; and any two command  *)
(* lines, with all that can happen to them but a lost connection.            *)
SafetyEnvs ==
    [outage |-> E({"run"}, {}, AllNew, 2, 1, 1),
     fields |-> E({"run"}, {"crash"}, NewOrNone, 2, 2, 0),
     modes  |-> E(Anything, {"crash", "stop", "timeout"}, AllNew, 1, 2, 0)]

(* A daemon with an outage, with a second process, with a connection that    *)
(* comes late, that is stopped, or with no fault but a record that may break *)
(* a poll.                                                                   *)
LiveEnvs ==
    [outage  |-> E({"run"}, {"crash"}, OneNew, 1, 1, 1),
     restart |-> E({"run"}, {"crash"}, OneNew, 1, 2, 0),
     late    |-> E({"run"}, {"crash", "timeout"}, OneNew, 1, 1, 0),
     halt    |-> E({"run"}, {"stop"}, {}, 0, 1, 1),
     calm    |-> E({"run"}, {}, NewOrRaising, 2, 1, 0)]

(* One lost connection, and one lost connection with SIGTERM.                *)
StaleEnvs    == [stale |-> E({"run"}, {}, AllNew, 1, 1, 1)]
StopRaceEnvs == [stoprace |-> E({"run"}, {"stop"}, AllNew, 1, 1, 1)]

(* --clear after a daemon that was stopped.                                  *)
ClearEnvs == [clear |-> E({"run", "clear"}, {"stop"}, AllNew, 1, 2, 0)]
=============================================================================
