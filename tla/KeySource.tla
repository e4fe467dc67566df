----------------------------- MODULE KeySource -----------------------------
(* Reading the Find My cache: KeyProvider (keyprovider.py), collect and the  *)
(* key handling of poll_once (runtime.py), against a cache whose files FindMy *)
(* rewrites one by one, under a key that may change.                         *)
(*                                                                           *)
(* A content is a version number: each write, also one that removes the file *)
(* or leaves it half written, is a new version.  Keys are numbered too.      *)
EXTENDS Naturals

CONSTANTS
    NFiles,        \* files of SOURCES, read in order: 1 is Items, 2 is Devices
    MaxVersion,    \* bound: writes of each file
    MaxKey         \* bound: keys the keychain has held

ASSUME KeySourceConstants == NFiles \in Nat \ {0} /\ MaxVersion \in Nat /\ MaxKey \in Nat \ {0}

File == 1 .. NFiles
Form == {"good", "absent", "torn", "odd"}

VARIABLES
    keychain,   \* the key FindMy encrypts with now
    data,       \* the files: version, the key it is under, and its form
    key,        \* KeyProvider._key (0: none yet)
    pc,         \* poll_once
    forced,     \* this is the retry, with a forced key
    at,         \* the file collect is at
    read,       \* versions collect has read
    feed,       \* versions of the last collect that returned
    floor       \* history: the versions when the poll began

vars == <<keychain, data, key, pc, forced, at, read, feed, floor>>

Content == [ver : Nat, key : Nat, form : Form]

TypeOK ==
    /\ keychain \in Nat \ {0}
    /\ data \in [File -> Content]
    /\ key \in Nat
    /\ pc \in {"idle", "key", "look", "open"}
    /\ forced \in BOOLEAN
    /\ at \in 1 .. NFiles + 1
    /\ pc = "open" => at \in File
    /\ read \in [File -> Nat] /\ feed \in [File -> Nat] /\ floor \in [File -> Nat]

Version == [f \in File |-> data[f].ver]

Init ==
    /\ keychain = 1
    /\ data = [f \in File |-> [ver |-> 0, key |-> 0, form |-> "absent"]]
    /\ key = 0 /\ pc = "idle" /\ forced = FALSE /\ at = 1
    /\ read = [f \in File |-> 0] /\ feed = [f \in File |-> 0] /\ floor = [f \in File |-> 0]

-----------------------------------------------------------------------------
(* FindMy and the keychain. *)

(* A file is rewritten under the current key, whole, half, with a value that *)
(* normalize raises on, or it is removed.                                    *)
Rewrite ==
    /\ \E f \in File, form \in Form :
          /\ data[f].ver < MaxVersion
          /\ data' = [data EXCEPT ![f] = [ver |-> @.ver + 1, key |-> keychain, form |-> form]]
    /\ UNCHANGED <<keychain, key, pc, forced, at, read, feed, floor>>

(* A new key; the files stay under the old one until they are rewritten.     *)
Rotate ==
    /\ keychain < MaxKey
    /\ keychain' = keychain + 1
    /\ UNCHANGED <<data, key, pc, forced, at, read, feed, floor>>

-----------------------------------------------------------------------------
(* KeyProvider.get.                                                          *)

Begin ==
    /\ pc = "idle" /\ pc' = "key"
    /\ forced' = FALSE
    /\ floor' = Version
    /\ UNCHANGED <<keychain, data, key, at, read, feed>>

NeedsKey == pc = "key" /\ (forced \/ key = 0)

CachedKey ==
    /\ pc = "key" /\ ~forced /\ key # 0
    /\ pc' = "look" /\ at' = 1
    /\ UNCHANGED <<keychain, data, key, forced, read, feed, floor>>

(* Mutant: a key that was extracted once is kept, force or not.              *)
ExtractOnce ==
    /\ NeedsKey
    /\ key' = IF key = 0 THEN keychain ELSE key
    /\ pc' = "look" /\ at' = 1
    /\ UNCHANGED <<keychain, data, forced, read, feed, floor>>

(* The extractor runs and prints the key of the moment.                      *)
Extract ==
    /\ NeedsKey
    /\ key' = keychain
    /\ pc' = "look" /\ at' = 1
    /\ UNCHANGED <<keychain, data, forced, read, feed, floor>>

(* It does not run, times out, prints no key, or one that does not parse (an *)
(* error of another class, which run() catches): the cached key stays.       *)
ExtractFails ==
    /\ NeedsKey
    /\ pc' = "idle"
    /\ UNCHANGED <<keychain, data, key, forced, at, read, feed, floor>>

-----------------------------------------------------------------------------
(* collect. *)

Took == read' = [read EXCEPT ![at] = data[at].ver] /\ at' = at + 1 /\ pc' = "look"

(* os.path.exists: a file that is not there has no records. *)
Look ==
    /\ pc = "look" /\ at \in File
    /\ IF data[at].form = "absent"
       THEN Took
       ELSE pc' = "open" /\ UNCHANGED <<at, read>>
    /\ UNCHANGED <<keychain, data, key, forced, feed, floor>>

Readable == data[at].key = key /\ data[at].form \in {"good", "odd"}

(* Mutant: only the first file is looked for before it is opened. *)
OpenUnlooked ==
    /\ pc = "open" /\ Readable /\ data[at].form = "good"
    /\ read' = [read EXCEPT ![at] = data[at].ver] /\ at' = at + 1 /\ UNCHANGED pc
    /\ UNCHANGED <<keychain, data, key, forced, feed, floor>>

Open ==
    /\ pc = "open" /\ Readable /\ data[at].form = "good"
    /\ Took
    /\ UNCHANGED <<keychain, data, key, forced, feed, floor>>

(* normalize raises: not a DecryptError, so the poll ends without a retry.   *)
OpenOdd ==
    /\ pc = "open" /\ Readable /\ data[at].form = "odd"
    /\ pc' = "idle"
    /\ UNCHANGED <<keychain, data, key, forced, at, read, feed, floor>>

(* DecryptError, for whatever reason: once with a fresh key, then give up.   *)
OpenFails ==
    /\ pc = "open" /\ ~Readable
    /\ IF forced THEN pc' = "idle" /\ UNCHANGED forced ELSE pc' = "key" /\ forced' = TRUE
    /\ UNCHANGED <<keychain, data, key, at, read, feed, floor>>

(* Mutant: after a DecryptError there is no retry; for the files that were   *)
(* not read, what an earlier poll read stands in.                            *)
ReturnEarly ==
    /\ (pc = "look" /\ at = NFiles + 1) \/ (pc = "key" /\ forced)
    /\ feed' = read
    /\ pc' = "idle"
    /\ UNCHANGED <<keychain, data, key, forced, at, read, floor>>

Return ==
    /\ pc = "look" /\ at = NFiles + 1
    /\ feed' = read
    /\ pc' = "idle"
    /\ UNCHANGED <<keychain, data, key, forced, at, read, floor>>

-----------------------------------------------------------------------------
Poll ==
    \/ Begin \/ CachedKey \/ Extract \/ ExtractFails
    \/ Look \/ Open \/ OpenOdd \/ OpenFails \/ Return

Next == Rewrite \/ Rotate \/ Poll

Spec == Init /\ [][Next]_vars

(* run() polls again and again, and the extractor does not fail for ever.    *)
FairSpec == Spec /\ WF_vars(Poll) /\ SF_vars(Extract)

-----------------------------------------------------------------------------
Feed == INSTANCE CacheFeed WITH version <- Version, polling <- pc # "idle"

(* What a poll returns of a file is a content the file had during the poll,  *)
(* whatever was rewritten, removed or re-keyed between the two reads.        *)
ImplementsFeed == Feed!FeedSpec

AllReadable ==
    \A f \in File : data[f].form = "absent" \/ (data[f].form = "good" /\ data[f].key = keychain)

(* A retry that fails on files that are all readable now was overtaken by a  *)
(* write of FindMy: where the extractor works, a stale key alone never costs *)
(* a poll (the forced key of runtime.py:166-173).                            *)
RetryIsEnough == [][pc = "open" /\ pc' = "idle" /\ AllReadable => Version # floor]_vars

(* Once every file is readable again, with the key the keychain now holds,   *)
(* polls return what is there: a cached key that became stale, or a forced   *)
(* extraction that failed, does not stay in the way.                         *)
Recovers == <>[]AllReadable => <>[](feed = Version)
=============================================================================
