----------------------------- MODULE CacheFeed -----------------------------
(* What a poll promises of the cache it read: for each file of the cache, a  *)
(* content that the file really had at some moment of that poll.  It does    *)
(* not promise that the files were read at the same moment, nor that a poll  *)
(* returns anything.  KeySource is shown to implement this.                  *)
EXTENDS Naturals

CONSTANT File      \* the files of the cache

VARIABLES
    version,   \* of each file: the number of the write it is the result of
    polling,   \* a poll is under way
    floor,     \* the versions when it began
    feed       \* the versions the last successful poll returned

feedVars == <<version, polling, floor, feed>>

FeedInit ==
    /\ version = [f \in File |-> 0]
    /\ polling = FALSE
    /\ floor = [f \in File |-> 0] /\ feed = [f \in File |-> 0]

Write ==
    /\ \E f \in File : version' = [version EXCEPT ![f] = @ + 1]
    /\ UNCHANGED <<polling, floor, feed>>

Begin ==
    /\ ~polling /\ polling' = TRUE
    /\ floor' = version
    /\ UNCHANGED <<version, feed>>

GiveUp == polling /\ polling' = FALSE /\ UNCHANGED <<version, floor, feed>>

Return ==
    /\ polling /\ polling' = FALSE
    /\ feed' \in [File -> Nat]
    /\ \A f \in File : floor[f] <= feed'[f] /\ feed'[f] <= version[f]
    /\ UNCHANGED <<version, floor>>

FeedNext == Write \/ Begin \/ GiveUp \/ Return

FeedSpec == FeedInit /\ [][FeedNext]_feedVars

-----------------------------------------------------------------------------
(* No poll returns an older content of a file than a poll before it did.     *)
FeedNeverGoesBack == [][\A f \in File : feed[f] <= feed'[f]]_feedVars
=============================================================================
