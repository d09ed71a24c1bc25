--------------------------- MODULE MCDedupRoundTrip ---------------------------
(* Two parts of dedup that are checked in one run, and of which only one   *)
(* takes steps in a behaviour: the encoder and decoder on every input of   *)
(* at most four chunks with three contents, of which one is too long to be *)
(* decoded; or the cache of early chunks, for an input of four coarse      *)
(* chunks of which one has seven chunks.                                   *)
EXTENDS DedupRoundTrip, ReorderCache

CONSTANTS a, b, large

VARIABLE checked

MCInputs == UNION {[1 .. n -> {a, b, large}] : n \in 0 .. 4}

MCOversized == {large}

MCCoarse == [l1 \in 0 .. 3 |-> <<2, 7, 1, 1>>[l1 + 1]]

InitEither ==
    /\ checked \in {"round trip", "cache"}
    /\ Init /\ CacheInit
    /\ checked = "cache" => input = <<>>

NextEither ==
    \/ checked = "round trip" /\ Next /\ UNCHANGED <<cacheVars, checked>>
    \/ checked = "cache" /\ CacheNext /\ UNCHANGED <<vars, checked>>

SpecEither == InitEither /\ [][NextEither]_<<vars, cacheVars, checked>> /\ WF_vars(Decode)

===============================================================================
