--------------------------- MODULE MCTaskRouting ---------------------------
(* Small instances of TaskRouting for TLC.  A behaviour follows one of     *)
(* three settings: terminal tasks keep their route for TerminalTtl; with   *)
(* terminal_ttl_seconds = 0 they have it withdrawn at once; and one        *)
(* response comes in every split into chunks around the body limit.        *)
EXTENDS TaskRouting, TLC

CONSTANTS f1, f2, t1, t2, c1, c2

VARIABLE setting

Withdrawing == INSTANCE TaskRouting WITH TerminalTtl <- 0, MaxNow <- 1
Chunked == INSTANCE TaskRouting WITH
    TerminalTtl <- 0, MaxNow <- 1, MaxRequests <- 1, MaxDoc <- 5

MCInit == setting \in {"keep", "withdraw", "chunks"} /\ Init
MCNext ==
    /\ UNCHANGED setting
    /\ \/ setting = "keep" /\ Next
       \/ setting = "withdraw" /\ Withdrawing!Next
       \/ setting = "chunks" /\ Chunked!Next
MCSpec == MCInit /\ [][MCNext]_<<setting, vars>>

RoutingSymmetry == Permutations({f1, f2}) \cup Permutations({t1, t2})
                     \cup Permutations({c1, c2})
=============================================================================
