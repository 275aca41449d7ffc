----------------------------- MODULE MCRestApi -----------------------------
(* The REST API for TLC.  The histories share nothing with the caches of      *)
(* ticks and references but the table and the clock, so that an initial state *)
(* chooses which of them are asked for.                                       *)
EXTENDS RestApi, TLC

\* The producer never ran; the market is closed; the producer runs.
Found == {{}, {"daily"}, {"tick", "ticks", "daily", "secdef", "basicPrice"}}

Symmetry == Permutations(Requests)

VARIABLE asked

AskedInit == RestInit /\ asked \in {"histories", "latest"}

AskedNext ==
    /\ RestNext
    /\ \/ asked = "histories" /\ UNCHANGED <<ticks, secdefs>>
       \/ asked = "latest" /\ UNCHANGED <<cached, requests, faults>>
    /\ UNCHANGED asked

AskedSpec == AskedInit /\ [][AskedNext]_<<restVars, asked>>
=============================================================================
