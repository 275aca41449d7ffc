------------------------------ MODULE MCScripts ------------------------------
(* The crawler of news and the synchronisation of users for one run of TLC:   *)
(* scripts that copy from one service to others without a transaction.  They  *)
(* share nothing, so that interleaving them adds no behaviour to either: an   *)
(* initial state chooses which one moves.                                     *)
EXTENDS MCRangerSync, News

VARIABLE part

OneSite == [cafef |-> {1, 2}]

ScriptsInit ==
    /\ part \in {"ranger", "news"} /\ Init /\ NewsInit
    /\ part # "news" => \A a \in DOMAIN front : front[a] = Absent

ScriptsNext ==
    /\ \/ part = "ranger" /\ Next /\ UNCHANGED newsVars
       \/ part = "news" /\ NewsNext /\ UNCHANGED vars
    /\ UNCHANGED part

ScriptsSpec == ScriptsInit /\ [][ScriptsNext]_<<vars, newsVars, part>>
=============================================================================
