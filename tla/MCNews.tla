------------------------------- MODULE MCNews -------------------------------
(* Instances of the news crawler for TLC. *)
EXTENDS News

TwoSites == [cafef |-> {1}, vneconomy |-> {2}]
=============================================================================
