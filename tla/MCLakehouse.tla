---------------------------- MODULE MCLakehouse ----------------------------
(* Instances of the lakehouse jobs for TLC. *)
EXTENDS Lakehouse

CONSTANTS VCB, HPG

OneByOne == <<{VCB}, {HPG}>>

=============================================================================
