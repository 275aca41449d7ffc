---------------------------- MODULE MCLiveChart -----------------------------
(* Instances of the chart page for TLC. *)
EXTENDS LiveChart

CONSTANTS VCB, HPG

\* Two symbols at different prices.
TwoTicks == [s \in {VCB, HPG} |-> IF s = VCB THEN 1 ELSE 2]
VCBByMinute == [sym |-> VCB, tf |-> "1m"]

=============================================================================
