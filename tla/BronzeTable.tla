----------------------------- MODULE BronzeTable -----------------------------
(***************************************************************************)
(* What the streaming job promises of the table bronze.vnstock_ohlc_1m,    *)
(* whatever happens to the job: minutes in the table come from the topic,  *)
(* they stay there, and a record of the topic is passed over only when the *)
(* table has its symbol at that minute or at a later one.                  *)
(*                                                                         *)
(* It says nothing about how often a minute is stored, nor which of its    *)
(* candles: the job does not keep such a promise (see module Streaming).   *)
(* Minutes whose batch could not be appended are never settled here.       *)
(***************************************************************************)
EXTENDS Naturals

CONSTANTS Symbols, Times

VARIABLES
    published,  \* the minutes that the topic has
    stored,     \* the minutes that the table has
    settled     \* the minutes that the job is done with

vars == <<published, stored, settled>>

Minutes == [sym: Symbols, time: Times]

\* Minute m, or a later one of its symbol, is in the set.
CoveredBy(m, minutes) == \E n \in minutes : n.sym = m.sym /\ n.time >= m.time

Init == published = {} /\ stored = {} /\ settled = {}

Publish ==
    /\ \E m \in Minutes : published' = published \cup {m}
    /\ UNCHANGED <<stored, settled>>

Store ==
    /\ \E new \in SUBSET published : stored' = stored \cup new
    /\ UNCHANGED <<published, settled>>

Settle ==
    /\ \E done \in SUBSET published :
          /\ \A m \in done : CoveredBy(m, stored)
          /\ settled' = settled \cup done
    /\ UNCHANGED <<published, stored>>

Next == Publish \/ Store \/ Settle

Spec == Init /\ [][Next]_vars
=============================================================================
