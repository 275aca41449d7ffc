-------------------------------- MODULE Api ---------------------------------
(* What the parts of infra/vnstock-api speak about: symbols, and values that *)
(* may be absent.                                                            *)
CONSTANTS
    Symbols,        \* the symbols a client can ask for
    None            \* an absent value

Maybe(S) == S \cup {None}
=============================================================================
