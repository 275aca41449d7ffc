------------------------------ MODULE MCRetail -------------------------------
(* The retail demo for TLC.  Jobs of different streams share nothing, so that *)
(* an initial state chooses which streams there are: those of the facts,      *)
(* those of dimensions that change, or the one of the product.                *)
EXTENDS Retail

Facts == {"raw_events", "products"}
Dims  == {"customer_segments", "warehouse_inventory"}
Product == {"products"}
FactsOrDims == {Facts, Dims, Product}

\* Events and a price; two starts of the generator and quantities; or three
\* starts, a price and two failures.
FewEach == [d \in FactsOrDims |->
    [events   |-> IF d = Facts THEN 1 ELSE 0,
     updates  |-> 1,
     starts   |-> CASE d = Facts -> 1 [] d = Dims -> 2 [] d = Product -> 3,
     faults   |-> IF d = Product THEN 2 ELSE 1,
     qty      |-> IF d = Dims THEN 1 ELSE 0,
     segments |-> IF d = Dims THEN 2 ELSE 1]]
==============================================================================
