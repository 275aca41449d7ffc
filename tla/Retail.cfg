\* Facts: the events and the product.  Dimensions: the stock and the segment.
\* The product alone, with restarts.  Clean-ups that may fail, crashes.
SPECIFICATION Spec
CONSTANTS
    NULL = NULL
    Forever = 9
    Deployments <- FactsOrDims
    Limits <- FewEach
    MaxTime = 1
INVARIANTS
    ExactlyOnce
    ReservedIsCovered
    OneVersionAtATime
    
PROPERTIES
    ProductKeysStay
CHECK_DEADLOCK FALSE
