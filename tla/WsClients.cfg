\* Both producers: a watch, every kind of fault; automatic reconnection, two drops.
SPECIFICATION ClientsSpec
CONSTANTS
    Subs <- TwoChannels
    AutoReconnect = FALSE
    Watch = TRUE
    MaxRetries = 2
    None = None
    MaxFaults <- AllKinds
    MaxClients = 6
INVARIANTS
    TypeOK
    OneClientDelivers
    SubscribesAuthenticated
    
PROPERTIES
    WatchReconnects
