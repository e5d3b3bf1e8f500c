CONSTANTS
    c1 = c1
    c2 = c2
    c3 = c3
    NoOne = NoOne
    Closers <- MC_Closers
    Nobody <- NoOne
SPECIFICATION Spec
INVARIANT NoServingAfterShutdown
PROPERTY ShutdownStopsServer
