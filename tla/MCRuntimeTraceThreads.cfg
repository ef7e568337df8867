\* Two simulation threads and writes that fail; the inner hooks are deferred to
\* keep the trace short.
CONSTANTS
    Main = main
    Workers = {w1, w2}
    Hooked <- OuterHooks
    CanFail = TRUE
    MaxCalls = 4
SPECIFICATION Spec
INVARIANTS
    UniqueIds
    BatchEncloses
    ChildAfterStart
    RaisesPropagate
