SPECIFICATION Spec
CONSTANTS
    Shape <- MCShape
    Servers <- MCServers
    NewTypes <- MCNewTypes
    WriteCalls <- MCWriteCalls
    ReadCalls <- MCReadCalls
    MaxCalls = 1
INVARIANTS FillExact  ReadAsStored
PROPERTY OpenedAsCreated
\* A call may be undefined, and the bound on calls is reached.
CHECK_DEADLOCK FALSE
