\* A p2p get changes the state of the one member it runs at.
CONSTANTS
    r1 = r1
    r2 = r2
    r3 = r3
    NoMsg = NoMsg
    Replicas <- MC_Replicas
    Keys <- MC_Keys
    Values <- MC_Values
    MaxOps <- MC_MaxOps
    Who = r3
    WindowSize <- MC_WindowSize
    MaxQueries <- MC_MaxQueries

SPECIFICATION Spec

INVARIANT ReplicasAgree

\* Once the ordered calls and the queries are used up the members are idle:
\* main ends in an endless loop.
CHECK_DEADLOCK FALSE
