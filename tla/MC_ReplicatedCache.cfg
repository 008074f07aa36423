\* The state of each Cache member against the ordered calls it ran, and
\* the p2p queries to member r3 carried over P2PConnection.
CONSTANTS
    r1 = r1
    r2 = r2
    r3 = r3
    NoMsg = NoMsg
    Replicas <- MC_Replicas
    Keys <- MC_Keys
    Values <- MC_Values
    MaxOps <- MC_MaxOps
    Who = r3
    WindowSize <- MC_WindowSize
    MaxQueries <- MC_MaxQueries

SPECIFICATION Spec

INVARIANT StateFollowsOrderedCalls
INVARIANT P2PInOrder
PROPERTY QueriesAnswered

\* Once the ordered calls and the queries are used up the members are idle:
\* main ends in an endless loop.
CHECK_DEADLOCK FALSE
