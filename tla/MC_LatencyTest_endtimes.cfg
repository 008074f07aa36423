\* The stability callback reads my_id before main assigns it.
CONSTANTS
    junk = junk
    Junk <- junk
    num_nodes <- MC_num_nodes
    num_messages <- MC_num_messages

SPECIFICATION Spec

INVARIANT
    EndTimesInBounds

CHECK_DEADLOCK FALSE
