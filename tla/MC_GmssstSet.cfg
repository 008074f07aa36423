\* Two threads calling gmssst::set on the same array field.
CONSTANTS
    t1 = t1
    t2 = t2
    Old = Old
    Threads <- MC_Threads
    NumElems <- MC_NumElems

SPECIFICATION Spec

INVARIANT SetsSerialized

\* Each thread makes one call and then goes on elsewhere in the program.
CHECK_DEADLOCK FALSE
