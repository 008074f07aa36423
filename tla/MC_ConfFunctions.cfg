\* The one-time initialization of Conf across threads; which source sets
\* a key, where a relative file name resolves, and which buffer holds a
\* payload, each over every input of its bounded set.
CONSTANTS
    Key = key
    UnknownOption = unknown
    None = none
    Unset = unset
    t1 = t1
    t2 = t2
    t3 = t3
SPECIFICATION Spec
INVARIANT TypeOK
INVARIANT SingleConstruction
INVARIANT GetSeesDefaults
PROPERTY GetReturns
INVARIANT LayeredPrecedence
INVARIANT ResolvesBesideConfFile
INVARIANT EveryPayloadFits
\* Each part stops once its function has returned: every thread has
\* returned, thrown or terminated, the configuration is loaded, or
\* loadExtraFile has thrown.
CHECK_DEADLOCK FALSE
