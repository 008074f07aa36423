\* Conf::initialize() publishes CONF_INITIALIZED before its sanity checks.
CONSTANTS
    t1 = t1
    t2 = t2
    t3 = t3
    Threads <- MC_Threads
    Getters <- MC_Getters

SPECIFICATION Spec

INVARIANT
    GetSeesOnlySaneConf

CHECK_DEADLOCK FALSE
