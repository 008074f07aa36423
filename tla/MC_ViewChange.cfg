\* View-change safety with five members and two failures.
CONSTANTS
    Nodes <- MC_Nodes
    MaxFailures <- MC_MaxFailures
    MaxChanges <- MC_MaxChanges
    Senders <- MC_NoSenders
    MaxMsgs <- MC_MaxMsgs
SPECIFICATION Spec
INVARIANT CountersOrdered
INVARIANT ViewAgreement
\* The group stops changing once its failures are handled.
CHECK_DEADLOCK FALSE
