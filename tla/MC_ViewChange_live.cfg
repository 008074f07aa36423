\* View-change progress with four members and two failures.
CONSTANTS
    Nodes <- MC_SmallNodes
    MaxFailures <- MC_MaxFailures
    MaxChanges <- MC_MaxChanges
    Senders <- MC_NoSenders
    MaxMsgs <- MC_MaxMsgs
SPECIFICATION Spec
PROPERTY CrashedRemoved
\* The group stops changing once its failures are handled or it has
\* shut down for lack of a majority.
CHECK_DEADLOCK FALSE
