\* Ragged-trim consistency when a sender fails mid-send.
CONSTANTS
    Nodes <- Trim_Nodes
    MaxFailures <- Trim_MaxFailures
    MaxChanges <- MC_MaxChanges
    Senders <- Trim_Senders
    MaxMsgs <- Trim_MaxMsgs
SPECIFICATION Spec
INVARIANT TrimAgreement
INVARIANT DeliveredWasReceived
\* The group stops changing once its failure is handled and the senders
\* have sent their messages.
CHECK_DEADLOCK FALSE
