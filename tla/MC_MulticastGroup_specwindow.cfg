\* The send window of spec section 4.2: a sender reserves a slot while
\* future_message_indices - delivered_num < window_size, reading only its
\* own row.
CONSTANTS
    NumMembers <- Three_NumMembers
    Senders <- Three_Senders
    Waiters <- NoWaiters
    WindowSize <- SpecWindow_WindowSize
    MaxIndex <- SpecWindow_MaxIndex
    AllRowsBackpressure = FALSE

SPECIFICATION MulticastSpec

INVARIANT DeliveredIntact

CHECK_DEADLOCK FALSE
