------------------------- MODULE MC_MulticastGroup -------------------------
(***************************************************************************)
(* Model sizes for MulticastGroup under the send window of spec 4.2:      *)
(* three members of which ranks 1 and 2 send and rank 0 only receives     *)
(* (the half-senders layout of latency_test), two slots per sender and    *)
(* three messages, so a slot is reused under the rule of spec 4.2 (with   *)
(* one slot that rule admits no send at all).  No application thread      *)
(* waits on the persistence frontier.  The checked configuration of the   *)
(* multicast engine is in MC_Multicast.                                    *)
(***************************************************************************)
EXTENDS MulticastGroup

Three_NumMembers == 3
Three_Senders == {1, 2}

NoWaiters == {}

SpecWindow_WindowSize == 2
SpecWindow_MaxIndex == 3

=============================================================================
