--------------------------- MODULE MC_ViewChange ---------------------------
\* Five members, two of which may fail, so that two departures can be
\* pending at once and a failed leader's proposals are taken over; four
\* members for progress, where two failures leave no majority and the
\* partitioning check stops the group.  These two runs have no senders.
\* The ragged trim: three members of which the two lowest send two
\* messages each and one may fail, so the leader can fail mid-send with
\* its messages received by one survivor only, while the other sender
\* keeps sending, and the next leader trims both senders.
EXTENDS ViewChange

MC_Nodes == 0 .. 4
MC_SmallNodes == 0 .. 3
MC_MaxFailures == 2
MC_MaxChanges == 2
MC_NoSenders == {}
MC_MaxMsgs == 0
Trim_Nodes == 0 .. 2
Trim_MaxFailures == 1
Trim_Senders == {0, 1}
Trim_MaxMsgs == 2

=============================================================================
