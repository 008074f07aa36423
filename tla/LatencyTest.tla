---------------------------- MODULE LatencyTest ----------------------------
(***************************************************************************)
(* The latency benchmark of src/applications/archive/latency_test.cpp run *)
(* on num_nodes nodes of one ordered subgroup.  The membership function   *)
(* picks the senders from num_senders_selector, each sender multicasts    *)
(* num_messages messages, and every node's stability callback counts      *)
(* deliveries, timestamps those whose sender is its own id, and sets      *)
(* done once the count reaches the total the selector implies.  main      *)
(* then spins on done, meets the others in barrier_sync and leaves.       *)
(*                                                                         *)
(* Delivery is the shard's promise (module AtomicMulticast): every node   *)
(* delivers the senders' messages in the same round-robin order, as far  *)
(* as they have been sent.  Node ids equal ranks.                         *)
(***************************************************************************)
EXTENDS Naturals, FiniteSets

CONSTANTS
    num_nodes,      \* argv: nodes of the group
    num_messages,   \* messages per sender (1000 in the code)
    Junk            \* a value of my_id before it is assigned that is no node id

Nodes == 0 .. num_nodes - 1

\* Mutant: the half-senders loop stops one rank early (i < instead of i <=).
IsSenderOffByOne(selector, rank) ==
    CASE selector = 0 -> TRUE
      [] selector = 1 -> rank >= (num_nodes - 1) \div 2
      [] OTHER        -> rank = num_nodes - 1

\* The membership function: which ranks get is_sender = 1.
IsSender(selector, rank) ==
    CASE selector = 0 -> TRUE
      [] selector = 1 -> rank > (num_nodes - 1) \div 2
      [] OTHER        -> rank = num_nodes - 1

SendersOf(selector) == {r \in Nodes : IsSender(selector, r)}

\* Mutant: the half-senders count rounds num_nodes / 2 up.
DoneTargetRoundUp(selector) ==
    CASE selector = 0 -> num_messages * num_nodes
      [] selector = 1 -> num_messages * ((num_nodes + 1) \div 2)
      [] OTHER        -> num_messages

\* The count of deliveries at which the stability callback sets done.
DoneTarget(selector) ==
    CASE selector = 0 -> num_messages * num_nodes
      [] selector = 1 -> num_messages * (num_nodes \div 2)
      [] OTHER        -> num_messages

VARIABLES
    selector,        \* num_senders_selector, the same argument at every node
    my_id,           \* my_id[n]: declared at line 59, assigned at line 136
    phase,           \* phase[n]: where main of node n is
    sent,            \* sent[n]: messages node n has sent
    delivered,       \* delivered[n]: length of the delivered prefix at n
    num_delivered,   \* the callback's num_delivered at n
    time_index,      \* the callback's time_index at n
    done             \* the volatile done flag of n

vars == <<selector, my_id, phase, sent, delivered, num_delivered,
          time_index, done>>

\* Round-robin order of the shard: the q-th delivered message (from 0).
SenderRankOf(sel, s) == Cardinality({x \in SendersOf(sel) : x < s})

NthSender(q) ==
    LET k == Cardinality(SendersOf(selector))
    IN CHOOSE s \in SendersOf(selector) : SenderRankOf(selector, s) = q % k

NthIndex(q) == q \div Cardinality(SendersOf(selector))

TotalMessages == num_messages * Cardinality(SendersOf(selector))

Init ==
    /\ selector \in 0 .. 2
    \* The group constructor has returned at every node (the membership
    \* function throws until all num_nodes have joined); my_id still holds
    \* whatever the stack held, any id or none.
    /\ my_id \in [Nodes -> Nodes \cup {Junk}]
    /\ phase = [n \in Nodes |-> "constructed"]
    /\ sent = [n \in Nodes |-> 0]
    /\ delivered = [n \in Nodes |-> 0]
    /\ num_delivered = [n \in Nodes |-> 0]
    /\ time_index = [n \in Nodes |-> 0]
    /\ done = [n \in Nodes |-> FALSE]

-----------------------------------------------------------------------------
\* Lines 134-136: my_id = group_members[my_rank]; then lines 151-161 choose
\* whether this node runs send_all.
AssignId(n) ==
    /\ phase[n] = "constructed"
    /\ my_id' = [my_id EXCEPT ![n] = n]
    /\ phase' = [phase EXCEPT ![n] =
                    IF IsSender(selector, n) THEN "sending" ELSE "waiting"]
    /\ UNCHANGED <<selector, sent, delivered, num_delivered, time_index, done>>

\* Mutant: send_all loops while i <= num_messages.
SendOneMore(n) ==
    /\ phase[n] = "sending"
    /\ sent' = [sent EXCEPT ![n] = @ + 1]
    /\ phase' = [phase EXCEPT ![n] =
                    IF sent[n] = num_messages THEN "waiting" ELSE "sending"]
    /\ UNCHANGED <<selector, my_id, delivered, num_delivered, time_index, done>>

\* One iteration of send_all (lines 139-149).
Send(n) ==
    /\ phase[n] = "sending"
    /\ sent' = [sent EXCEPT ![n] = @ + 1]
    /\ phase' = [phase EXCEPT ![n] =
                    IF sent[n] + 1 = num_messages THEN "waiting" ELSE "sending"]
    /\ UNCHANGED <<selector, my_id, delivered, num_delivered, time_index, done>>

\* The stability callback (lines 60-83) for the next message of the order,
\* once it has been sent.
Deliver(n) ==
    LET q == delivered[n]
        s == NthSender(q)
    IN /\ q < TotalMessages
       /\ NthIndex(q) < sent[s]
       /\ delivered' = [delivered EXCEPT ![n] = q + 1]
       /\ num_delivered' = [num_delivered EXCEPT ![n] = @ + 1]
       /\ time_index' = [time_index EXCEPT ![n] = IF s = my_id[n] THEN @ + 1 ELSE @]
       /\ done' = [done EXCEPT ![n] = @ \/ num_delivered[n] + 1 = DoneTarget(selector)]
       /\ UNCHANGED <<selector, my_id, phase, sent>>

\* Lines 163-191: the spin on done ends, the statistics are aggregated and
\* the node enters barrier_sync.
Finish(n) ==
    /\ phase[n] = "waiting"
    /\ done[n]
    /\ phase' = [phase EXCEPT ![n] = "barrier"]
    /\ UNCHANGED <<selector, my_id, sent, delivered, num_delivered, time_index, done>>

\* Group::barrier_sync "waits until all members of the group have called
\* this function": every node has entered it (some may have passed it).
barrier_sync == \A m \in Nodes : phase[m] \in {"barrier", "left"}

\* barrier_sync returns; then leave().
Leave(n) ==
    /\ phase[n] = "barrier"
    /\ barrier_sync
    /\ phase' = [phase EXCEPT ![n] = "left"]
    /\ UNCHANGED <<selector, my_id, sent, delivered, num_delivered, time_index, done>>

NodeStep(n) ==
    \/ AssignId(n)
    \/ Send(n)
    \/ Deliver(n)
    \/ Finish(n)
    \/ Leave(n)

Next == \E n \in Nodes : NodeStep(n)

\* Main threads and the predicate thread of every node are scheduled, and
\* the shard keeps delivering what has been sent (SentIsDelivered of
\* MulticastGroup).
Spec == Init /\ [][Next]_vars /\ \A n \in Nodes : WF_vars(NodeStep(n))

-----------------------------------------------------------------------------
TypeOK ==
    /\ selector \in 0 .. 2
    /\ my_id \in [Nodes -> Nodes \cup {Junk}]
    /\ phase \in [Nodes -> {"constructed", "sending", "waiting", "barrier", "left"}]
    /\ sent \in [Nodes -> 0 .. num_messages]
    /\ delivered \in [Nodes -> 0 .. num_messages * num_nodes]
    /\ done \in [Nodes -> BOOLEAN]

\* A node leaves its spin on done only when it has delivered every message
\* of every sender: the count the callback waits for (lines 70-82) agrees
\* with the senders the membership function marks (lines 106-118).
DoneMeansAllDelivered ==
    \A n \in Nodes : done[n] => delivered[n] = TotalMessages

\* Every node gets through barrier_sync and leaves the group.
AllLeave == <>(\A n \in Nodes : phase[n] = "left")

\* The callback writes end_times[time_index++] only inside the vector of
\* num_messages entries.
EndTimesInBounds == \A n \in Nodes : time_index[n] <= num_messages

=============================================================================
