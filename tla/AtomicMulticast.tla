-------------------------- MODULE AtomicMulticast --------------------------
(***************************************************************************)
(* What a Derecho shard promises its members (spec.md section 1 and 3,    *)
(* invariants 2 and 6): messages of the senders are delivered to every    *)
(* member in one order, the round-robin interleaving of the senders'      *)
(* streams, and every member's delivered sequence is a prefix of it.      *)
(* A member may deliver several messages in one step, as the delivery    *)
(* predicate does.  Nothing here says how stability is detected.          *)
(***************************************************************************)
EXTENDS Integers, FiniteSets, Sequences

CONSTANTS
    NumMembers,   \* members of the shard, by rank 0 .. NumMembers - 1
    Senders,      \* ranks whose sender flag is set
    MaxIndex      \* messages each sender may send (bound of the model)

Members == 0 .. NumMembers - 1

VARIABLES
    sent,         \* sent[s]: messages sender s has multicast
    delivered     \* delivered[m]: messages m has delivered, in order

vars == <<sent, delivered>>

k == Cardinality(Senders)

SenderRank(s) == Cardinality({x \in Senders : x < s})

SenderOfRank == [r \in 0 .. k - 1 |-> CHOOSE s \in Senders : SenderRank(s) = r]

\* The q-th message (from 0) of the round-robin order.
Nth(q) == [sender |-> SenderOfRank[q % k], index |-> q \div k]

Init ==
    /\ sent = [s \in Senders |-> 0]
    /\ delivered = [m \in Members |-> <<>>]

Multicast(s) ==
    /\ sent[s] < MaxIndex
    /\ sent' = [sent EXCEPT ![s] = @ + 1]
    /\ UNCHANGED delivered

\* m delivers the next n messages of the order, all of them already sent.
DeliverNext(m) ==
    LET from == Len(delivered[m]) IN
    \E n \in 1 .. k * MaxIndex - from :
        /\ \A q \in from .. from + n - 1 : Nth(q).index < sent[Nth(q).sender]
        /\ delivered' = [delivered EXCEPT ![m] = @ \o [j \in 1 .. n |-> Nth(from + j - 1)]]
        /\ UNCHANGED sent

Next ==
    \/ \E s \in Senders : Multicast(s)
    \/ \E m \in Members : DeliverNext(m)

Spec == Init /\ [][Next]_vars

=============================================================================
