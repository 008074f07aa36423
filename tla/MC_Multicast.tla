---------------------------- MODULE MC_Multicast ----------------------------
(***************************************************************************)
(* Three shards of two members, both senders, and the latency benchmark, *)
(* checked in one run: a behaviour picks one of them in its first state   *)
(* (part) and only that one takes steps, the others stay initial.         *)
(*   "mcast": a subgroup without persistent fields.  One slot per sender  *)
(*   and three messages each, so every message after the first reuses a  *)
(*   slot; ordered delivery, the refinement of AtomicMulticast and         *)
(*   progress through null messages.                                       *)
(*   "persist": a persistent subgroup, one message per sender (versions 0 *)
(*   and 1), member 1's application waiting on the persistence frontier   *)
(*   for a version of its choice while member 0 may lag in delivering,   *)
(*   persisting or pushing its row.                                        *)
(*   "verify": a persistent subgroup with signatures, one message per    *)
(*   sender, no waiting application; the signed log's counters follow     *)
(*   persisted_num and are read from stale copies of the rows.            *)
(*   "latency": the latency benchmark (LatencyTest) run by three nodes,    *)
(*   two messages per sender, under every sender layout.                   *)
(***************************************************************************)
EXTENDS Naturals

CONSTANTS junk   \* a value of my_id that is no node id

VARIABLES
    part,
    future_message_index, slots, num_received_sst, num_received, seq_num,
    delivered_num, delivered, persisted_num, minimum_persisted_version, waiter,
    signed_num, verified_num, minimum_verified_version,
    p_future_message_index, p_slots, p_num_received_sst, p_num_received,
    p_seq_num, p_delivered_num, p_delivered, p_persisted_num,
    p_minimum_persisted_version, p_waiter,
    p_signed_num, p_verified_num, p_minimum_verified_version,
    v_future_message_index, v_slots, v_num_received_sst, v_num_received,
    v_seq_num, v_delivered_num, v_delivered, v_persisted_num,
    v_minimum_persisted_version, v_waiter,
    v_signed_num, v_verified_num, v_minimum_verified_version,
    lt_selector, lt_my_id, lt_phase, lt_sent, lt_delivered, lt_num_delivered,
    lt_time_index, lt_done

mcastVars == <<future_message_index, slots, num_received_sst, num_received, seq_num,
               delivered_num, delivered, persisted_num, minimum_persisted_version, waiter,
               signed_num, verified_num, minimum_verified_version>>

persistVars == <<p_future_message_index, p_slots, p_num_received_sst, p_num_received,
                 p_seq_num, p_delivered_num, p_delivered, p_persisted_num,
                 p_minimum_persisted_version, p_waiter,
                 p_signed_num, p_verified_num, p_minimum_verified_version>>

verifyVars == <<v_future_message_index, v_slots, v_num_received_sst, v_num_received,
                v_seq_num, v_delivered_num, v_delivered, v_persisted_num,
                v_minimum_persisted_version, v_waiter,
                v_signed_num, v_verified_num, v_minimum_verified_version>>

latencyVars == <<lt_selector, lt_my_id, lt_phase, lt_sent, lt_delivered,
                 lt_num_delivered, lt_time_index, lt_done>>

allVars == <<part, mcastVars, persistVars, verifyVars, latencyVars>>

M == INSTANCE MulticastGroup
        WITH NumMembers <- 2, Senders <- {0, 1}, WindowSize <- 1, MaxIndex <- 3,
             Waiters <- {}, AllRowsBackpressure <- TRUE

P == INSTANCE MulticastGroup
        WITH NumMembers <- 2, Senders <- {0, 1}, WindowSize <- 1, MaxIndex <- 1,
             Waiters <- {1}, AllRowsBackpressure <- TRUE,
             future_message_index <- p_future_message_index, slots <- p_slots,
             num_received_sst <- p_num_received_sst, num_received <- p_num_received,
             seq_num <- p_seq_num, delivered_num <- p_delivered_num,
             delivered <- p_delivered, persisted_num <- p_persisted_num,
             minimum_persisted_version <- p_minimum_persisted_version,
             waiter <- p_waiter, signed_num <- p_signed_num,
             verified_num <- p_verified_num,
             minimum_verified_version <- p_minimum_verified_version

V == INSTANCE MulticastGroup
        WITH NumMembers <- 2, Senders <- {0, 1}, WindowSize <- 1, MaxIndex <- 1,
             Waiters <- {}, AllRowsBackpressure <- TRUE,
             future_message_index <- v_future_message_index, slots <- v_slots,
             num_received_sst <- v_num_received_sst, num_received <- v_num_received,
             seq_num <- v_seq_num, delivered_num <- v_delivered_num,
             delivered <- v_delivered, persisted_num <- v_persisted_num,
             minimum_persisted_version <- v_minimum_persisted_version,
             waiter <- v_waiter, signed_num <- v_signed_num,
             verified_num <- v_verified_num,
             minimum_verified_version <- v_minimum_verified_version

L == INSTANCE LatencyTest
        WITH num_nodes <- 3, num_messages <- 2, Junk <- junk,
             selector <- lt_selector, my_id <- lt_my_id, phase <- lt_phase,
             sent <- lt_sent, delivered <- lt_delivered,
             num_delivered <- lt_num_delivered, time_index <- lt_time_index,
             done <- lt_done

Init ==
    /\ part \in {"mcast", "persist", "verify", "latency"}
    /\ M!Init
    /\ P!Init
    /\ V!Init
    /\ L!Init
    \* Outside its part the benchmark sits in one of its initial states.
    /\ part # "latency" => lt_selector = 0 /\ lt_my_id = [n \in 0 .. 2 |-> n]

Next ==
    \/ /\ part = "mcast"
       /\ M!MulticastNext
       /\ UNCHANGED <<part, persistVars, verifyVars, latencyVars>>
    \/ /\ part = "persist"
       /\ P!MulticastNext \/ P!PersistenceNext
       /\ UNCHANGED <<part, mcastVars, verifyVars, latencyVars>>
    \/ /\ part = "verify"
       /\ V!Next
       /\ UNCHANGED <<part, mcastVars, persistVars, latencyVars>>
    \/ /\ part = "latency"
       /\ L!Next
       /\ UNCHANGED <<part, mcastVars, persistVars, verifyVars>>

\* A benchmark node's step in the latency part.
LatencyStep(n) ==
    part = "latency" /\ L!NodeStep(n) /\ UNCHANGED <<part, mcastVars, persistVars, verifyVars>>

\* A shard a behaviour does not pick has no fair action enabled in its
\* initial state, so each shard's fairness constrains only its own part.
\* The benchmark's nodes can step from their initial state, so their
\* fairness (LatencyTest's: each node's main and predicate threads) is
\* stated for the steps of the latency part.
Spec ==
    /\ Init /\ [][Next]_allVars
    /\ M!MulticastFairness /\ P!PersistenceFairness
    /\ \A n \in 0 .. 2 : WF_allVars(LatencyStep(n))

-----------------------------------------------------------------------------
(* The properties of MulticastGroup and LatencyTest, of the part each is  *)
(* about; in the other parts their state stays initial.                   *)

TypeOK == M!TypeOK /\ P!TypeOK /\ V!TypeOK /\ L!TypeOK

DeliveredIntact == M!DeliveredIntact

DeliveredOnlyStable == M!DeliveredOnlyStable

SentIsDelivered == M!SentIsDelivered

ImplementsAtomicMulticast == M!ImplementsAtomicMulticast

FrontierPersisted == P!FrontierPersisted

WaitReturns == P!WaitReturns

VerifiedFrontierSound == V!VerifiedFrontierSound

DoneMeansAllDelivered == L!DoneMeansAllDelivered

\* The benchmark ends only in its own part: elsewhere its nodes never start.
AllLeave == part = "latency" => L!AllLeave

=============================================================================
