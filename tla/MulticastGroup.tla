--------------------------- MODULE MulticastGroup ---------------------------
(***************************************************************************)
(* The multicast engine of one shard of one subgroup within one view:    *)
(* the slot-ring data plane (SMC), receive accounting in the SST, the     *)
(* asynchronous push of SST rows to the other members, the delivery       *)
(* predicate that delivers once a sequence number is stable, null         *)
(* messages from a silent sender, and the send window.                    *)
(*                                                                         *)
(* Each member o keeps a copy of every row r of the SST; o's own row is    *)
(* the authoritative one and reaches the others only when it is pushed.   *)
(* A message is identified by (sender, index); its payload is modelled by *)
(* its index, written into slot index % WindowSize of the sender's row.   *)
(* A received SMC message is kept as a pointer into that slot             *)
(* (SSTMessage::buf), so its payload is read only when it is delivered.   *)
(***************************************************************************)
EXTENDS Integers, FiniteSets, Sequences, FiniteSetsExt

CONSTANTS
    NumMembers,          \* members of the shard, by rank 0 .. NumMembers - 1
    Senders,             \* ranks whose sender flag is set
    WindowSize,          \* DerechoParams::window_size, slots per sender ring
    MaxIndex,            \* bound: messages (payload or null) per sender
    Waiters,             \* members whose application thread waits on the
                         \* persistence frontier, once
    AllRowsBackpressure  \* TRUE: a sender checks every row's delivered_num
                         \* before reusing a slot; FALSE: the rule of spec
                         \* section 4.2, which reads its own row only

Members == 0 .. NumMembers - 1

ASSUME /\ NumMembers \in Nat \ {0}
       /\ Senders \subseteq Members /\ Senders # {}
       /\ Waiters \subseteq Members
       /\ WindowSize \in Nat \ {0}
       /\ MaxIndex \in Nat \ {0}
       /\ AllRowsBackpressure \in BOOLEAN

Nil == -1

VARIABLES
    future_message_index, \* future_message_index[s]: next index sender s uses
    slots,                \* slots[o][s][j]: o's copy of slot j of s's row
    num_received_sst,     \* num_received_sst[o][s]: o's copy of s's published count
    num_received,         \* num_received[m][s]: in-order messages m received from s
    seq_num,              \* seq_num[o][r]: o's copy of r's seq_num
    delivered_num,        \* delivered_num[o][r]: o's copy of r's delivered_num
    delivered,            \* history: delivered[m], (sender, header index) of
                          \* each message m's stability callback was given
    persisted_num,        \* persisted_num[o][r]: o's copy of r's persisted_num
    minimum_persisted_version, \* minimum_persisted_version[m]: m's atomic
    waiter,               \* waiter[m]: m's application thread in
                          \* wait_for_global_persistence_frontier
    signed_num,           \* signed_num[o][r]: o's copy of r's signed_num
    verified_num,         \* verified_num[o][r]: o's copy of r's verified_num
    minimum_verified_version \* minimum_verified_version[m]: m's atomic

vars == <<future_message_index, slots, num_received_sst, num_received,
          seq_num, delivered_num, delivered, persisted_num,
          minimum_persisted_version, waiter, signed_num, verified_num,
          minimum_verified_version>>

\* The signed log's counters, left alone by the persistence steps proper.
verifyVars == <<signed_num, verified_num, minimum_verified_version>>

\* The persistence side, left alone by the steps of the multicast engine.
persistVars == <<persisted_num, minimum_persisted_version, waiter, verifyVars>>

-----------------------------------------------------------------------------
(* Sequence numbers: (sender rank r, index i) is i * k + r.               *)

\* MulticastGroup::get_num_senders
NumSenders == Cardinality(Senders)

SenderRank(s) == Cardinality({x \in Senders : x < s})

SenderOfRank == [r \in 0 .. NumSenders - 1 |-> CHOOSE s \in Senders : SenderRank(s) = r]

SeqOf(s, i) == i * NumSenders + SenderRank(s)

\* The largest seq such that m has received every message up to it, from
\* m's receive counters nr.
InOrderSeqNum(nr) == Min({SeqOf(s, nr[s]) : s \in Senders}) - 1

SlotOf(i) == i % WindowSize

\* The versions an application may ask about: every seq of the model.
Versions == 0 .. NumSenders * MaxIndex - 1

\* What m hands to the stability callback for seq q: the sender the seq
\* stands for, and the index in the header found in m's copy of the slot.
DeliveredMsg(m, q) ==
    LET s == SenderOfRank[q % NumSenders]
    IN [sender |-> s, index |-> slots[m][s][SlotOf(q \div NumSenders)]]

-----------------------------------------------------------------------------
Init ==
    /\ future_message_index = [s \in Senders |-> 0]
    /\ slots = [o \in Members |-> [s \in Senders |-> [j \in 0 .. WindowSize - 1 |-> Nil]]]
    /\ num_received_sst = [o \in Members |-> [s \in Senders |-> 0]]
    /\ num_received = [m \in Members |-> [s \in Senders |-> 0]]
    /\ seq_num = [o \in Members |-> [r \in Members |-> -1]]
    /\ delivered_num = [o \in Members |-> [r \in Members |-> -1]]
    /\ delivered = [m \in Members |-> <<>>]
    /\ persisted_num = [o \in Members |-> [r \in Members |-> -1]]
    /\ minimum_persisted_version = [m \in Members |-> -1]
    /\ waiter = [m \in Members |-> [state |-> "idle", version |-> -1, result |-> FALSE]]
    /\ signed_num = [o \in Members |-> [r \in Members |-> -1]]
    /\ verified_num = [o \in Members |-> [r \in Members |-> -1]]
    /\ minimum_verified_version = [m \in Members |-> -1]

-----------------------------------------------------------------------------
(* Send side: reserve a slot (backpressure), fill it, publish it.         *)

\* Mutant: the reservation compares with the sender's own delivered_num.
WindowOpenOwnRow(s) ==
    delivered_num[s][s] >= SeqOf(s, future_message_index[s] - WindowSize)

\* The slot for the next index last held index i - WindowSize; it may be
\* reused once that message is delivered everywhere.
WindowOpen(s) ==
    IF AllRowsBackpressure
    THEN \A m \in Members :
            delivered_num[s][m] >= SeqOf(s, future_message_index[s] - WindowSize)
    ELSE future_message_index[s] - delivered_num[s][s] < WindowSize

\* get_sendbuffer_ptr + send on the SMC plane: write the slot in the own
\* row and publish the new count.
SendMessage(s) ==
    LET i == future_message_index[s] IN
    /\ i < MaxIndex
    /\ WindowOpen(s)
    /\ future_message_index' = [future_message_index EXCEPT ![s] = i + 1]
    /\ slots' = [slots EXCEPT ![s][s][SlotOf(i)] = i]
    /\ num_received_sst' = [num_received_sst EXCEPT ![s][s] = i + 1]
    /\ UNCHANGED <<num_received, seq_num, delivered_num, delivered>>
    /\ UNCHANGED persistVars

\* An application thread sends a payload.
Send(s) == SendMessage(s)

\* Mutant: a null is sent only when another sender is two messages ahead.
NullNeededLate(s) ==
    \E o \in Senders : num_received[s][o] > future_message_index[s] + 1

\* Another sender has sent messages this sender has not matched.
NullNeeded(s) ==
    \E o \in Senders : num_received[s][o] > future_message_index[s]

\* The timeout thread injects a null message for a silent sender.
SendNull(s) ==
    /\ NullNeeded(s)
    /\ SendMessage(s)

-----------------------------------------------------------------------------
(* Receive side: a published slot is taken in order, seq_num advances.    *)

\* Mutant: the slot is taken without checking the published count.
ReceiveUnpublished(o, s) ==
    LET i  == num_received[o][s]
        nr == [num_received[o] EXCEPT ![s] = i + 1]
    IN
    /\ num_received' = [num_received EXCEPT ![o] = nr]
    /\ seq_num' = [seq_num EXCEPT ![o][o] = InOrderSeqNum(nr)]
    /\ UNCHANGED <<future_message_index, slots, num_received_sst,
                   delivered_num, delivered>>
    /\ UNCHANGED persistVars

Receive(o, s) ==
    LET i  == num_received[o][s]
        nr == [num_received[o] EXCEPT ![s] = i + 1]
    IN
    /\ num_received_sst[o][s] > i
    /\ num_received' = [num_received EXCEPT ![o] = nr]
    /\ seq_num' = [seq_num EXCEPT ![o][o] = InOrderSeqNum(nr)]
    /\ UNCHANGED <<future_message_index, slots, num_received_sst,
                   delivered_num, delivered>>
    /\ UNCHANGED persistVars

-----------------------------------------------------------------------------
(* Delivery predicate: everything up to the minimum seq_num is stable.    *)

\* Mutant: the delivered counter is not advanced after the batch.
DeliverNoAdvance(m) ==
    LET stable == Min({seq_num[m][r] : r \in Members})
        old    == delivered_num[m][m]
    IN
    /\ stable > old
    /\ delivered' = [delivered EXCEPT ![m] =
                        @ \o [j \in 1 .. stable - old |-> DeliveredMsg(m, old + j)]]
    /\ UNCHANGED <<future_message_index, slots, num_received_sst,
                   num_received, seq_num, delivered_num>>
    /\ UNCHANGED persistVars

\* Mutant: stability taken as the largest seq_num instead of the least.
DeliverMaxStable(m) ==
    LET stable == Max({seq_num[m][r] : r \in Members})
        old    == delivered_num[m][m]
    IN
    /\ stable > old
    /\ delivered' = [delivered EXCEPT ![m] =
                        @ \o [j \in 1 .. stable - old |-> DeliveredMsg(m, old + j)]]
    /\ delivered_num' = [delivered_num EXCEPT ![m][m] = stable]
    /\ UNCHANGED <<future_message_index, slots, num_received_sst,
                   num_received, seq_num>>
    /\ UNCHANGED persistVars

Deliver(m) ==
    LET stable == Min({seq_num[m][r] : r \in Members})
        old    == delivered_num[m][m]
    IN
    /\ stable > old
    /\ delivered' = [delivered EXCEPT ![m] =
                        @ \o [j \in 1 .. stable - old |-> DeliveredMsg(m, old + j)]]
    /\ delivered_num' = [delivered_num EXCEPT ![m][m] = stable]
    /\ UNCHANGED <<future_message_index, slots, num_received_sst,
                   num_received, seq_num>>
    /\ UNCHANGED persistVars

-----------------------------------------------------------------------------
(* Transport: a member's own row reaches one peer's copy.                 *)

\* The SMC region of sender s (slots and published count) reaches o.
PushSlots(s, o) ==
    /\ s # o
    /\ num_received_sst[o][s] # num_received_sst[s][s]
    /\ slots' = [slots EXCEPT ![o][s] = slots[s][s]]
    /\ num_received_sst' = [num_received_sst EXCEPT ![o][s] = num_received_sst[s][s]]
    /\ UNCHANGED <<future_message_index, num_received, seq_num,
                   delivered_num, delivered>>
    /\ UNCHANGED persistVars

\* Mutant: the pushed counters leave out persisted_num.
PushCountersNoPersisted(r, o) ==
    /\ r # o
    /\ <<seq_num[o][r], delivered_num[o][r]>> # <<seq_num[r][r], delivered_num[r][r]>>
    /\ seq_num' = [seq_num EXCEPT ![o][r] = seq_num[r][r]]
    /\ delivered_num' = [delivered_num EXCEPT ![o][r] = delivered_num[r][r]]
    /\ UNCHANGED <<future_message_index, slots, num_received_sst,
                   num_received, delivered>>
    /\ UNCHANGED persistVars

\* The counters of row r that push_row_except_slots copies, in o's copy.
RowCounters(o, r) ==
    <<seq_num[o][r], delivered_num[o][r], persisted_num[o][r],
      signed_num[o][r], verified_num[o][r]>>

\* push_row_except_slots: r's counters, the persistence counters among
\* them, reach o.
PushCounters(r, o) ==
    /\ r # o
    /\ RowCounters(o, r) # RowCounters(r, r)
    /\ seq_num' = [seq_num EXCEPT ![o][r] = seq_num[r][r]]
    /\ delivered_num' = [delivered_num EXCEPT ![o][r] = delivered_num[r][r]]
    /\ persisted_num' = [persisted_num EXCEPT ![o][r] = persisted_num[r][r]]
    /\ signed_num' = [signed_num EXCEPT ![o][r] = signed_num[r][r]]
    /\ verified_num' = [verified_num EXCEPT ![o][r] = verified_num[r][r]]
    /\ UNCHANGED <<future_message_index, slots, num_received_sst,
                   num_received, delivered, minimum_persisted_version, waiter,
                   minimum_verified_version>>

-----------------------------------------------------------------------------
(* Persistence: the version of the message at seq q is q (one version per *)
(* delivered message, in delivery order).  The persistence collaborator   *)
(* persists delivered versions asynchronously, the predicate thread keeps *)
(* the shard minimum in an atomic, and an application thread waits on it. *)

\* The PersistenceManager of m persists every version delivered so far
\* and writes the latest into m's own persisted_num.
Persist(m) ==
    /\ persisted_num[m][m] < delivered_num[m][m]
    /\ persisted_num' = [persisted_num EXCEPT ![m][m] = delivered_num[m][m]]
    /\ UNCHANGED <<future_message_index, slots, num_received_sst, num_received,
                   seq_num, delivered_num, delivered, minimum_persisted_version, waiter>>
    /\ UNCHANGED verifyVars

\* Mutant: the minimum is taken over m's own row only.
MinPersistedOwnRow(m) == persisted_num[m][m]

\* The minimum of persisted_num over the shard, in m's copies of the rows.
MinPersisted(m) == Min({persisted_num[m][r] : r \in Members})

\* update_min_persisted_num: the persistence predicate of m stores the
\* shard minimum in minimum_persisted_version and wakes the waiters.
update_min_persisted_num(m) ==
    /\ MinPersisted(m) # minimum_persisted_version[m]
    /\ minimum_persisted_version' = [minimum_persisted_version EXCEPT ![m] = MinPersisted(m)]
    /\ UNCHANGED <<future_message_index, slots, num_received_sst, num_received,
                   seq_num, delivered_num, delivered, persisted_num, waiter>>
    /\ UNCHANGED verifyVars

\* wait_for_global_persistence_frontier(version), called once by m's
\* application thread: a version beyond the latest delivered one returns
\* false at once; otherwise the thread waits on minimum_persisted_cv.
wait_for_global_persistence_frontier(m, v) ==
    /\ waiter[m].state = "idle"
    /\ waiter' = [waiter EXCEPT ![m] =
          IF v > delivered_num[m][m]
          THEN [state |-> "returned", version |-> v, result |-> FALSE]
          ELSE [state |-> "waiting", version |-> v, result |-> FALSE]]
    /\ UNCHANGED <<future_message_index, slots, num_received_sst, num_received,
                   seq_num, delivered_num, delivered, persisted_num,
                   minimum_persisted_version>>
    /\ UNCHANGED verifyVars

\* The waiting thread wakes once the frontier has reached its version and
\* returns true.
FrontierReached(m) ==
    /\ waiter[m].state = "waiting"
    /\ minimum_persisted_version[m] >= waiter[m].version
    /\ waiter' = [waiter EXCEPT ![m].state = "returned", ![m].result = TRUE]
    /\ UNCHANGED <<future_message_index, slots, num_received_sst, num_received,
                   seq_num, delivered_num, delivered, persisted_num,
                   minimum_persisted_version>>
    /\ UNCHANGED verifyVars

-----------------------------------------------------------------------------
(* The signed log: signatures are added to log entries as they are        *)
(* persisted, so signed_num follows persisted_num; a member verifies a    *)
(* version once every member's row shows it signed, and the predicate     *)
(* keeps the shard minimum of verified_num in minimum_verified_version.   *)

\* The PersistenceManager of m signs the entries persisted so far and
\* writes the latest signed version into m's own signed_num.
Sign(m) ==
    /\ signed_num[m][m] < persisted_num[m][m]
    /\ signed_num' = [signed_num EXCEPT ![m][m] = persisted_num[m][m]]
    /\ UNCHANGED <<future_message_index, slots, num_received_sst, num_received,
                   seq_num, delivered_num, delivered, persisted_num,
                   minimum_persisted_version, waiter, verified_num,
                   minimum_verified_version>>

\* Mutant: verification reads the rows' persisted_num instead of signed_num.
SignedEverywherePersisted(m) == Min({persisted_num[m][r] : r \in Members})

\* The latest version m finds signed in every row, in m's copies.
SignedEverywhere(m) == Min({signed_num[m][r] : r \in Members})

\* m verifies the other members' signatures up to the latest version all
\* of them have signed and writes it into its own verified_num.
Verify(m) ==
    /\ verified_num[m][m] < SignedEverywhere(m)
    /\ verified_num' = [verified_num EXCEPT ![m][m] = SignedEverywhere(m)]
    /\ UNCHANGED <<future_message_index, slots, num_received_sst, num_received,
                   seq_num, delivered_num, delivered, persisted_num,
                   minimum_persisted_version, waiter, signed_num,
                   minimum_verified_version>>

\* Mutant: the verified minimum is taken over m's own row only.
MinVerifiedOwnRow(m) == verified_num[m][m]

\* The minimum of verified_num over the shard, in m's copies of the rows.
MinVerified(m) == Min({verified_num[m][r] : r \in Members})

\* update_min_verified_num: the predicate of m stores the shard minimum of
\* verified_num in minimum_verified_version.
update_min_verified_num(m) ==
    /\ MinVerified(m) # minimum_verified_version[m]
    /\ minimum_verified_version' = [minimum_verified_version EXCEPT ![m] = MinVerified(m)]
    /\ UNCHANGED <<future_message_index, slots, num_received_sst, num_received,
                   seq_num, delivered_num, delivered, persisted_num,
                   minimum_persisted_version, waiter, signed_num, verified_num>>

-----------------------------------------------------------------------------
\* The steps of the multicast engine.
MulticastNext ==
    \/ \E s \in Senders : Send(s)
    \/ \E s \in Senders : SendNull(s)
    \/ \E o \in Members, s \in Senders : Receive(o, s)
    \/ \E m \in Members : Deliver(m)
    \/ \E s \in Senders, o \in Members : PushSlots(s, o)
    \/ \E r, o \in Members : PushCounters(r, o)

\* The steps of the persistence side.
PersistenceNext ==
    \/ \E m \in Members : Persist(m)
    \/ \E m \in Members : update_min_persisted_num(m)
    \/ \E m \in Waiters, v \in Versions : wait_for_global_persistence_frontier(m, v)
    \/ \E m \in Waiters : FrontierReached(m)

\* The steps of the signed log, in a subgroup with signatures enabled.
VerificationNext ==
    \/ \E m \in Members : Sign(m)
    \/ \E m \in Members : Verify(m)
    \/ \E m \in Members : update_min_verified_num(m)

Next == MulticastNext \/ PersistenceNext \/ VerificationNext

\* The predicate, timeout and transport threads keep running; application
\* sends are not fair.
MulticastFairness ==
    /\ \A s \in Senders : WF_vars(SendNull(s))
    /\ \A o \in Members, s \in Senders : WF_vars(Receive(o, s))
    /\ \A m \in Members : WF_vars(Deliver(m))
    /\ \A s \in Senders, o \in Members : WF_vars(PushSlots(s, o))
    /\ \A r, o \in Members : WF_vars(PushCounters(r, o))

\* The persistence thread and the predicate keep running, and a notified
\* waiter runs; application calls are not fair.
PersistenceFairness ==
    /\ MulticastFairness
    /\ \A m \in Members : WF_vars(Persist(m))
    /\ \A m \in Members : WF_vars(update_min_persisted_num(m))
    /\ \A m \in Waiters : WF_vars(FrontierReached(m))

Fairness ==
    /\ PersistenceFairness
    /\ \A m \in Members : WF_vars(Sign(m))
    /\ \A m \in Members : WF_vars(Verify(m))
    /\ \A m \in Members : WF_vars(update_min_verified_num(m))

\* A subgroup without persistent fields: the multicast engine alone.
MulticastSpec == Init /\ [][MulticastNext]_vars /\ MulticastFairness

SafetySpec == Init /\ [][Next]_vars

Spec == SafetySpec /\ Fairness

-----------------------------------------------------------------------------
(* Properties                                                              *)

TypeOK ==
    /\ future_message_index \in [Senders -> 0 .. MaxIndex]
    /\ slots \in [Members -> [Senders -> [0 .. WindowSize - 1 -> Nil .. MaxIndex - 1]]]
    /\ num_received_sst \in [Members -> [Senders -> 0 .. MaxIndex]]
    /\ num_received \in [Members -> [Senders -> 0 .. MaxIndex]]
    /\ seq_num \in [Members -> [Members -> -1 .. NumSenders * MaxIndex - 1]]
    /\ delivered_num \in [Members -> [Members -> -1 .. NumSenders * MaxIndex - 1]]
    /\ persisted_num \in [Members -> [Members -> -1 .. NumSenders * MaxIndex - 1]]
    /\ minimum_persisted_version \in [Members -> -1 .. NumSenders * MaxIndex - 1]
    /\ waiter \in [Members -> [state : {"idle", "waiting", "returned"},
                               version : {-1} \cup Versions, result : BOOLEAN]]
    /\ signed_num \in [Members -> [Members -> -1 .. NumSenders * MaxIndex - 1]]
    /\ verified_num \in [Members -> [Members -> -1 .. NumSenders * MaxIndex - 1]]
    /\ minimum_verified_version \in [Members -> -1 .. NumSenders * MaxIndex - 1]

\* Every message a member's stability callback receives carries the payload
\* that was sent with that index: a sender never reuses the SMC slot of a
\* message (SSTMessage::buf points into it) before every member delivered it.
DeliveredIntact ==
    \A m \in Members : \A j \in 1 .. Len(delivered[m]) :
        delivered[m][j].index = (j - 1) \div NumSenders

\* A member delivers only what every member of the shard has received: its
\* delivered_num never exceeds the real seq_num of any row, though it reads
\* only stale copies of those rows.
DeliveredOnlyStable ==
    \A m, r \in Members : delivered_num[m][m] <= seq_num[r][r]

\* Null messages keep delivery going: every message a sender sends is
\* eventually delivered at every member, even if other senders fall silent.
SentIsDelivered ==
    \A s \in Senders : \A i \in 0 .. MaxIndex - 1 :
        future_message_index[s] > i
            ~> \A m \in Members : delivered_num[m][m] >= SeqOf(s, i)

\* wait_for_global_persistence_frontier returns true only for a version
\* every member of the shard has persisted, though the frontier is
\* computed from stale copies of the other members' persisted_num.
FrontierPersisted ==
    \A m \in Members :
        waiter[m].state = "returned" /\ waiter[m].result
            => \A r \in Members : persisted_num[r][r] >= waiter[m].version

\* The verified frontier is sound although every member reads only stale
\* copies of the others' rows: a member's verified_num never passes what
\* some member has really signed, and get_global_verified_frontier never
\* names a version some member has not itself verified.
VerifiedFrontierSound ==
    \A m, r \in Members :
        /\ verified_num[m][m] <= signed_num[r][r]
        /\ minimum_verified_version[m] <= verified_num[r][r]

\* A thread waiting on the persistence frontier for a delivered version is
\* eventually woken and returns.
WaitReturns ==
    \A m \in Members : waiter[m].state = "waiting" ~> waiter[m].state = "returned"

\* The shard implements the atomic multicast: each member's delivered
\* (sender, header index) sequence is a prefix of the round-robin order of
\* messages actually sent.
Abstract == INSTANCE AtomicMulticast WITH sent <- future_message_index

ImplementsAtomicMulticast == Abstract!Spec

=============================================================================
