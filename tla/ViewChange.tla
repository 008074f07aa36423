----------------------------- MODULE ViewChange -----------------------------
(***************************************************************************)
(* The group management rows of the DerechoSST                             *)
(* (src/include/derecho/core/detail/derecho_sst.hpp) and the view-change   *)
(* protocol run on them: failure suspicion, leader proposals in changes[], *)
(* acknowledgement by copying the leader's proposals, commit, wedging, the *)
(* ragged-trim barrier (global_min_ready) and installation of the next     *)
(* view, whose row is seeded by init_local_row_from_previous.              *)
(*                                                                         *)
(* Each node owns one row; a node reads another's row directly (the       *)
(* counters it reads only grow, so a stale copy is an earlier read).       *)
(* changes[n] holds only the pending proposals, as the SST array does:     *)
(* entry i is proposal num_installed + i.  Node ids equal initial ranks.   *)
(*                                                                         *)
(* The SMC data plane of each view is kept as counts per sender: sent,    *)
(* num_received and delivered.  Wedging freezes num_received (wedged is   *)
(* pushed after it); the leader's ragged trim sets global_min to the      *)
(* least num_received of each sender over its wedged survivors, each      *)
(* member delivers up to it, and the next view starts a new SMC plane.    *)
(***************************************************************************)
EXTENDS Naturals, Sequences, FiniteSets, FiniteSetsExt

CONSTANTS
    Nodes,         \* node ids of the initial view, lowest first
    MaxFailures,   \* bound: nodes that crash
    MaxChanges,    \* bound: proposals a row may hold in total
    Senders,       \* nodes whose sender flag is set in the shard
    MaxMsgs        \* bound: messages a sender sends in one view

VARIABLES
    crashed,         \* nodes that have failed (fail-stop)
    halted,          \* nodes that threw the partitioning exception
    members,         \* members[n]: the members of n's current View
    vid,             \* vid[n]
    suspected,       \* suspected[n]: the members whose bit n has set
    changes,         \* changes[n]: pending ChangeProposals of n's row
    num_changes,     \* num_changes[n]
    num_committed,   \* num_committed[n]
    num_acked,       \* num_acked[n]
    num_installed,   \* num_installed[n]
    wedged,          \* wedged[n]
    global_min_ready, \* global_min_ready[n] (one subgroup)
    sent,            \* sent[s]: messages s sent in its current view
    num_received,    \* num_received[n][s]
    delivered,       \* delivered[n][s]: messages of s n delivered in its view
    global_min,      \* global_min[n][s]
    history          \* history[n]: delivered[n] at the end of each past view

vars == <<crashed, halted, members, vid, suspected, changes, num_changes,
          num_committed, num_acked, num_installed, wedged, global_min_ready,
          sent, num_received, delivered, global_min, history>>

data == <<sent, num_received, delivered, global_min, history>>

NoMsgs == [s \in Senders |-> 0]

\* make_change_proposal: a proposal by leader_id to remove change_id.
make_change_proposal(leader_id, change_id) ==
    [leader_id |-> leader_id, change_id |-> change_id, end_of_view |-> FALSE]

\* The DerechoSST constructor: every GMS field of every row starts at
\* 0 / false; the first View holds every node.
Init ==
    /\ crashed = {}
    /\ halted = {}
    /\ members = [n \in Nodes |-> Nodes]
    /\ vid = [n \in Nodes |-> 0]
    /\ suspected = [n \in Nodes |-> {}]
    /\ changes = [n \in Nodes |-> <<>>]
    /\ num_changes = [n \in Nodes |-> 0]
    /\ num_committed = [n \in Nodes |-> 0]
    /\ num_acked = [n \in Nodes |-> 0]
    /\ num_installed = [n \in Nodes |-> 0]
    /\ wedged = [n \in Nodes |-> FALSE]
    /\ global_min_ready = [n \in Nodes |-> FALSE]
    /\ sent = NoMsgs
    /\ num_received = [n \in Nodes |-> NoMsgs]
    /\ delivered = [n \in Nodes |-> NoMsgs]
    /\ global_min = [n \in Nodes |-> NoMsgs]
    /\ history = [n \in Nodes |-> <<>>]

Alive == Nodes \ (crashed \cup halted)

\* The leader in n's eyes: its lowest-ranked non-suspected member.
Leader(n) == Min(members[n] \ suspected[n])

\* The members n still waits on, whose rows are in n's SST.
Survivors(n) == members[n] \ suspected[n]

\* The node ids the pending proposals of row n remove.
PendingIds(n) == {changes[n][i].change_id : i \in DOMAIN changes[n]}

\* Mutant: the committed range is counted from num_installed + 1 to
\* num_committed as a half-open range, leaving out the last change.
FirstIdsShort(n, k) == {changes[n][i].change_id : i \in 1 .. k - 1}

\* The ids removed by the first k pending proposals of row n.
FirstIds(n, k) == {changes[n][i].change_id : i \in 1 .. k}

\* The largest c such that a majority of l's View has num_acked >= c in
\* the SST of that View.
CommitPoint(l) ==
    Max({0} \cup {c \in 1 .. num_changes[l] :
            2 * Cardinality({o \in members[l] : vid[o] = vid[l] /\ num_acked[o] >= c})
                > Cardinality(members[l])})

\* Row o is past the ragged-trim barrier of n's view.
PastView(o, n) == vid[o] > vid[n]

\* Row o, in the SST of n's view, has flag f set.
SetInView(f, o, n) == vid[o] = vid[n] /\ f[o]

\* The senders of n's view: members whose sender flag is set.
ViewSenders(n) == Senders \cap members[n]

\* num_received[s] of row o in the SST of n's view; a member that has not
\* reached that view still has its initial row there.
ReceivedInView(o, n, s) == IF vid[o] = vid[n] THEN num_received[o][s] ELSE 0

\* The sender of the next message in n's round-robin order: the sender of
\* rank q % k, q being the messages n has delivered in the view.
NextSender(n) ==
    LET vs == ViewSenders(n)
        q  == MapThenSumSet(LAMBDA x : delivered[n][x], vs)
    IN CHOOSE x \in vs : Cardinality({y \in vs : y < x}) = q % Cardinality(vs)

\* Mutant: the cap is the largest count a survivor received (spec 4.3).
TrimCapsMax(l) ==
    [s \in Senders |->
        Max({num_received[o][s] : o \in {o \in Survivors(l) : SetInView(wedged, o, l)}})]

\* The caps of l's ragged trim: for each sender, the least count any
\* wedged survivor received.
TrimCaps(l) ==
    [s \in Senders |->
        Min({num_received[o][s] : o \in {o \in Survivors(l) : SetInView(wedged, o, l)}})]

\* deliver_messages_upto: every message of sender s below caps[s] that
\* has not been delivered yet is delivered.
deliver_messages_upto(d, caps) == [s \in Senders |-> Max({d[s], caps[s]})]

\* Installing a view ends n's SMC plane: what n delivered in the view is
\* recorded, and the next view's counters start at 0.
EndView(n) ==
    /\ history' = [history EXCEPT ![n] = Append(@, delivered[n])]
    /\ sent' = IF n \in Senders THEN [sent EXCEPT ![n] = 0] ELSE sent
    /\ num_received' = [num_received EXCEPT ![n] = NoMsgs]
    /\ delivered' = [delivered EXCEPT ![n] = NoMsgs]
    /\ global_min' = [global_min EXCEPT ![n] = NoMsgs]

-----------------------------------------------------------------------------
\* init_local_change_proposals(other_row): row n takes the proposals and
\* their counters from row o.
init_local_change_proposals(n, o) ==
    /\ changes' = [changes EXCEPT ![n] = changes[o]]
    /\ num_changes' = [num_changes EXCEPT ![n] = num_changes[o]]
    /\ num_committed' = [num_committed EXCEPT ![n] = num_committed[o]]
    /\ num_installed' = [num_installed EXCEPT ![n] = num_installed[o]]

\* Mutant: the installed changes are not dropped from the array.
RowKeepsInstalled(n, k) ==
    /\ changes' = changes
    /\ num_installed' = [num_installed EXCEPT ![n] = @ + k]
    /\ suspected' = [suspected EXCEPT ![n] = {}]
    /\ wedged' = [wedged EXCEPT ![n] = FALSE]
    /\ global_min_ready' = [global_min_ready EXCEPT ![n] = FALSE]
    /\ UNCHANGED <<num_changes, num_committed, num_acked>>

\* init_local_row_from_previous(old_sst, row, num_changes_installed): the
\* row of the next view keeps num_changes, num_committed and num_acked,
\* adds k to num_installed, keeps the changes not installed, and clears
\* suspected, wedged and global_min_ready.
init_local_row_from_previous(n, k) ==
    /\ changes' = [changes EXCEPT ![n] = SubSeq(@, k + 1, Len(@))]
    /\ num_installed' = [num_installed EXCEPT ![n] = @ + k]
    /\ suspected' = [suspected EXCEPT ![n] = {}]
    /\ wedged' = [wedged EXCEPT ![n] = FALSE]
    /\ global_min_ready' = [global_min_ready EXCEPT ![n] = FALSE]
    /\ UNCHANGED <<num_changes, num_committed, num_acked>>

-----------------------------------------------------------------------------
(* The SMC plane of the current view.                                     *)

\* Sender s sends a message into its slots and counts it received itself;
\* it stops when it wedges.
Send(s) ==
    /\ s \in ViewSenders(s)
    /\ ~wedged[s]
    /\ sent[s] < MaxMsgs
    /\ sent' = [sent EXCEPT ![s] = @ + 1]
    /\ num_received' = [num_received EXCEPT ![s][s] = @ + 1]
    /\ UNCHANGED <<crashed, halted, members, vid, suspected, changes, num_changes,
                   num_committed, num_acked, num_installed, wedged,
                   global_min_ready, delivered, global_min, history>>

\* n receives the next message of sender s of its view, which s sent
\* before or after it failed; a wedged node receives nothing more.
Receive(n, s) ==
    /\ s \in ViewSenders(n)
    /\ ~wedged[n]
    /\ vid[s] = vid[n]
    /\ num_received[n][s] < sent[s]
    /\ num_received' = [num_received EXCEPT ![n][s] = @ + 1]
    /\ UNCHANGED <<crashed, halted, members, vid, suspected, changes, num_changes,
                   num_committed, num_acked, num_installed, wedged,
                   global_min_ready, sent, delivered, global_min, history>>

\* The delivery predicate, until n wedges: the next message in round-robin
\* order is delivered once every member of the view has received it.
Deliver(n) ==
    /\ ViewSenders(n) # {}
    /\ ~wedged[n]
    /\ \A o \in members[n] : ReceivedInView(o, n, NextSender(n)) > delivered[n][NextSender(n)]
    /\ delivered' = [delivered EXCEPT ![n][NextSender(n)] = @ + 1]
    /\ UNCHANGED <<crashed, halted, members, vid, suspected, changes, num_changes,
                   num_committed, num_acked, num_installed, wedged,
                   global_min_ready, sent, num_received, global_min, history>>

-----------------------------------------------------------------------------
\* Node n fails; its row keeps its last values.
Crash(n) ==
    /\ Cardinality(crashed) < MaxFailures
    /\ crashed' = crashed \cup {n}
    /\ UNCHANGED <<halted, members, vid, suspected, changes, num_changes,
                   num_committed, num_acked, num_installed, wedged,
                   global_min_ready>>
    /\ UNCHANGED data

\* n sees no heartbeat from member m within heartbeat_ms and sets m's bit.
Suspect(n, m) ==
    /\ m \in members[n] \ suspected[n]
    /\ m \notin Alive
    /\ suspected' = [suspected EXCEPT ![n] = @ \cup {m}]
    /\ UNCHANGED <<crashed, halted, members, vid, changes, num_changes,
                   num_committed, num_acked, num_installed, wedged,
                   global_min_ready>>
    /\ UNCHANGED data

\* A new leader adopts the longest proposal list among its survivors
\* before it proposes anything itself.
TakeOver(l, o) ==
    /\ Leader(l) = l
    /\ o \in Survivors(l)
    /\ vid[o] = vid[l]
    /\ num_changes[o] > num_changes[l]
    /\ \A p \in Survivors(l) : vid[p] = vid[l] => num_changes[p] <= num_changes[o]
    /\ init_local_change_proposals(l, o)
    /\ num_acked' = [num_acked EXCEPT ![l] = num_changes[o]]
    /\ UNCHANGED <<crashed, halted, members, vid, suspected, wedged,
                   global_min_ready>>
    /\ UNCHANGED data

\* The leader appends a departure for a suspected member at slot
\* num_changes and acknowledges it itself.
Propose(l, m) ==
    /\ Leader(l) = l
    /\ \A p \in Survivors(l) : vid[p] = vid[l] => num_changes[p] <= num_changes[l]
    /\ m \in suspected[l] \ PendingIds(l)
    /\ num_changes[l] < MaxChanges
    /\ changes' = [changes EXCEPT ![l] = Append(@, make_change_proposal(l, m))]
    /\ num_changes' = [num_changes EXCEPT ![l] = @ + 1]
    /\ num_acked' = [num_acked EXCEPT ![l] = num_changes[l] + 1]
    /\ UNCHANGED <<crashed, halted, members, vid, suspected, num_committed,
                   num_installed, wedged, global_min_ready>>
    /\ UNCHANGED data

\* A follower copies its leader's proposals and counters, and acks them.
Ack(n) ==
    LET ld == Leader(n) IN
    /\ ld # n
    /\ vid[ld] = vid[n]
    /\ ~global_min_ready[n]
    /\ \/ num_changes[ld] > num_acked[n]
       \/ num_committed[ld] > num_committed[n]
    /\ init_local_change_proposals(n, ld)
    /\ num_acked' = [num_acked EXCEPT ![n] = num_changes[ld]]
    /\ UNCHANGED <<crashed, halted, members, vid, suspected, wedged,
                   global_min_ready>>
    /\ UNCHANGED data

\* The leader advances num_committed to the last proposal a majority of
\* the View has acked, until it has published the ragged trim.
Commit(l) ==
    /\ Leader(l) = l
    /\ ~global_min_ready[l]
    /\ CommitPoint(l) > num_committed[l]
    /\ num_committed' = [num_committed EXCEPT ![l] = CommitPoint(l)]
    /\ UNCHANGED <<crashed, halted, members, vid, suspected, changes,
                   num_changes, num_acked, num_installed, wedged,
                   global_min_ready>>
    /\ UNCHANGED data

\* A member whose row has a committed change not yet installed wedges.
Wedge(n) ==
    /\ ~wedged[n]
    /\ num_committed[n] > num_installed[n]
    /\ wedged' = [wedged EXCEPT ![n] = TRUE]
    /\ UNCHANGED <<crashed, halted, members, vid, suspected, changes,
                   num_changes, num_committed, num_acked, num_installed,
                   global_min_ready>>
    /\ UNCHANGED data

\* The members that would remain if the leader installed now: those that
\* are neither removed by a committed change nor suspected.
Remaining(l) ==
    members[l] \ (FirstIds(l, num_committed[l] - num_installed[l]) \cup suspected[l])

\* Once every survivor is wedged and no survivor has published a trim,
\* the leader publishes its own (global_min_ready).
LeaderTrim(l) ==
    /\ Leader(l) = l
    /\ wedged[l]
    /\ ~global_min_ready[l]
    /\ \A o \in Survivors(l) : SetInView(wedged, o, l) \/ PastView(o, l)
    /\ \A o \in Survivors(l) : ~SetInView(global_min_ready, o, l)
    /\ 2 * Cardinality(Remaining(l)) > Cardinality(members[l])
    /\ global_min_ready' = [global_min_ready EXCEPT ![l] = TRUE]
    /\ global_min' = [global_min EXCEPT ![l] = TrimCaps(l)]
    /\ delivered' = [delivered EXCEPT ![l] = deliver_messages_upto(@, TrimCaps(l))]
    /\ UNCHANGED <<crashed, halted, members, vid, suspected, changes, num_changes,
                   num_committed, num_acked, num_installed, wedged,
                   sent, num_received, history>>

\* Partitioning safety: when the committed departures and the suspected
\* members would leave no strict majority of the View, the leader refuses
\* to go on and throws (the node stops).
Partitioned(l) ==
    /\ Leader(l) = l
    /\ 2 * Cardinality(Remaining(l)) <= Cardinality(members[l])
    /\ halted' = halted \cup {l}
    /\ UNCHANGED <<crashed, members, vid, suspected, changes, num_changes,
                   num_committed, num_acked, num_installed, wedged,
                   global_min_ready>>
    /\ UNCHANGED data

\* Mutant: the follower delivers everything it received, not the trim.
EchoTrimOwnCount(n, o) ==
    /\ ~global_min_ready[n]
    /\ o \in Survivors(n)
    /\ SetInView(global_min_ready, o, n)
    /\ init_local_change_proposals(n, o)
    /\ global_min_ready' = [global_min_ready EXCEPT ![n] = TRUE]
    /\ wedged' = [wedged EXCEPT ![n] = TRUE]
    /\ num_acked' = [num_acked EXCEPT ![n] = num_changes[o]]
    /\ global_min' = [global_min EXCEPT ![n] = global_min[o]]
    /\ delivered' = [delivered EXCEPT ![n] = deliver_messages_upto(@, num_received[n])]
    /\ UNCHANGED <<crashed, halted, members, vid, suspected, sent, num_received, history>>

\* A member copies a published trim, with the proposals and counters it
\* was computed from, publishes it as its own, and delivers up to it.
EchoTrim(n, o) ==
    /\ ~global_min_ready[n]
    /\ o \in Survivors(n)
    /\ SetInView(global_min_ready, o, n)
    /\ init_local_change_proposals(n, o)
    /\ global_min_ready' = [global_min_ready EXCEPT ![n] = TRUE]
    /\ wedged' = [wedged EXCEPT ![n] = TRUE]
    /\ num_acked' = [num_acked EXCEPT ![n] = num_changes[o]]
    /\ global_min' = [global_min EXCEPT ![n] = global_min[o]]
    /\ delivered' = [delivered EXCEPT ![n] = deliver_messages_upto(@, global_min[o])]
    /\ UNCHANGED <<crashed, halted, members, vid, suspected, sent, num_received, history>>

\* Mutant: the next view drops the members n suspects as well as those
\* the committed changes remove.
InstallRemaining(n) ==
    LET k == num_committed[n] - num_installed[n] IN
    /\ global_min_ready[n]
    /\ \A o \in Survivors(n) : SetInView(global_min_ready, o, n) \/ PastView(o, n)
    /\ members' = [members EXCEPT ![n] = Remaining(n)]
    /\ vid' = [vid EXCEPT ![n] = @ + 1]
    /\ init_local_row_from_previous(n, k)
    /\ EndView(n)
    /\ UNCHANGED <<crashed, halted>>

\* Once every survivor has published the trim, n installs the committed
\* changes: the next View drops the nodes they remove, and its row is
\* seeded from this one.
Install(n) ==
    LET k == num_committed[n] - num_installed[n] IN
    /\ global_min_ready[n]
    /\ \A o \in Survivors(n) : SetInView(global_min_ready, o, n) \/ PastView(o, n)
    /\ members' = [members EXCEPT ![n] = @ \ FirstIds(n, k)]
    /\ vid' = [vid EXCEPT ![n] = @ + 1]
    /\ init_local_row_from_previous(n, k)
    /\ EndView(n)
    /\ UNCHANGED <<crashed, halted>>

NodeStep(n) ==
    \/ \E m \in Nodes : Suspect(n, m)
    \/ \E o \in Nodes : TakeOver(n, o)
    \/ \E m \in Nodes : Propose(n, m)
    \/ Ack(n)
    \/ Commit(n)
    \/ Wedge(n)
    \/ LeaderTrim(n)
    \/ Partitioned(n)
    \/ \E o \in Nodes : EchoTrim(n, o)
    \/ Install(n)
    \/ \E s \in Senders : Receive(n, s)
    \/ Deliver(n)

Next ==
    \/ \E n \in Alive : Crash(n)
    \/ \E n \in Alive : NodeStep(n)
    \/ \E s \in Alive : Send(s)

\* Every live node's predicate and receive threads keep running; crashes
\* and application sends are not forced.
Spec == Init /\ [][Next]_vars /\ \A n \in Nodes : WF_vars(n \in Alive /\ NodeStep(n))

-----------------------------------------------------------------------------
\* In every row, num_installed <= num_committed <= num_changes and
\* num_acked <= num_changes (spec section 8; the comments on the counter
\* fields), across leader changes, trims and installs.
CountersOrdered ==
    \A n \in Nodes :
        /\ num_installed[n] <= num_committed[n]
        /\ num_committed[n] <= num_changes[n]
        /\ num_acked[n] <= num_changes[n]
        /\ Len(changes[n]) = num_changes[n] - num_installed[n]

\* No two installed views share a vid: nodes in the same view agree on
\* its members, whichever leader's proposals and trim they followed.
ViewAgreement ==
    \A a, b \in Nodes : vid[a] = vid[b] => members[a] = members[b]

\* Ragged-trim consistency (spec section 8): whatever each survivor had
\* received when a sender failed, and whether it delivered a message by
\* stability or by the trim, the members that complete a view have
\* delivered the same number of messages of every sender in it.
TrimAgreement ==
    \A a, b \in Nodes :
        \A i \in 1 .. Min({Len(history[a]), Len(history[b])}) : history[a][i] = history[b][i]

\* The trim's cap never exceeds what a survivor holds: a member delivers
\* only messages it has received (no code forwards missing ones).
DeliveredWasReceived ==
    \A n \in Nodes, s \in Senders : delivered[n][s] <= num_received[n][s]

\* A crashed member is eventually dropped from the view of every node
\* still running, unless the group shut itself down for lack of a
\* majority.
CrashedRemoved ==
    \A m \in Nodes :
        m \in crashed ~> (halted # {} \/ \A n \in Alive : m \notin members[n])

=============================================================================
