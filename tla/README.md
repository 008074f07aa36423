# TLA+ models of Derecho

This directory holds TLA+ models of the parts of this Derecho tree that can be
model-checked with TLC. There are configurations for each model, and a record
(`PROJECT.json`) of what each run shows. Every definition is translated from
the code under `src/`. The exception is code whose body is not in this tree
(the multicast engine's `.cpp` and the view manager): those definitions follow
`spec.md` and are marked `spec_modelled` in `PROJECT.json`'s map.

## The system and its parts

| Part | Source | State it keeps | Operations |
|---|---|---|---|
| Shared state table (`DerechoSST`) | `derecho_sst.hpp` | One row per member, written only by its owner. Other members hold copies that change when the owner pushes. Multicast fields: `seq_num`, `delivered_num`, `num_received`, `slots`, `num_received_sst`, `index`. Persistence field: `persisted_num`. Membership fields: `vid`, `suspected`, `changes`, `num_changes/committed/acked/installed`, `wedged`, `global_min`, `global_min_ready`, `rip`. | Local write (`gmssst::set`), push of a row or part of one (`push_row_except_slots`), `init_local_row_from_previous`, `init_local_change_proposals` |
| Multicast engine (`MulticastGroup`) | `multicast_group.hpp` (declarations and fields), `spec.md` §4.2 | `future_message_indices`, `next_sends`, `pending_sends`, `smc_send_in_progress`, `num_nulls_queued`, `locally_stable_sst_messages` (an `SSTMessage` whose `buf` points into a slot), `msg_state_mtx`, `minimum_persisted_version` with `minimum_persisted_cv` | Reserve and send into a slot, null message on sender timeout, in-order receive, delivery of stable messages, wedge, `update_min_persisted_num`, `wait_for_global_persistence_frontier` |
| Data planes | `multicast_group.hpp` | SMC: a ring of `window_size` slots per sender in the sender's SST row. RDMC: buffers of `max_msg_size` bytes in blocks. | Choosing the plane by payload size, sizing the buffers (`DerechoParams`) |
| Membership service (ViewManager) | SST fields in `derecho_sst.hpp`, `spec.md` §4.3 | The counters above | Suspect, propose, ack, commit, wedge, ragged trim, install |
| Configuration (`Conf`) | `conf.cpp` | `singleton`, `singleton_initialized_flag`, `config` | `initialize`, `get`, `loadExtraFile`, getters, `split_string`, `getAbsoluteFilePath` |
| Peer-to-peer connection | `p2p_connection.hpp` | A ring of send and receive buffers per message type | `get_sendbuffer_ptr`, `send`, `probe` |
| Group facade | `group.hpp` | | `send`, `barrier_sync`, `leave`, `report_failure`, `get_subgroup`, `get_nonmember_subgroup` |
| Latency benchmark | `latency_test.cpp` | `my_id`, `done`, the callback's `num_delivered` and `time_index`, `end_times` | Membership function, `send_all`, stability callback, `barrier_sync`, `leave` |
| Replicated Cache | `smart_membership_function_test.cpp` | `cache_map` of each replica | `put`, `get`, `contains`, `invalidate`, reached by `ordered_send` or `p2p_query` |

**How the parts interact.** An application thread reserves a slot of its own
SST row and fills it. Publishing `num_received_sst` makes the message visible
once the row reaches a peer. Each receiver takes the slots of each sender in
order. It advances `num_received` and computes `seq_num`, the longest prefix
of the round-robin order (message `i` of the sender with sender rank `r`
has sequence number `i*k + r`, with `k` senders) that it holds in full. It
pushes its counters.

A member delivers up to the least `seq_num` over its copies of all rows.
Delivery calls the stability callback with a pointer into the slot, and then
advances `delivered_num`. A sender may reuse a slot only after its previous
occupant has been delivered everywhere. A sender that has nothing to send
fills its turn with null messages, so that the others' messages become
deliverable.

On a failure, the membership service wedges the shard. The shard leader
publishes a per-sender cap (`global_min`), every survivor delivers exactly up
to it, and the new view is installed. In a persistent subgroup, the
persistence collaborator persists delivered versions and writes
`persisted_num` into the member's row. A predicate keeps the least
`persisted_num` over the shard in `minimum_persisted_version`, and an
application thread can wait for it to reach a version. `Conf` is read by everyone through
`Conf::get()`. The benchmark and the Cache test are applications of the group.

**What is hard to get right**, and what the checks aim at:
- Stale copies of rows: stability is decided from rows that lag behind their owners.
- Reuse of a slot that a receiver still points into.
- Progress through null messages when a sender falls silent.
- A persistence frontier computed from stale rows, and a waiter that must be woken.
- Threads racing through the configuration's one-time initialization.
- An application callback that runs before `main` has finished setting up.
- An RPC that changes one replica outside the total order.
- Views changing under crashes: stale rows of an old view read in a new one, a leader failing mid-change, loss of a majority.
- Which configuration source wins, and which files are accepted.

## Modules

| Module | Models | State as in the code | Actions |
|---|---|---|---|
| `AtomicMulticast` | What a shard promises (`spec.md` §1, §3, §8): one round-robin order, with each member's delivered sequence a prefix of it | `sent`, `delivered` | `Multicast`, `DeliverNext` |
| `MulticastGroup` | SMC plane of one shard in one view | `future_message_index`, `slots[o][s]` and `num_received_sst[o][s]` (o's copy of s's SMC region), `num_received`, `seq_num[o][r]` and `delivered_num[o][r]` (o's copy of row r), `delivered` (history of callback arguments), `persisted_num[o][r]`, `minimum_persisted_version`, `waiter` (the application thread in the wait), `signed_num[o][r]`, `verified_num[o][r]`, `minimum_verified_version` | `Send`, `SendNull` (timeout thread), `Receive`, `Deliver`, `PushSlots`, `PushCounters` (`push_row_except_slots`), `Persist` (the persistence collaborator), `update_min_persisted_num`, `wait_for_global_persistence_frontier`, `FrontierReached` (woken on `minimum_persisted_cv`), `Sign`, `Verify`, `update_min_verified_num`. `MulticastNext` holds the engine's steps, `PersistenceNext` the persistence frontier's and `VerificationNext` the signed log's. `MulticastSpec` is a subgroup without persistent fields. |
| `ConfInit` | `Conf::initialize`, `Conf::get` (`conf.cpp` 22-24, 88-169, 219-225) | `flag`, `singleton`, a `pc` per thread | `GetLoop`, `TryInit` (compare-exchange), `Load` (steps 1-2), `ApplyDefaults` (step 3), `Publish` (step 4), `SanityCheck` (step 5) |
| `SplitString` | `split_string` (`conf.cpp` 326-336) | the input | `Find`, `Substr`, `SplitFrom` as operators (RECURSIVE for the loop) |
| `DerechoParams` | `DerechoParams` (`multicast_group.hpp` 55-166) | a profile and what `from_profile` makes of it | `compute_max_msg_size`, `send_algorithm_from_string`, `MakeParams`, `from_profile` as operators |
| `LatencyTest` | `latency_test.cpp` `main` on every node | `my_id`, `phase`, `sent`, `num_delivered`, `time_index`, `done` | `AssignId` (line 136), `Send`, `Deliver` (the callback), `Finish`, `Leave` |
| `ReplicatedCache` | `Cache` of `smart_membership_function_test.cpp`, composed with two `P2PConnection`s (node 1 to `who` = 3 and back) | `cache_map` per replica, the ordered calls, `p2p[ch]` per direction, `held` (request buffers filled and not yet sent) | `OrderedSend`, `Apply`, `QueryRequest` (`get_sendbuffer_ptr` of a request), `QuerySend`, `Serve` (`who`'s polling thread: `probe`, run the method, reply, `increment_incoming_seq_num`), `ReceiveReply` |
| `P2PConnection` | One direction of `sst::P2PConnection` (`p2p_connection.hpp` 20-100) | `outgoing_seq_nums`, `outgoing_buf`, `incoming_buf` (each buffer with the sequence number it was sent under), `incoming_seq_nums`, per type; `written`/`handled` histories | `get_sendbuffer_ptr`, `send`, `probe`, `increment_incoming_seq_num` as operators from one connection state to the next, so that `Serve` can compose them |
| `ViewChange` | The membership service over the GMS fields of `DerechoSST` (`derecho_sst.hpp` 20-37, 104-178, 198-296), with the ViewManager steps of `spec.md` §4.3, and the SMC plane of each view as counts per sender (`multicast_group.hpp` 495-577) | Per node, its own row: `vid`, `suspected`, `changes`, `num_changes`, `num_committed`, `num_acked`, `num_installed`, `num_received`, `wedged`, `global_min`, `global_min_ready`, and `members` of its current View; `sent` per sender, `delivered` per node and sender, `history` (what each node delivered in each past view); `crashed`, `halted` | `Crash`, `Suspect`, `TakeOver`, `Propose`, `Ack`, `Commit`, `Wedge`, `LeaderTrim` (with `TrimCaps` and `deliver_messages_upto`), `Partitioned`, `EchoTrim`, `Install` (with `init_local_row_from_previous` and `EndView`), `Send`, `Receive`, `Deliver` |
| `ConfLoad` | What `Conf::initialize`, the `Conf` constructor and `loadExtraFile` load (`conf.cpp` 29-115, 171-215, 227-257) | `stat` of each candidate file, the arguments and environment variables, `config[Key]`, `optind`, `pc` | `Resolve` (file choice and loading of the group and node files), `GetOpt` (one `getopt_long` iteration), `EndOptions`, `LoadExtraFile` |
| `GmssstSet` | `gmssst::set` of an SST array field (`derecho_sst.hpp` 345-354) called by several threads | the array, each call's `length` and `copied` indices, the set of held mutexes, a `pc` per thread | `LockGuard` (taking the call's mutex), `memcpy` (one element at a time), `Release` |
| `ConfPath` | `getAbsoluteFilePath` (`conf.cpp` 311-324) | the file name and `DERECHO_CONF_FILE` | the function as an operator, checked against component-wise path resolution |

`MC_Multicast` likewise runs three `MulticastGroup` shards and the
`LatencyTest` benchmark as four parts of one run.

`MC_*.tla` fix the model sizes, and `MC_*.cfg` are the TLC configurations.
`MC_ConfFunctions` checks the three sequential configuration functions
(`ConfLoad`, `ConfPath`, `DerechoParams`) in one run. They share no state,
so it takes their disjoint union: `part` names the function a behaviour
exercises, and the other functions' variables hold fixed values.

In `ViewChange`, a node's view of another row is that row's current value
(an SST push is modelled as immediate), but each View has its own SST: a
barrier or an ack count reads only rows with the same `vid` (`SetInView`),
and a row with a larger `vid` counts as having passed the barrier
(`PastView`). The leader of a View is its lowest-ranked non-suspected
member (`Leader`). The two helper functions of `DerechoSST`, the
constructor's initial values and `ChangeProposal` are translated from
`derecho_sst.hpp`; the protocol steps follow `spec.md` §4.3, because
`view_manager.cpp` is not in this tree.
Each module keeps the source's names (`future_message_index`,
`compute_max_msg_size`, `split_string`, `my_id`, `cache_map`, ...). An action
is a whole handler: its guard comes from the code's conditions, and its
primed variables from the code's assignments.

### Abstraction choices

- **Payloads.** A payload is its message index. The header's `index`
  written into the slot is what the model's stability callback reads back, so
  an overwritten slot shows up as a wrong index.
- **Transport.** One SST push copies one row, or one sender's SMC region, to
  one peer. Pushes of different rows are unordered, as `spec.md` §5 allows.
  Writes to one row reach a peer in order, because a push copies the whole
  current value.
- **Window.** `AllRowsBackpressure` chooses the send-window rule.
  - `TRUE`: before reusing a slot, the sender waits until every row's
    `delivered_num` covers the slot's previous occupant.
  - `FALSE`: the rule of `spec.md` §4.2, "future_message_indices −
    delivered_num < window_size" on the sender's own row.
- **Sizes.** `uint64_t` sizes are scaled to 8 bits, and the 32-byte header
  keeps its real size, so that overflow and rounding remain reachable.
- **Uninitialized values.** The uninitialized `my_id` of `latency_test`
  starts as any node id, or as `Junk`, a value that is no node id.

## Runs

| Run | cfg | Expect | Checks | Shows |
|---|---|---|---|---|
| mcast | `MC_Multicast.cfg` | pass | `TypeOK`, `DeliveredIntact`, `DeliveredOnlyStable`, `FrontierPersisted`, `VerifiedFrontierSound`, `ImplementsAtomicMulticast`, `SentIsDelivered`, `WaitReturns`, `DoneMeansAllDelivered`, `AllLeave` | Part `mcast`: 2 members, both senders, 1 slot, 3 messages each, no persistence. No delivered message carries a payload other than its own, no member delivers beyond the real `seq_num` of any row though it reads only stale copies, the engine implements `AtomicMulticast` under `sent <- future_message_index`, and with fair nulls and pushes every sent message is delivered everywhere. Part `persist`: the same shard with 1 message per sender and member 1 waiting on the persistence frontier. `wait_for_global_persistence_frontier` returns true only for a version that every member has persisted, though the frontier is computed from stale copies of `persisted_num`. A waiting thread is always woken. Part `verify`: the same shard with signatures and no waiter; no member's `verified_num` passes a version some member has not really signed, and the verified frontier never names a version some member has not itself verified, though both are computed from stale copies. Part `latency`: 3 benchmark nodes, 2 messages per sender, every sender layout; `done` implies that everything was delivered, and all nodes leave. |
| mcast_spec_window | `MC_MulticastGroup_specwindow.cfg` | violation | `DeliveredIntact` | The spec's window rule lets a slot be overwritten before delivery. |
| conf_sanity | `MC_ConfInit_sanity.cfg` | violation | `GetSeesOnlySaneConf` | `get()` hands out a configuration that the sanity checks then reject. |
| split_string | `MC_SplitString.cfg` | violation | `SplitRejoins` | `split_string` does not invert joining. |
| conf_functions | `MC_ConfFunctions.cfg` | pass | `TypeOK`, `SingleConstruction`, `GetSeesDefaults`, `GetReturns`, `LayeredPrecedence`, `ResolvesBesideConfFile`, `EveryPayloadFits` | (464k states) With 2 getter threads and 1 thread calling `initialize` directly, the singleton is built once, `get()` returns only after step 3, and every `get()` returns. The initialized `Conf` holds the command-line value, else the node file's, else the group file's; `getAbsoluteFilePath` names the file found in `DERECHO_CONF_FILE`'s directory; every accepted profile gives every payload a buffer on the plane it uses. |
| latency_endtimes | `MC_LatencyTest_endtimes.cfg` | violation | `EndTimesInBounds` | The `my_id` race writes past `end_times`. |
| cache_state | `MC_ReplicatedCache.cfg` | pass | `StateFollowsOrderedCalls`, `P2PInOrder`, `QueriesAnswered` | A replica differs from the replay of its ordered calls only by empty-string entries; P2P requests and replies are handled in sequence order with the payload written, although requests are sent out of order and buffers are reused; every query is eventually answered. |
| cache_agree | `MC_ReplicatedCache_agree.cfg` | violation | `ReplicasAgree` | A p2p `get` makes replicas diverge. |
| sst_set | `MC_GmssstSet.cfg` | violation | `SetsSerialized` | Two threads' concurrent `gmssst::set` calls on one field interleave element by element: the result is no serial order of the calls. |
| view_safety | `MC_ViewChange.cfg` | pass | `CountersOrdered`, `ViewAgreement` | (599k states) 5 nodes, up to 2 crashes, 2 proposals. The counters keep `num_installed <= num_committed <= num_changes`, `num_acked <= num_changes` and `Len(changes) = num_changes - num_installed` across installs, and two nodes with the same `vid` have the same members, through leader crashes and takeovers. |
| view_live | `MC_ViewChange_live.cfg` | pass | `CrashedRemoved` | 4 nodes, up to 2 crashes. Every crashed node eventually leaves every live node's View, unless a leader halts because no majority remains. |
| view_trim | `MC_ViewChange_trim.cfg` | pass | `TrimAgreement`, `DeliveredWasReceived` | (111k states) 3 nodes, nodes 0 and 1 send 2 messages each, 1 crash. When a sender fails mid-send and the survivors hold different prefixes of its messages, every member that completes the view delivers the same number of messages of each sender, whether by stability or by the trim, and none delivers a message it never received. |

Every property of a passing run has a mutant in `PROJECT.json`. A mutant is
a plausible bug in the modelled code, defined next to the definition it
replaces (for example `WindowOpenOwnRow`, `DeliverMaxStable`,
`TryInitNotInitialized`, `GetLoopOnPointer`, `IsSenderOffByOne`,
`InstallRemaining`, `TrimCapsMax`, `MinPersistedOwnRow`, `PushCountersNoPersisted`, `RowKeepsInstalled`, `loadFromFileKeep`), and the
run's own configuration finds the property violated for it.

### Bounds, and why they suffice

- **`MC_Multicast` is three instances of `MulticastGroup` and one of
  `LatencyTest` in one run.** A behaviour picks one in its first state
  (`part`), and the others stay in their initial states. The persistence steps interleave with every
  engine step and multiply the state space. At three messages per
  sender they take the safety graph alone from 1,862 to 6.6 million
  states. They therefore run on a shard of one message per sender, 5,838
  states. There, the waiter can ask for version 0 or 1 (or a future
  one), while member 0 has not yet delivered, persisted or pushed it.
  The signed log runs on its own shard of one message per sender
  (`verify`, 17,544 states), without a waiter. Together with the waiter
  and the persistence steps, it takes the part to 90,000 states, and the
  liveness check past the run's time. With two versions a member can
  persist a version its peer has not yet signed, and verify from a copy
  of a row that has since moved on.
- **Two members, both senders, one slot, three messages** (`mcast`). With
  one slot every message after the first reuses a slot, so the reuse race of
  `DeliveredIntact` is reachable, and each member's copy of the other row
  can lag. It covers nulls (one sender silent while the other sends).
  Three members with liveness do not finish within the run's time; the
  three-member layout with a pure receiver is used by `mcast_spec_window`.
- **Spec window: two slots and three messages.** With one slot the spec's
  rule never opens, since `delivered_num` starts at −1.
- **ConfInit: three threads** (a part of `MC_ConfFunctions`). A winner, a getter that spins, and a direct
  `initialize` caller that may also win.
- **GmssstSet: 2 threads, a 2-element field, each call of length 1 or 2.**
  Two elements are the least where a torn result (one element from each
  call) exists.
- **LatencyTest: 3 nodes and 2 messages** (part `latency` of `MC_Multicast`). This gives one non-sender rank
  on either side of the middle for `selector = 1`. Two messages let a
  count pass its own messages. `selector` ranges over 0..2 in `Init`.
- **ReplicatedCache: 3 replicas, 1 key, 2 ordered calls, 3 queries over
  a P2P window of 2.** Two ordered calls reach put-then-invalidate and a
  get of a missing key. The test makes one query; three let two requests
  be outstanding and sent in either order, and make the third reuse the
  first one's buffer, where a stale sequence number sits. No symmetry:
  `who` is a distinguished member, and `QueriesAnswered` is liveness.
  Once the calls and queries are used up, nothing is enabled; main ends
  in an idle loop, so the cfgs turn deadlock checking off.
- **SplitString:** all strings of length 4 or less over `{a, ','}`, with
  the delimiters `","`, `",,"` (which can overlap itself) and `"a"`.
- **ViewChange: 5 nodes for safety, 4 for liveness, 2 crashes, 2
  proposals.** With 5 nodes and 2 crashes two departures can be pending at
  once and a majority still survives, so a second leader can take over a
  half-acked list and nodes can install different numbers of changes; at 4
  nodes only one change is ever pending. The liveness graph at 5 nodes
  does not finish in time, so `CrashedRemoved` runs at 4, where the second
  crash also exercises `Partitioned`. These two runs have no senders.
- **Ragged trim: 3 nodes, 2 senders with 2 messages each, 1 crash.** The
  first leader is a sender, so it can fail with its messages received by
  one survivor only, while the other sender goes on and a member may
  already have delivered by stability. The next leader trims both senders.
  With 4 nodes and two senders the graph passes a million states.
- **ConfLoad:** every state (missing, directory, unreadable, ok) of the
  files `stat()` tests (the group, node and extra defaults, the extra
  file's variable), a readable or a missing file for each of the group
  and node arguments and variables (`initialize` takes these without a
  test, so only whether GetPot can read them matters), with and without
  each argument and variable, and a command line of no option, the known
  one or an unknown one. This part has 1.8 million states.
- **ConfPath:** names of length 3 or less and `DERECHO_CONF_FILE` paths of
  length 4 or less over `{a, b, /}`: paths without a slash, with a leading
  slash, and with two slashes.
- **DerechoParams:** sizes around the header, around block boundaries and
  at 0, and block sizes 1, 16 and 48 (48 is not a power of two).

### Fairness

- **MulticastGroup.** Weak fairness on `Receive`, `Deliver`, `PushSlots`,
  `PushCounters` and `SendNull`.
  - These run on the predicate, transport and timeout threads (`spec.md`
    §5), which poll continuously.
  - Application `Send` is not fair, because an application may stop
    sending; the nulls then carry the round forward.
  - `Persist`, `update_min_persisted_num` and `FrontierReached` are also
    weakly fair. The persistence thread serves every request that is
    posted, the predicate thread polls, and a notified waiter runs. The
    application's call of the wait is not fair.
  - The `verify` part has no fairness and no liveness property: it checks
    the safety of the signed log only.
- **ConfInit and LatencyTest.** Weak fairness per thread or node: the OS
  schedules runnable threads, and the waits in the code are spins.
- **LatencyTest** in `MC_Multicast`: its nodes can step from the initial
  state, so the per-node fairness is stated on the steps of its part.
- **LatencyTest** assumes the shard's delivery is live (`SentIsDelivered`).
- **ReplicatedCache.** Weak fairness on `QuerySend`, `Serve` and
  `ReceiveReply`: a query's send follows the buffer fill in the same
  call, and both ends' P2P polling threads run continuously. Ordered
  calls are not fair; queries need none of them.
- **ViewChange.** Weak fairness of each node's steps while it is alive: the
  ViewManager's predicate thread evaluates its predicates continuously, and
  heartbeats make a crashed member suspected (`Suspect` needs the member to
  be down, so there are no false suspicions). `Receive` and `Deliver` are
  part of a node's steps: the receive and delivery predicates poll too.
  Crashes and application `Send`s are not fair.

## Findings

- **spec_gap, window rule (`spec.md` §4.2).** The rule compares per-sender
  indices with the sender's own `delivered_num`, a global sequence number.
  With two senders and window 2, a sender overwrites a slot that a receiver
  still points into (`SSTMessage::buf`, `multicast_group.hpp:222`), and the
  receiver delivers the wrong payload. With window 1 the rule admits no send
  at all.
- **spec_code_divergence, `derecho_sst.hpp:65`.** The comment on
  `delivered_num` says messages are delivered only once stable, "so
  delivered_num[i] >= seq_num[i]". Stability gives the reverse. A member
  delivers only up to the least `seq_num` of every row, its own included.
  `DeliveredOnlyStable` checks `delivered_num <= seq_num` for every row,
  and it holds. Whenever a received message is not yet stable, the
  inequality in the comment is false.
- **code_bug, `conf.cpp:129`.** `CONF_INITIALIZED` is published before the
  sanity checks. Another thread's `get()` returns an invalid configuration,
  and a throw inside the `noexcept` `get()` terminates the process.
- **code_bug, `conf.cpp:331`.** `split_string` passes an end position as
  `substr`'s length. `"a,b,c"` splits into `a`, `b,c`, `c`.
- **code_bug, `latency_test.cpp:67`.** The stability callback reads `my_id`
  before line 136 assigns it. A matching indeterminate value overruns
  `end_times`.
- **spec_code_divergence, `derecho_sst.hpp:347`.** `gmssst::set` for
  arrays is documented as a "Thread-safe setter" that "takes a lock before
  running memcpy", but the mutex is `static thread_local`: each thread
  locks its own. Two concurrent calls copy element by element into the
  same field, leaving a mix that neither call wrote.
- **code_bug, `smart_membership_function_test.cpp:40`.** `Cache::get` uses
  `operator[]`, which inserts the key. A p2p `get` changes one replica only.

Also noted, without a run: `spec.md` §4.3 has the leader choose the cap
of the ragged trim as the "max" across survivors of `num_received`. The
field in `derecho_sst.hpp` is named `global_min` and documented as "the
number of messages to accept from each sender". No code in this tree
forwards a message to a survivor that lacks it. `ViewChange` takes the
least count (`TrimCaps`). The spec's rule is its mutant `TrimCapsMax`,
and `DeliveredWasReceived` fails for it: a survivor would deliver a
message it never received.

Also noted, without a run: the comment on `seq_num`
(`derecho_sst.hpp:47-49`) numbers (sender, index) as `sender + num_members
* index`. The round-robin order it describes, `get_num_senders` and
`spec.md` §3 run over the senders only, and `MulticastGroup.SeqOf` uses
the sender rank and the number of senders. The two agree when every member
sends. They differ in `mcast_spec_window`, which has a member that only
receives.

Also noted, without a run (a unit test reaches it): the readability test of
`Conf::initialize` and `loadExtraFile` (`conf.cpp` 102, 113, 234, 243) is
`(S_IRUSR | st_mode)`, a bitwise or with a non-zero constant that is always
true. A regular file the process cannot read is chosen, GetPot silently
reads nothing from it, and `loadExtraFile` never falls back to its default.
`ConfLoad` models the test as written (`StatAccepts`).

## Not modelled, and why

- **RDMC block dissemination, the persistent log and signatures, and the
  TCP bootstrap.** The code is outside this tree. Only the sizing
  (`DerechoParams`) and the persistence frontier are modelled.
- **In the persistence and verified frontiers:** the signatures' bytes
  and their checking, and the wait's cancelation at shutdown. `Sign` signs
  up to the persisted version in one step and `Verify` verifies up to the
  least version signed in every row; a signature check that fails is
  left out. The PersistenceManager that writes these counters is outside
  this tree, so `Sign` and `Verify` follow the fields' documentation in
  `derecho_sst.hpp`.
  - `Persist` persists up to the latest delivered version in one step.
  - The mutex and the condition variable are modelled by their intended
    effect: a waiter wakes whenever the frontier has reached its
    version. The comment at `multicast_group.hpp:371` says the mutex does
    not guard the atomic. A store and notify that fall between the
    waiter's check and its wait would be a lost wakeup. The bodies are
    in `multicast_group.cpp`, outside this tree, so that race is listed
    as a hazard without a property.
- **Unordered mode, `pending_sends`/`current_sends`, and
  `smc_send_in_progress`.** The bodies of `send()` and of the sender thread
  are not in `src/`.
- **The typed getters, and log and file formatting.** These are string
  conversions with no property depending on them.
- **In `P2PConnection`:** `RPC_REPLY` traffic, the `oob_*` remote-memory
  calls and the RDMA resources. The method bodies are in
  `p2p_connection.cpp`, outside this tree. The operators follow the
  header's documentation. When a buffer is available (`Available`) is the
  window condition implied by the nullopt case.
- **In `ViewChange`:** joins and the joiner fields, state transfer, and
  restart of a crashed node. The data plane of a view is kept as counts
  per sender. Slots, payloads and null messages are left to
  `MulticastGroup`, so a silent sender holds delivery until the trim.
- **Versions of null messages.** `version_message` makes no version for a
  null message. `MulticastGroup` numbers every delivered sequence number
  as a version, so the frontier waits as if nulls were versions.
- **Group facade templates.** They forward to the engine and the membership
  service.

## Plan

The parts that could still be modelled, in the order they would be taken up:

1. **Composition** of `ViewChange` with `MulticastGroup`: a crash in the
   middle of a multicast, wedge, trim and new view (the fifth end-to-end
   scenario of `spec.md` §8). `ViewChange` already carries each view's
   data plane as counts per sender; the composition would replace them
   by the slot rings.
2. **Joins** in `ViewChange`: a join proposal and the `num_members / 2`
   bound on pending changes stated in `derecho_sst.hpp`. With departures
   only and at most two failures the bound cannot be exceeded, so it is
   not stated as a property.

Not planned: the `loadExtraFile` race (`conf.cpp:256`) is a data race on
a `std::map`, whose outcomes are no small set of values, and the function
has no caller in this tree.
