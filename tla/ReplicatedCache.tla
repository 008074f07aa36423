--------------------------- MODULE ReplicatedCache ---------------------------
(***************************************************************************)
(* The Cache replicated object of                                          *)
(* src/derecho/experiments/smart_membership_function_test.cpp on the       *)
(* members of one shard.  Its RPC methods put, get, contains and           *)
(* invalidate reach it two ways: ordered_send, which the shard delivers to *)
(* every member in one total order (module AtomicMulticast), and          *)
(* p2p_query from a non-member ExternalCaller, which runs the method at    *)
(* one member only.  cache_map is a std::map<std::string, std::string>.   *)
(*                                                                         *)
(* A p2p query travels over P2PConnection: the caller (node 1) takes a   *)
(* P2P_REQUEST buffer of its connection to Who (node 3), fills it and     *)
(* sends it; Who's polling thread probes it, runs the method, sends the   *)
(* reply in a P2P_REPLY buffer and is done with the request; the caller   *)
(* probes the reply.                                                       *)
(***************************************************************************)
EXTENDS Naturals, Sequences, SequencesExt

CONSTANTS
    Replicas,   \* the members of the Cache shard
    Keys,       \* keys used
    Values,     \* non-empty values put
    MaxOps,     \* bound: ordered_send calls
    Who,        \* the member the ExternalCaller queries
    WindowSize, \* p2p_window_size
    MaxQueries, \* bound: p2p_query calls
    NoMsg       \* an empty P2P buffer

ASSUME Who \in Replicas

P2P == INSTANCE P2PConnection WITH Types <- {"P2P_REQUEST", "P2P_REPLY"}

\* The caller's connection to Who carries requests, Who's connection to
\* the caller carries replies.
Channels == {"to_who", "from_who"}

Empty == ""          \* std::string()
Absent == "absent"   \* no entry for the key in cache_map

Methods == {"put", "get", "contains", "invalidate"}

Ops == [method : Methods, key : Keys, value : Values]

\* The calls an ExternalCaller can make: the read-only methods, whose
\* replies it can use.
QueryOps == {op \in Ops : op.method \in {"get", "contains"}}

VARIABLES
    cache_map,   \* cache_map[r][k]: r's entry for k, or Absent
    log,         \* the ordered_send calls, in the shard's delivery order
    applied,     \* applied[r]: how many of them r has run
    p2p,         \* p2p[ch]: the state of P2P channel ch
    held         \* request buffers the caller has filled and not yet sent

vars == <<cache_map, log, applied, p2p, held>>

\* Mutant: invalidate tests the lookup the wrong way round and never erases.
RunNoErase(m, op) ==
    CASE op.method = "put"        -> [m EXCEPT ![op.key] = op.value]
      [] op.method = "get"        -> IF m[op.key] = Absent
                                     THEN [m EXCEPT ![op.key] = Empty] ELSE m
      [] OTHER                    -> m

\* What each method does to a map m: put assigns; get reads through
\* operator[], which inserts a value-initialized entry for a missing key;
\* contains only reads; invalidate erases an existing entry.
Run(m, op) ==
    CASE op.method = "put"        -> [m EXCEPT ![op.key] = op.value]
      [] op.method = "get"        -> IF m[op.key] = Absent
                                     THEN [m EXCEPT ![op.key] = Empty] ELSE m
      [] op.method = "invalidate" -> [m EXCEPT ![op.key] = Absent]
      [] OTHER                    -> m

EmptyMap == [k \in Keys |-> Absent]

Init ==
    /\ cache_map = [r \in Replicas |-> EmptyMap]
    /\ log = <<>>
    /\ applied = [r \in Replicas |-> 0]
    /\ p2p = [ch \in Channels |-> P2P!NewConnection]
    /\ held = {}

\* What a read-only method returns on map m: get the entry (operator[]
\* makes a missing one ""), contains whether there is one.
Reply(m, op) ==
    IF op.method = "get" THEN IF m[op.key] = Absent THEN Empty ELSE m[op.key]
    ELSE m[op.key] # Absent

\* ordered_send<RPC_NAME(method)>(args), e.g. line 132.
OrderedSend(op) ==
    /\ Len(log) < MaxOps
    /\ log' = Append(log, op)
    /\ UNCHANGED <<cache_map, applied, p2p, held>>

\* Member r runs the next delivered ordered call.
Apply(r) ==
    /\ applied[r] < Len(log)
    /\ cache_map' = [cache_map EXCEPT ![r] = Run(@, log[applied[r] + 1])]
    /\ applied' = [applied EXCEPT ![r] = @ + 1]
    /\ UNCHANGED <<log, p2p, held>>

\* p2p_query<RPC_NAME(method)>(who, args), line 124, up to its send: a
\* request buffer is taken (the call waits while none is free) and the
\* serialized call written into it.
QueryRequest(op) ==
    LET c == p2p["to_who"] IN
    /\ Len(c.written["P2P_REQUEST"]) < MaxQueries
    /\ P2P!Available(c, "P2P_REQUEST")
    /\ p2p' = [p2p EXCEPT !["to_who"] = P2P!get_sendbuffer_ptr(@, "P2P_REQUEST", op)]
    /\ held' = held \cup {P2P!NextHandle(c, "P2P_REQUEST")}
    /\ UNCHANGED <<cache_map, log, applied>>

\* The query's send of its buffer; calls from different threads may send
\* their buffers in either order.
QuerySend(seq) ==
    /\ seq \in held
    /\ p2p' = [p2p EXCEPT !["to_who"] = P2P!send(@, "P2P_REQUEST", seq)]
    /\ held' = held \ {seq}
    /\ UNCHANGED <<cache_map, log, applied>>

\* Mutant: the reply buffer is filled but never sent.
ServeNoSend ==
    LET req == p2p["to_who"]
        op  == P2P!Incoming(req, "P2P_REQUEST")
    IN
    /\ P2P!probe(req, "P2P_REQUEST")
    /\ P2P!Available(p2p["from_who"], "P2P_REPLY")
    /\ cache_map' = [cache_map EXCEPT ![Who] = Run(@, op)]
    /\ p2p' = [p2p EXCEPT
                 !["to_who"] = P2P!increment_incoming_seq_num(@, "P2P_REQUEST"),
                 !["from_who"] = P2P!get_sendbuffer_ptr(@, "P2P_REPLY", Reply(cache_map[Who], op))]
    /\ UNCHANGED <<log, applied, held>>

\* Who's P2P polling thread: probe finds the next request, the method runs
\* on Who's Cache, the reply is written into a P2P_REPLY buffer and sent,
\* and the request is done with.
Serve ==
    LET req == p2p["to_who"]
        rep == p2p["from_who"]
        op  == P2P!Incoming(req, "P2P_REQUEST")
    IN
    /\ P2P!probe(req, "P2P_REQUEST")
    /\ P2P!Available(rep, "P2P_REPLY")
    /\ cache_map' = [cache_map EXCEPT ![Who] = Run(@, op)]
    /\ p2p' = [p2p EXCEPT
                 !["to_who"] = P2P!increment_incoming_seq_num(@, "P2P_REQUEST"),
                 !["from_who"] =
                     P2P!send(P2P!get_sendbuffer_ptr(@, "P2P_REPLY", Reply(cache_map[Who], op)),
                              "P2P_REPLY", P2P!NextHandle(@, "P2P_REPLY"))]
    /\ UNCHANGED <<log, applied, held>>

\* The caller's polling thread takes the next reply (cache_results.get()).
ReceiveReply ==
    /\ P2P!probe(p2p["from_who"], "P2P_REPLY")
    /\ p2p' = [p2p EXCEPT !["from_who"] = P2P!increment_incoming_seq_num(@, "P2P_REPLY")]
    /\ UNCHANGED <<cache_map, log, applied, held>>

Next ==
    \/ \E op \in Ops : OrderedSend(op)
    \/ \E r \in Replicas : Apply(r)
    \/ \E op \in QueryOps : QueryRequest(op)
    \/ \E seq \in held : QuerySend(seq)
    \/ Serve
    \/ ReceiveReply

\* The query's send follows its request in the same call, and both
\* polling threads run continuously; ordered_send calls and their
\* delivery are not needed for the queries to progress.
Spec == Init /\ [][Next]_vars
            /\ WF_vars(\E seq \in held : QuerySend(seq))
            /\ WF_vars(Serve) /\ WF_vars(ReceiveReply)

-----------------------------------------------------------------------------
\* Reference: what a key-value cache means, put stores, invalidate
\* removes, get and contains only read.
RefStep(m, op) ==
    CASE op.method = "put"        -> [m EXCEPT ![op.key] = op.value]
      [] op.method = "invalidate" -> [m EXCEPT ![op.key] = Absent]
      [] OTHER                    -> m

\* The reference map after the first n ordered calls.
Replay(n) == FoldLeft(RefStep, EmptyMap, SubSeq(log, 1, n))

\* Every member's map is what the ordered calls it has run make of an
\* empty cache, except for entries holding "" where that map has none:
\* p2p queries leave no other trace.
StateFollowsOrderedCalls ==
    \A r \in Replicas, k \in Keys :
        LET expected == Replay(applied[r])[k] IN
        \/ cache_map[r][k] = expected
        \/ expected = Absent /\ cache_map[r][k] = Empty

\* Members that have run the same ordered calls hold the same map (the
\* state-machine replication a Replicated<Cache> relies on, e.g. for the
\* state transfer of DEFAULT_SERIALIZATION_SUPPORT to a joining member).
ReplicasAgree ==
    \A a, b \in Replicas :
        applied[a] = applied[b] => cache_map[a] = cache_map[b]

\* Both directions of the P2P connection hand messages over in sequence
\* order with the payload written, although queries send their buffers
\* in any order and buffers are reused once the window wraps.
P2PInOrder == \A ch \in Channels : P2P!ReceivedInOrder(p2p[ch])

\* Every query is eventually answered: each request written is handled by
\* Who and each reply handled by the caller, which needs every request
\* buffer to be sent and no buffer to be lost to a reused slot.
QueriesAnswered ==
    \A i \in 1 .. MaxQueries :
        Len(p2p["to_who"].written["P2P_REQUEST"]) >= i
            ~> Len(p2p["from_who"].handled["P2P_REPLY"]) >= i

=============================================================================
