---------------------------- MODULE P2PConnection ----------------------------
(***************************************************************************)
(* One direction of an sst::P2PConnection                                  *)
(* (src/include/derecho/core/detail/p2p_connection.hpp): the sender's     *)
(* outgoing buffer region and the receiver's incoming region, each cut    *)
(* into one ring of window_sizes[type] buffers per MESSAGE_TYPE, and the  *)
(* outgoing and incoming sequence numbers of each type.                    *)
(*                                                                         *)
(* The operations are operators from a connection state to the next one, *)
(* so that a module using the connection can apply several of them in one *)
(* step (a handler that consumes a request and sends its reply).  Two      *)
(* histories are kept for the properties: the payloads written into       *)
(* buffers, in sequence order, and the payloads the receiver handled.      *)
(*                                                                         *)
(* The method bodies are in p2p_connection.cpp, outside this tree; each   *)
(* operator follows the header's documentation of its method.  A buffer  *)
(* holds its payload together with the sequence number it was sent under *)
(* (getOffsetSeqNum gives that field's place in the buffer).               *)
(***************************************************************************)
EXTENDS Naturals, Sequences, SequencesExt

CONSTANTS
    Types,       \* the message types in use
    WindowSize,  \* ConnectionParams::window_sizes[type], the same for each type
    NoMsg        \* a buffer nothing was ever sent into

\* enum MESSAGE_TYPE
MESSAGE_TYPE == {"P2P_REPLY", "P2P_REQUEST", "RPC_REPLY"}

ASSUME Types \subseteq MESSAGE_TYPE

\* getOffsetBuf / getOffsetSeqNum: the buffer of the ring a sequence number
\* uses.
Slot(seq) == seq % WindowSize

EmptyRing == [i \in 0 .. WindowSize - 1 |-> NoMsg]

\* The constructor: empty buffers and every sequence number at 0.
NewConnection ==
    [outgoing_seq_nums |-> [t \in Types |-> 0],
     outgoing_buf      |-> [t \in Types |-> EmptyRing],
     incoming_buf      |-> [t \in Types |-> EmptyRing],
     incoming_seq_nums |-> [t \in Types |-> 0],
     written           |-> [t \in Types |-> <<>>],
     handled           |-> [t \in Types |-> <<>>]]

\* Mutant: the window admits one buffer more than it has.
AvailableOneMore(c, t) == c.outgoing_seq_nums[t] <= c.incoming_seq_nums[t] + WindowSize

\* A buffer is available when the receiver has finished handling the
\* message that last used it.
Available(c, t) == c.outgoing_seq_nums[t] < c.incoming_seq_nums[t] + WindowSize

\* P2PBufferHandle::seq_num of the buffer get_sendbuffer_ptr hands out.
NextHandle(c, t) == c.outgoing_seq_nums[t]

\* get_sendbuffer_ptr, followed by the caller filling the buffer with
\* payload: the buffer of the current outgoing sequence number is handed
\* out and that number incremented (only when Available: otherwise the
\* method returns std::nullopt and changes nothing).
get_sendbuffer_ptr(c, t, payload) ==
    [c EXCEPT !.outgoing_buf[t][Slot(c.outgoing_seq_nums[t])] = payload,
              !.outgoing_seq_nums[t] = @ + 1,
              !.written[t] = Append(@, payload)]

\* send(type, sequence_num): the buffer, with its sequence number, is
\* written into the same buffer of the receiver's incoming region.  Any
\* handed-out sequence number may be sent, in any order.
send(c, t, seq) ==
    [c EXCEPT !.incoming_buf[t][Slot(seq)] =
                  [seq |-> seq, payload |-> c.outgoing_buf[t][Slot(seq)]]]

\* Mutant: probe takes any message in the expected buffer, without
\* comparing its sequence number.
probeAnySeq(c, t) == c.incoming_buf[t][Slot(c.incoming_seq_nums[t])] # NoMsg

\* probe: there is a new incoming message of type t when the buffer of
\* the current incoming sequence number holds that number; messages are
\* thus taken in order of increasing sequence numbers.
probe(c, t) ==
    LET b == c.incoming_buf[t][Slot(c.incoming_seq_nums[t])] IN
    b # NoMsg /\ b.seq = c.incoming_seq_nums[t]

\* The payload probe points to.
Incoming(c, t) == c.incoming_buf[t][Slot(c.incoming_seq_nums[t])].payload

\* increment_incoming_seq_num: the receiver is done with the current
\* message of type t.
increment_incoming_seq_num(c, t) ==
    [c EXCEPT !.handled[t] = Append(@, Incoming(c, t)),
              !.incoming_seq_nums[t] = @ + 1]

-----------------------------------------------------------------------------
\* The header's promise for send: messages sent in any order are handled
\* by the receiver in order of increasing sequence number, each with the
\* payload its buffer was filled with, none twice and none skipped.
ReceivedInOrder(c) == \A t \in Types : IsPrefix(c.handled[t], c.written[t])

=============================================================================
