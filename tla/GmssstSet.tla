------------------------------ MODULE GmssstSet ------------------------------
(***************************************************************************)
(* The array setters of gmssst (src/include/derecho/core/detail/           *)
(* derecho_sst.hpp): set(array, value, length) and the two overloads on    *)
(* arrays of fixed size, which copy the whole array or its first num      *)
(* elements.  Each takes a lock_guard on a "static thread_local" mutex,   *)
(* memcpys, releases the lock and issues a signal fence.                  *)
(*                                                                         *)
(* Several threads each make one set() call on the same SST array field.  *)
(* memcpy copies the elements in an order the library chooses, so each   *)
(* copying step writes one element not yet written by that call.  The     *)
(* fence orders only the calling thread's own accesses and takes no step. *)
(***************************************************************************)
EXTENDS Naturals, SequencesExt

CONSTANTS
    Threads,   \* the threads calling set() on the field
    NumElems,       \* the number of elements of the field
    Old        \* the field's contents before the calls

Index == 1 .. NumElems

\* The value thread t copies in: an array whose every element is marked t.
Value(t) == [i \in Index |-> t]

VARIABLES
    array,    \* the SST field
    length,   \* length[t]: how many elements t's call copies
    locked,   \* the mutexes currently held
    copied,   \* copied[t]: the elements t's memcpy has written
    pc        \* pc[t]: "call", "copy" (in the locked scope) or "done"

vars == <<array, length, locked, copied, pc>>

\* static thread_local std::mutex set_mutex: every thread that calls the
\* function has a mutex of its own.
MutexOf(t) == t

\* Each thread calls one of the overloads: the pointer version with any
\* length, the fixed-size version (all NumElems elements), or the version
\* copying the first num.
Init ==
    /\ array = [i \in Index |-> Old]
    /\ length \in [Threads -> 1 .. NumElems]
    /\ locked = {}
    /\ copied = [t \in Threads |-> {}]
    /\ pc = [t \in Threads |-> "call"]

\* std::lock_guard<std::mutex> lock(set_mutex): blocks while the mutex is
\* held.
LockGuard(t) ==
    /\ pc[t] = "call"
    /\ MutexOf(t) \notin locked
    /\ locked' = locked \cup {MutexOf(t)}
    /\ pc' = [pc EXCEPT ![t] = "copy"]
    /\ UNCHANGED <<array, length, copied>>

\* One element of memcpy(array, value, length * sizeof(Elem)).
memcpy(t) ==
    /\ pc[t] = "copy"
    /\ \E i \in (1 .. length[t]) \ copied[t] :
          /\ array' = [array EXCEPT ![i] = Value(t)[i]]
          /\ copied' = [copied EXCEPT ![t] = @ \cup {i}]
    /\ UNCHANGED <<length, locked, pc>>

\* The end of the locked scope releases the mutex; the fence follows and
\* the call returns.
Release(t) ==
    /\ pc[t] = "copy"
    /\ copied[t] = 1 .. length[t]
    /\ locked' = locked \ {MutexOf(t)}
    /\ pc' = [pc EXCEPT ![t] = "done"]
    /\ UNCHANGED <<array, length, copied>>

Next == \E t \in Threads : LockGuard(t) \/ memcpy(t) \/ Release(t)

Spec == Init /\ [][Next]_vars

-----------------------------------------------------------------------------
\* The field after thread t's call alone: its first length[t] elements
\* replaced by t's value.
Apply(a, t) == [i \in Index |-> IF i <= length[t] THEN Value(t)[i] ELSE a[i]]

\* "Thread-safe setter ... takes a lock before running memcpy": once every
\* call has returned, the field holds what the calls give when made one
\* after the other in some order, never elements of two calls mixed
\* against every such order.
SetsSerialized ==
    (\A t \in Threads : pc[t] = "done")
        => \E o \in SetToSeqs(Threads) :
              array = FoldLeft(Apply, [i \in Index |-> Old], o)

=============================================================================
