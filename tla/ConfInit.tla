------------------------------ MODULE ConfInit ------------------------------
(***************************************************************************)
(* One-time initialization of the configuration singleton                 *)
(* (src/src/conf/conf.cpp).  Threads reach it either through Conf::get()  *)
(* (every getConf* accessor), which spins calling Conf::initialize() until *)
(* the flag reads CONF_INITIALIZED, or by calling Conf::initialize()      *)
(* directly, as latency_test's main does.  The thread whose               *)
(* compare_exchange moves the flag out of CONF_UNINITIALIZED builds the   *)
(* singleton, fills in the default log levels, publishes the flag and     *)
(* then runs the sanity checks, which may throw.                          *)
(*                                                                         *)
(* The configuration's content is abstracted to two facts: whether the    *)
(* default log levels have been filled in, and whether it passes the      *)
(* sanity checks of step 5 (which depends on the files, environment and   *)
(* arguments, so both outcomes are possible).                             *)
(***************************************************************************)
EXTENDS Naturals, FiniteSets

CONSTANTS
    Threads,    \* threads that touch the configuration
    Getters     \* the ones that call Conf::get(); the others call initialize()

ASSUME Getters \subseteq Threads

UNINITIALIZED == 0   \* CONF_UNINITIALIZED
INITIALIZING  == 1   \* CONF_INITIALIZING
INITIALIZED   == 2   \* CONF_INITIALIZED

NoConf == [built |-> FALSE, defaults |-> FALSE, sane |-> FALSE]

VARIABLES
    flag,        \* Conf::singleton_initialized_flag
    singleton,   \* Conf::singleton, NoConf while it is null
    pc,          \* where each thread is
    builds       \* history: how many times a singleton was constructed

vars == <<flag, singleton, pc, builds>>

\* Program points.  "loop": the while test of Conf::get().  "cas": entry of
\* Conf::initialize().  "load", "defaults", "publish", "check": steps 2, 3,
\* 4 and 5 of initialize.  "done": returned.  "threw": initialize threw to
\* its caller.  "terminated": the exception left the noexcept Conf::get().
PCs == {"loop", "cas", "load", "defaults", "publish", "check",
        "done", "threw", "terminated"}

Init ==
    /\ flag = UNINITIALIZED
    /\ singleton = NoConf
    /\ pc = [t \in Threads |-> IF t \in Getters THEN "loop" ELSE "cas"]
    /\ builds = 0

\* Where initialize() returns to: the loop of get(), or its direct caller.
Return(t) == IF t \in Getters THEN "loop" ELSE "done"

-----------------------------------------------------------------------------
\* Mutant: get() leaves the loop once the singleton pointer is non-null.
GetLoopOnPointer(t) ==
    /\ pc[t] = "loop"
    /\ pc' = [pc EXCEPT ![t] = IF singleton.built THEN "done" ELSE "cas"]
    /\ UNCHANGED <<flag, singleton, builds>>

\* Conf::get(): while the flag is not CONF_INITIALIZED, call initialize().
GetLoop(t) ==
    /\ pc[t] = "loop"
    /\ pc' = [pc EXCEPT ![t] = IF flag = INITIALIZED THEN "done" ELSE "cas"]
    /\ UNCHANGED <<flag, singleton, builds>>

\* Mutant: the exchange succeeds whenever the flag is not yet initialized.
TryInitNotInitialized(t) ==
    /\ pc[t] = "cas"
    /\ IF flag # INITIALIZED
       THEN /\ flag' = INITIALIZING
            /\ pc' = [pc EXCEPT ![t] = "load"]
       ELSE /\ pc' = [pc EXCEPT ![t] = Return(t)]
            /\ UNCHANGED flag
    /\ UNCHANGED <<singleton, builds>>

\* Mutant: the winner goes on to step 3 without constructing the singleton.
TryInitSkipLoad(t) ==
    /\ pc[t] = "cas"
    /\ IF flag = UNINITIALIZED
       THEN /\ flag' = INITIALIZING
            /\ pc' = [pc EXCEPT ![t] = "defaults"]
       ELSE /\ pc' = [pc EXCEPT ![t] = Return(t)]
            /\ UNCHANGED flag
    /\ UNCHANGED <<singleton, builds>>

\* compare_exchange_strong(UNINITIALIZED -> INITIALIZING); on failure
\* initialize() does nothing.
TryInit(t) ==
    /\ pc[t] = "cas"
    /\ IF flag = UNINITIALIZED
       THEN /\ flag' = INITIALIZING
            /\ pc' = [pc EXCEPT ![t] = "load"]
       ELSE /\ pc' = [pc EXCEPT ![t] = Return(t)]
            /\ UNCHANGED flag
    /\ UNCHANGED <<singleton, builds>>

\* Steps 1 and 2: locate the files and construct the singleton from files
\* and command line; whether the result passes step 5 is not known yet.
Load(t) ==
    /\ pc[t] = "load"
    /\ \E sane \in BOOLEAN :
          singleton' = [built |-> TRUE, defaults |-> FALSE, sane |-> sane]
    /\ builds' = builds + 1
    /\ pc' = [pc EXCEPT ![t] = "defaults"]
    /\ UNCHANGED flag

\* Step 3: default the optional log-level keys.
ApplyDefaults(t) ==
    /\ pc[t] = "defaults"
    /\ singleton' = [singleton EXCEPT !.defaults = TRUE]
    /\ pc' = [pc EXCEPT ![t] = "publish"]
    /\ UNCHANGED <<flag, builds>>

\* Mutant: the flag store of step 4 is lost.
PublishMissing(t) ==
    /\ pc[t] = "publish"
    /\ pc' = [pc EXCEPT ![t] = "check"]
    /\ UNCHANGED <<flag, singleton, builds>>

\* Step 4: store CONF_INITIALIZED.
Publish(t) ==
    /\ pc[t] = "publish"
    /\ flag' = INITIALIZED
    /\ pc' = [pc EXCEPT ![t] = "check"]
    /\ UNCHANGED <<singleton, builds>>

\* Step 5: the sanity checks throw std::logic_error on a bad configuration;
\* out of Conf::get(), which is noexcept, that ends the process.
SanityCheck(t) ==
    /\ pc[t] = "check"
    /\ pc' = [pc EXCEPT ![t] =
                IF singleton.sane THEN Return(t)
                ELSE IF t \in Getters THEN "terminated" ELSE "threw"]
    /\ UNCHANGED <<flag, singleton, builds>>

ThreadStep(t) ==
    \/ GetLoop(t)
    \/ TryInit(t)
    \/ Load(t)
    \/ ApplyDefaults(t)
    \/ Publish(t)
    \/ SanityCheck(t)

Next == \E t \in Threads : ThreadStep(t)

\* The scheduler eventually runs every runnable thread; none of the steps
\* blocks, the waiting in Conf::get() is a spin.
Spec == Init /\ [][Next]_vars /\ \A t \in Threads : WF_vars(ThreadStep(t))

-----------------------------------------------------------------------------
TypeOK ==
    /\ flag \in {UNINITIALIZED, INITIALIZING, INITIALIZED}
    /\ singleton \in {NoConf} \cup [built : {TRUE}, defaults : BOOLEAN, sane : BOOLEAN]
    /\ pc \in [Threads -> PCs]
    /\ builds \in 0 .. Cardinality(Threads)

\* The singleton is constructed once: the std::unique_ptr is never replaced
\* under a thread that already holds a reference from Conf::get(), however
\* the get() spins and the direct initialize() calls interleave.
SingleConstruction == builds <= 1

\* A thread that got past the loop of Conf::get() reads a configuration
\* whose optional log-level keys were already defaulted (step 3 happens
\* before the step-4 store the loop waits for).
GetSeesDefaults ==
    \A t \in Getters : pc[t] = "done" => singleton.defaults

\* Every Conf::get() call eventually returns or ends the process: the spin
\* of the threads that lost the exchange ends once the winner publishes.
GetReturns ==
    \A t \in Getters : <>(pc[t] \in {"done", "terminated"})

\* No thread returns from Conf::get() holding a configuration the sanity
\* checks of Conf::initialize() reject.
GetSeesOnlySaneConf ==
    \A t \in Getters : pc[t] = "done" => singleton.sane

=============================================================================
