------------------------- MODULE MC_ConfFunctions -------------------------
(***************************************************************************)
(* The configuration layer, checked in one run: ConfInit (the one-time   *)
(* initialization across threads), ConfLoad (which file or option sets a *)
(* key), ConfPath (getAbsoluteFilePath) and DerechoParams (a subgroup     *)
(* profile read from Conf).  They share no state, so the model is their   *)
(* disjoint union: part says which one a behaviour exercises, each starts *)
(* from all of its own inputs, and the variables of the others hold a     *)
(* fixed value.                                                            *)
(*                                                                         *)
(*   ConfInit: two threads calling Conf::get() and one calling            *)
(*   Conf::initialize() itself, so that the exchange can be won by either *)
(*   kind of caller and a loser can spin while the winner is in any of    *)
(*   the steps 2 to 5.                                                    *)
(*   ConfLoad: every state of the default and extra files stat() tests,   *)
(*   a readable or missing file for each argument and variable, with and  *)
(*   without each, and a command line of at most one option.              *)
(*   ConfPath: every name of length 3 or less and every DERECHO_CONF_FILE *)
(*   of length 4 or less over {a, b, /}, so that a path may hold two       *)
(*   slashes, a leading one, or none.                                      *)
(*   DerechoParams: sizes around the 32-byte header and around block       *)
(*   boundaries, block sizes that are and are not powers of two, and       *)
(*   algorithm names that are and are not known; uint64_t is scaled down  *)
(*   to 8 bits and the header keeps its real size.                         *)
(***************************************************************************)
EXTENDS Naturals, Sequences

CONSTANTS Key, UnknownOption, None, Unset, t1, t2, t3

VARIABLES part,
          flag, singleton, init_pc, builds,
          stat, group_arg, group_env, node_arg, node_env, argv, extra_env, config, optind, pc,
          filename, conf_file,
          profile, params

MC_Chars == {"a", "b", "/"}
MC_Cwd == <<<<"w">>>>

Conf == INSTANCE ConfInit WITH Threads <- {t1, t2, t3}, Getters <- {t1, t2},
                               pc <- init_pc
Load == INSTANCE ConfLoad
Path == INSTANCE ConfPath WITH Chars <- MC_Chars, MaxLen <- 3, MaxConfLen <- 4,
                               Cwd <- MC_Cwd
Params == INSTANCE DerechoParams WITH Width <- 8, HeaderSize <- 32,
              Sizes <- {0, 1, 15, 16, 17, 31, 32, 33, 64, 100, 150},
              BlockSizes <- {1, 16, 48},
              AlgorithmNames <- {"chain_send", "tree_send", "ring_send"}

InitIdle == flag = 0 /\ singleton = None /\ init_pc = None /\ builds = 0
LoadIdle ==
    /\ stat = None /\ group_arg = None /\ group_env = None /\ argv = <<>>
    /\ node_arg = None /\ node_env = None
    /\ extra_env = None /\ config = None /\ optind = 0 /\ pc = None
PathIdle == filename = <<>> /\ conf_file = Unset
ParamsIdle == profile = None /\ params = None

Init ==
    \/ part = "init" /\ Conf!Init /\ LoadIdle /\ PathIdle /\ ParamsIdle
    \/ part = "load" /\ Load!Init /\ InitIdle /\ PathIdle /\ ParamsIdle
    \/ part = "path" /\ Path!Init /\ InitIdle /\ LoadIdle /\ ParamsIdle
    \/ part = "params" /\ Params!Init /\ InitIdle /\ LoadIdle /\ PathIdle

initVars == <<flag, singleton, init_pc, builds>>
loadVars == <<stat, group_arg, group_env, node_arg, node_env, argv, extra_env, config, optind, pc>>
pathVars == <<filename, conf_file>>
paramsVars == <<profile, params>>

allVars == <<part, initVars, loadVars, pathVars, paramsVars>>

\* A step of thread t of ConfInit.
InitStep(t) ==
    part = "init" /\ Conf!ThreadStep(t) /\ UNCHANGED <<part, loadVars, pathVars, paramsVars>>

Next ==
    \/ \E t \in {t1, t2, t3} : InitStep(t)
    \/ part = "load" /\ Load!Next /\ UNCHANGED <<part, initVars, pathVars, paramsVars>>
    \/ part = "path" /\ Path!Next /\ UNCHANGED <<part, initVars, loadVars, paramsVars>>
    \/ part = "params" /\ Params!Next /\ UNCHANGED <<part, initVars, loadVars, pathVars>>

\* ConfInit's fairness: the scheduler eventually runs every runnable
\* thread.  The other parts are single calls that need none.
Spec == Init /\ [][Next]_allVars /\ \A t \in {t1, t2, t3} : WF_allVars(InitStep(t))

\* ConfInit's properties: its type invariant; the singleton is built once;
\* a thread past the loop of Conf::get() sees the defaulted log-level keys;
\* every Conf::get() call returns or ends the process.
TypeOK == part = "init" => Conf!TypeOK
SingleConstruction == part = "init" => Conf!SingleConstruction
GetSeesDefaults == part = "init" => Conf!GetSeesDefaults
GetReturns == \A t \in {t1, t2} : <>(part = "init" => init_pc[t] \in {"done", "terminated"})

\* ConfLoad's LayeredPrecedence, ConfPath's ResolvesBesideConfFile and
\* DerechoParams' EveryPayloadFits, each over its own inputs.
LayeredPrecedence == part = "load" => Load!LayeredPrecedence
ResolvesBesideConfFile == part = "path" => Path!ResolvesBesideConfFile
EveryPayloadFits == part = "params" => Params!EveryPayloadFits

=============================================================================
