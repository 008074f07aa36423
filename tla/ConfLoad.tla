------------------------------ MODULE ConfLoad ------------------------------
(***************************************************************************)
(* How the configuration map of derecho::Conf (src/src/conf/conf.cpp) is  *)
(* filled.  Conf::initialize picks the group and node files (an argument, *)
(* else the DERECHO_CONF_FILE / DERECHO_NODE_CONF_FILE variable, else a    *)
(* default file that stat() accepts); the constructor loads the group     *)
(* file, then the node file, then the options getopt_long recognizes;     *)
(* later Conf::loadExtraFile picks a further file (the one an environment *)
(* variable names, else a default) and loads it into the singleton.       *)
(*                                                                         *)
(* One key is followed.  Each file sets it to the file's own name, so     *)
(* config shows which file set it last; a file is otherwise known by what *)
(* stat() reports of it.  GetPot yields no variables for a file it cannot *)
(* open (missing, unreadable or a directory).                              *)
(***************************************************************************)
EXTENDS Naturals, Sequences, TLC

CONSTANTS
    Key,            \* the configuration key followed
    UnknownOption,  \* an option getopt_long does not know
    None            \* no file / no value

\* Conf::long_options: the options getopt_long recognizes.
long_options == {Key}

\* What stat() and open() find at a path.
Stats == {"missing", "directory", "unreadable", "ok"}

\* The files a process can be given.
GroupFiles == {"group_arg", "group_env", "group_default"}
NodeFiles == {"node_arg", "node_env", "node_default"}
ExtraFiles == {"extra_env", "extra_default"}
Files == GroupFiles \cup NodeFiles \cup ExtraFiles

\* Files initialize takes by name, without a stat() test: for these only
\* whether GetPot can read them matters.
NamedFiles == {"group_arg", "group_env", "node_arg", "node_env"}

\* The value the command line gives the key.
CmdValue == "cmdline"

\* The test on a stat() result: stat(...) == 0 && S_ISREG(st_mode) &&
\* (S_IRUSR | st_mode); the last operand is a bitwise or with a non-zero
\* constant, true for every mode.
StatAccepts(s) == s \notin {"missing", "directory"} /\ (TRUE \/ s = "ok")

\* Steps 1 and 1.5 of Conf::initialize: the file argument if given, else
\* the file the environment variable names (taken without a test), else
\* the default file if stat() accepts it, else none.
ChooseFile(arg, env, default, stat) ==
    IF arg # None THEN arg
    ELSE IF env # None THEN env
    ELSE IF StatAccepts(stat[default]) THEN default
    ELSE None

\* Mutant: variables are added with insert / try_emplace, which keeps a
\* value already in config.
loadFromFileKeep(config, f, stat) ==
    IF f # None /\ stat[f] = "ok" /\ config = None THEN f ELSE config

\* Conf::loadFromFile: every variable GetPot finds is assigned into config.
loadFromFile(config, f, stat) ==
    IF f # None /\ stat[f] = "ok" THEN f ELSE config

VARIABLES
    stat,        \* stat[f]: what the file system holds at f's path
    group_arg,   \* the conf_file argument of initialize, or None
    group_env,   \* DERECHO_CONF_FILE, or None
    node_arg,    \* the node_conf_file argument of initialize, or None
    node_env,    \* DERECHO_NODE_CONF_FILE, or None
    argv,        \* the command-line options: <<name, optarg>> pairs
    extra_env,   \* the variable loadExtraFile consults, or None
    config,      \* Conf::config[Key], or None
    optind,      \* options getopt_long has returned
    pc           \* "initialize", "options", "initialized", "loaded", "threw"

vars == <<stat, group_arg, group_env, node_arg, node_env, argv, extra_env,
          config, optind, pc>>

Init ==
    /\ \E named \in [NamedFiles -> {"missing", "ok"}],
          tested \in [Files \ NamedFiles -> Stats] : stat = named @@ tested
    /\ group_arg \in {None, "group_arg"}
    /\ group_env \in {None, "group_env"}
    /\ node_arg \in {None, "node_arg"}
    /\ node_env \in {None, "node_env"}
    /\ argv \in {<<>>} \cup {<<<<o, CmdValue>>>> : o \in long_options \cup {UnknownOption}}
    /\ extra_env \in {None, "extra_env"}
    /\ config = None
    /\ optind = 0
    /\ pc = "initialize"

\* getConfString and the other getConf* functions: Conf::get() (its wait
\* for initialization is module ConfInit), then a lookup in config.
getConf == config

-----------------------------------------------------------------------------
\* Conf::initialize steps 1 and 1.5, then the constructor's step 1: the
\* group file and then the node file are loaded.
Resolve ==
    LET g == ChooseFile(group_arg, group_env, "group_default", stat)
        n == ChooseFile(node_arg, node_env, "node_default", stat)
    IN /\ pc = "initialize"
       /\ config' = loadFromFile(loadFromFile(config, g, stat), n, stat)
       /\ pc' = "options"
       /\ UNCHANGED <<stat, group_arg, group_env, node_arg, node_env, argv, extra_env, optind>>

\* One iteration of the getopt_long loop: a recognized option (case 0)
\* is assigned into config, an unknown one ('?') is skipped.
GetOpt ==
    LET o == argv[optind + 1] IN
    /\ pc = "options"
    /\ optind < Len(argv)
    /\ config' = IF o[1] \in long_options THEN o[2] ELSE config
    /\ optind' = optind + 1
    /\ UNCHANGED <<stat, group_arg, group_env, node_arg, node_env, argv, extra_env, pc>>

\* getopt_long returns -1: the constructor returns and initialize marks
\* the singleton initialized.
EndOptions ==
    /\ pc = "options"
    /\ optind = Len(argv)
    /\ pc' = "initialized"
    /\ UNCHANGED <<stat, group_arg, group_env, node_arg, node_env, argv,
                   extra_env, config, optind>>

\* Conf::loadExtraFile: the file the variable names if stat() accepts
\* it, else the default if stat() accepts that, else a runtime_error; the
\* file chosen is loaded into the initialized singleton.
LoadExtraFile ==
    LET f == IF extra_env # None /\ StatAccepts(stat[extra_env]) THEN extra_env
             ELSE IF StatAccepts(stat["extra_default"]) THEN "extra_default"
             ELSE None
    IN /\ pc = "initialized"
       /\ IF f = None
          THEN /\ pc' = "threw"
               /\ UNCHANGED config
          ELSE /\ config' = loadFromFile(config, f, stat)
               /\ pc' = "loaded"
       /\ UNCHANGED <<stat, group_arg, group_env, node_arg, node_env, argv, extra_env, optind>>

Next == Resolve \/ GetOpt \/ EndOptions \/ LoadExtraFile

Spec == Init /\ [][Next]_vars

-----------------------------------------------------------------------------
\* Reference: which source should provide the key once Conf is built. A
\* recognized command-line option wins over the node file, which wins over
\* the group file; a file counts only if it could be read.
Provides(f) == f # None /\ stat[f] = "ok"

Expected ==
    LET g == ChooseFile(group_arg, group_env, "group_default", stat)
        n == ChooseFile(node_arg, node_env, "node_default", stat)
    IN
    IF \E i \in DOMAIN argv : argv[i][1] \in long_options THEN CmdValue
    ELSE IF Provides(n) THEN n
    ELSE IF Provides(g) THEN g
    ELSE None

\* Once initialize has returned, getConf yields the value of the source
\* with the highest precedence: the constructor loads the files before it
\* parses the command line, and loadFromFile overwrites what is there.
LayeredPrecedence == pc = "initialized" => getConf = Expected

=============================================================================
