------------------------------ MODULE ConfPath ------------------------------
(***************************************************************************)
(* derecho::getAbsoluteFilePath (src/src/conf/conf.cpp), which resolves a *)
(* file name given in the configuration against the directory of the      *)
(* configuration file named by DERECHO_CONF_FILE, checked over short      *)
(* paths against what resolving a path means: the same file is reached    *)
(* as if the name were looked up in that directory.                       *)
(*                                                                         *)
(* A path is a sequence of characters; positions are 0-based as in C++.   *)
(***************************************************************************)
EXTENDS Naturals, Sequences, SequencesExt

CONSTANTS
    Chars,      \* the alphabet, "/" included
    MaxLen,     \* longest file name
    MaxConfLen, \* longest DERECHO_CONF_FILE value
    Unset,      \* the environment variable is not set
    Cwd         \* the working directory, as a sequence of components

Slash == "/"

\* std::string::find_last_of('/'): the last position of a slash, or -1.
FindLastSlash(s) ==
    LET hits == {p \in 0 .. Len(s) - 1 : s[p + 1] = Slash}
    IN IF hits = {} THEN -1 ELSE Max(hits)

\* Mutant: the prefix is cut at the first slash (find_first_of).
getAbsoluteFilePathFirst(filename, conf_file) ==
    LET hits == {p \in 0 .. Len(conf_file) - 1 : conf_file[p + 1] = Slash} IN
    IF Len(filename) > 0 /\ filename[1] # Slash /\ conf_file # Unset
    THEN IF hits = {} THEN filename
         ELSE SubSeq(conf_file, 1, Min(hits)) \o <<Slash>> \o filename
    ELSE filename

\* getAbsoluteFilePath: a relative, non-empty name is put in the directory
\* part (up to the last slash) of the DERECHO_CONF_FILE path.
getAbsoluteFilePath(filename, conf_file) ==
    IF Len(filename) > 0 /\ filename[1] # Slash /\ conf_file # Unset
    THEN IF FindLastSlash(conf_file) = -1 THEN filename
         ELSE SubSeq(conf_file, 1, FindLastSlash(conf_file)) \o <<Slash>> \o filename
    ELSE filename

-----------------------------------------------------------------------------
(* Reference: path resolution, one component at a time.                   *)

\* The names between slashes, empty ones dropped (a//b is a/b).
Components(s) ==
    LET step(acc, c) ==
            IF c = Slash THEN <<acc[1], <<>>>>
            ELSE IF acc[2] = <<>> THEN <<Append(acc[1], <<c>>), <<c>>>>
            ELSE <<Append(Front(acc[1]), acc[2] \o <<c>>), acc[2] \o <<c>>>>
    IN FoldLeft(step, <<<<>>, <<>>>>, s)[1]

\* The components of the file a path names, from the root.
ResolvedPath(s) == IF Len(s) > 0 /\ s[1] = Slash THEN Components(s) ELSE Cwd \o Components(s)

\* A configuration file path names a file: it is non-empty and does not
\* end with a slash.
FilePaths == {s \in BoundedSeq(Chars, MaxConfLen) : Len(s) > 0 /\ Last(s) # Slash}

VARIABLES filename, conf_file

vars == <<filename, conf_file>>

Init ==
    /\ filename \in BoundedSeq(Chars, MaxLen)
    /\ conf_file \in FilePaths \cup {Unset}

\* Each input is one state; the function takes no steps.
Next == UNCHANGED vars

Spec == Init /\ [][Next]_vars

\* A relative name is found in the directory holding the configuration
\* file (what callers such as the JSON layout file rely on); an absolute
\* name, or any name when DERECHO_CONF_FILE is unset, is kept as it is.
ResolvesBesideConfFile ==
    LET r == getAbsoluteFilePath(filename, conf_file) IN
    IF conf_file # Unset /\ Len(filename) > 0 /\ filename[1] # Slash
    THEN ResolvedPath(r) = Front(ResolvedPath(conf_file)) \o Components(filename)
    ELSE r = filename

=============================================================================
