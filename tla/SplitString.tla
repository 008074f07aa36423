---------------------------- MODULE SplitString ----------------------------
(***************************************************************************)
(* derecho::split_string (src/src/conf/conf.cpp), which cuts a string at  *)
(* every occurrence of a delimiter, checked over every string and         *)
(* delimiter of a small alphabet against what splitting means: joining    *)
(* the pieces with the delimiter gives the string back.                   *)
(*                                                                         *)
(* A std::string is a sequence of characters; positions are 0-based as in *)
(* C++ and translated to TLA+'s 1-based sequences in Find and Substr.     *)
(***************************************************************************)
EXTENDS Naturals, Sequences, SequencesExt

CONSTANTS
    Chars,       \* the alphabet
    MaxLen,      \* longest string split
    Delimiters   \* the delimiters tried (non-empty: see README)

NPos == -1   \* std::string::npos

\* std::string::find(d, from): the least position p >= from at which d
\* occurs, or npos.
Find(str, d, from) ==
    LET hits == {p \in from .. Len(str) - Len(d) :
                    SubSeq(str, p + 1, p + Len(d)) = d}
    IN IF hits = {} THEN NPos ELSE CHOOSE p \in hits : \A q \in hits : p <= q

\* std::string::substr(pos, count): at most count characters from pos.
Substr(str, pos, count) ==
    SubSeq(str, pos + 1, IF pos + count < Len(str) THEN pos + count ELSE Len(str))

\* The while loop of split_string: each piece is substr(lastpos, nextpos),
\* whose second argument std::string reads as a length.
RECURSIVE SplitFrom(_, _, _, _)
SplitFrom(str, d, lastpos, result) ==
    LET nextpos == Find(str, d, lastpos) IN
    IF nextpos = NPos
    THEN Append(result, Substr(str, lastpos, Len(str)))
    ELSE SplitFrom(str, d, nextpos + Len(d),
                   Append(result, Substr(str, lastpos, nextpos)))

split_string(str, d) == SplitFrom(str, d, 0, <<>>)

\* Reference: the pieces joined back together with the delimiter.
Join(pieces, d) ==
    FoldLeft(LAMBDA acc, p : acc \o d \o p, Head(pieces), Tail(pieces))

VARIABLES str, delimiter

vars == <<str, delimiter>>

Init ==
    /\ str \in BoundedSeq(Chars, MaxLen)
    /\ delimiter \in Delimiters

\* Each input is one state; the model takes no steps.
Next == UNCHANGED vars

Spec == Init /\ [][Next]_vars

\* Splitting a string at a delimiter and joining the pieces with it gives
\* the string back (what the callers of split_string, which parse
\* comma-separated configuration lists, rely on).
SplitRejoins == Join(split_string(str, delimiter), delimiter) = str

=============================================================================
