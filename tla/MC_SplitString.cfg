\* split_string passes an end position where std::string::substr takes a length.
CONSTANTS
    Chars <- MC_Chars
    MaxLen <- MC_MaxLen
    Delimiters <- MC_Delimiters

SPECIFICATION Spec

INVARIANT
    SplitRejoins

\* Every input is a single state with no successor.
CHECK_DEADLOCK FALSE
