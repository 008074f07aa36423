--------------------------- MODULE DerechoParams ---------------------------
(***************************************************************************)
(* The multicast parameters of a subgroup profile                         *)
(* (DerechoParams in src/include/derecho/core/detail/multicast_group.hpp): *)
(* how from_profile reads a profile, how the constructor derives the      *)
(* buffer sizes, and which data plane a message of a given payload size   *)
(* then travels on: the SST slots when it fits sst_max_msg_size, RDMC     *)
(* otherwise.  Sizes are unsigned integers of Width bits.                  *)
(***************************************************************************)
EXTENDS Naturals

CONSTANTS
    Width,          \* bits of uint64_t (scaled down for the model)
    HeaderSize,     \* sizeof(header)
    Sizes,          \* values a size key of the profile may hold
    BlockSizes,     \* values the block_size key may hold
    AlgorithmNames  \* strings the rdmc_send_algorithm key may hold

Modulus == 2 ^ Width

\* rdmc::send_algorithm
Algorithms == {"BINOMIAL_SEND", "CHAIN_SEND", "SEQUENTIAL_SEND", "TREE_SEND"}

\* What from_profile returns when it throws instead.
Thrown == [threw |-> TRUE]

\* Mutant: the rounding drops the "+ 1" and rounds down.
compute_max_msg_size_down(max_payload_size, block_size, using_rdmc) ==
    LET max_msg_size == (max_payload_size + HeaderSize) % Modulus
    IN IF using_rdmc /\ max_msg_size % block_size # 0
       THEN ((max_msg_size \div block_size) * block_size) % Modulus
       ELSE max_msg_size

\* DerechoParams::compute_max_msg_size: payload plus header, rounded up to
\* a whole number of blocks when RDMC is used.
compute_max_msg_size(max_payload_size, block_size, using_rdmc) ==
    LET max_msg_size == (max_payload_size + HeaderSize) % Modulus
    IN IF using_rdmc /\ max_msg_size % block_size # 0
       THEN ((max_msg_size \div block_size + 1) * block_size) % Modulus
       ELSE max_msg_size

\* DerechoParams::send_algorithm_from_string; any other string is thrown.
send_algorithm_from_string(s) ==
    CASE s = "binomial_send"   -> "BINOMIAL_SEND"
      [] s = "chain_send"      -> "CHAIN_SEND"
      [] s = "sequential_send" -> "SEQUENTIAL_SEND"
      [] s = "tree_send"       -> "TREE_SEND"
      [] OTHER                 -> "throw"

\* The constructor DerechoParams(max_payload_size, ...).
MakeParams(max_payload_size, max_reply_payload_size, max_smc_payload_size, block_size, window_size, algorithm) ==
    [threw              |-> FALSE,
     max_msg_size       |-> compute_max_msg_size(max_payload_size, block_size,
                                max_payload_size > max_smc_payload_size),
     max_reply_msg_size |-> (max_reply_payload_size + HeaderSize) % Modulus,
     sst_max_msg_size   |-> (max_smc_payload_size + HeaderSize) % Modulus,
     block_size         |-> block_size,
     window_size        |-> window_size,
     rdmc_send_algorithm |-> algorithm]

\* DerechoParams::from_profile: a profile with a missing key, or with an
\* unknown algorithm name, throws; otherwise the constructor runs on the
\* values read.
from_profile(profile) ==
    IF ~profile.keys_present THEN Thrown
    ELSE LET alg == send_algorithm_from_string(profile.algorithm) IN
         IF alg = "throw" THEN Thrown
         ELSE MakeParams(profile.max_payload_size, profile.max_reply_payload_size,
                         profile.max_smc_payload_size, profile.block_size,
                         profile.window_size, alg)

\* The profiles a configuration file can hold (keys_present: every key of
\* Conf::subgroupProfileFields is there), keeping the sizes where payload,
\* header and rounding stay below 2^Width.
Profiles ==
    {p \in [keys_present : BOOLEAN,
            max_payload_size : Sizes,
            max_reply_payload_size : {0},
            max_smc_payload_size : Sizes,
            block_size : BlockSizes,
            window_size : {1},
            algorithm : AlgorithmNames] :
        p.max_payload_size + HeaderSize + p.block_size < Modulus}

VARIABLES profile, params

vars == <<profile, params>>

Init ==
    /\ profile \in Profiles
    /\ params = from_profile(profile)

\* Each profile is one state; parsing it takes no further steps.
Next == UNCHANGED vars

Spec == Init /\ [][Next]_vars

-----------------------------------------------------------------------------
\* The data plane a payload of size p travels on under params (the
\* engine's choice: SST slots when payload and header fit a slot).
UsesSlots(prm, p) == p + HeaderSize <= prm.sst_max_msg_size

\* Every payload the profile allows has a buffer that holds it with its
\* header on the plane the engine picks: an SST slot, or else an RDMC
\* buffer of max_msg_size bytes cut into whole blocks.
EveryPayloadFits ==
    ~params.threw =>
        \A p \in 0 .. profile.max_payload_size :
            \/ UsesSlots(params, p)
            \/ /\ p + HeaderSize <= params.max_msg_size
               /\ params.max_msg_size % params.block_size = 0

=============================================================================
