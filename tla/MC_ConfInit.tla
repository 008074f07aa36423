----------------------------- MODULE MC_ConfInit -----------------------------
(***************************************************************************)
(* Three threads: two reach the configuration through Conf::get() and one *)
(* calls Conf::initialize() itself, so that the exchange can be won by    *)
(* either kind of caller and a loser can spin while the winner is in any *)
(* of the steps 2 to 5.                                                   *)
(***************************************************************************)
EXTENDS ConfInit

CONSTANTS t1, t2, t3

MC_Threads == {t1, t2, t3}
MC_Getters == {t1, t2}

=============================================================================
