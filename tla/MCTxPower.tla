----------------------------- MODULE MCTxPower -----------------------------
(* Levels for TxPower: the driver's list has a gap, and operators ask for a    *)
(* level, for a power in the gap and for more than there is.                   *)
EXTENDS TxPower

MCLevels == {0, 1, 2, 4, 5}
MCCmdPowers == {1, 3, 7}
=============================================================================
