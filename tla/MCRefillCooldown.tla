-------------------------- MODULE MCRefillCooldown --------------------------
(***************************************************************************)
(* A small instance of RefillCooldown: an automatic and a manual run, one  *)
(* leg with a minimum of 2 wei and a target of 4, a pool that gives one    *)
(* wei per USDC unit.                                                      *)
(***************************************************************************)
EXTENDS RefillCooldown

MCRuns == Autos \cup Manuals

MCTargetBps == <<20000>>

MCInitOwner == [usdc |-> 0, wrapped |-> 0, native |-> 1, allowance |-> 0]

MCInitBal == <<1>>

=============================================================================
