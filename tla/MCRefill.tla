------------------------------ MODULE MCRefill ------------------------------
(***************************************************************************)
(* Small instances of Refill: two legs (the EntryPoint deposit and the     *)
(* utility account), or the first alone; a minimum of 2 wei and targets of *)
(* 4 and 3 wei; a pool that gives one wei per USDC unit.                   *)
(***************************************************************************)
EXTENDS Refill

MCRuns == Autos \cup Manuals

MCTargetBps == <<20000, 15000>>

MCInitOwner == [usdc |-> 0, wrapped |-> 0, native |-> 1, allowance |-> 0]

MCInitBal == <<1, 3>>

\* One leg.
MCOneTargetBps == <<20000>>

MCOneInitBal == <<1>>

=============================================================================
