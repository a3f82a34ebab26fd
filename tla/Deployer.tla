------------------------------ MODULE Deployer ------------------------------
(***************************************************************************)
(* The one-shot container contract-deployer: it puts the contracts of the   *)
(* stack on the chain and writes the addresses of the paymaster and of the  *)
(* gas burner into files on a volume, where the other containers look them  *)
(* up.  It runs again on every `docker compose up`, and the chain, a fork   *)
(* that keeps no state, may have started anew in between while the volume   *)
(* kept the files.                                                          *)
(*                                                                         *)
(* Account 0 deploys: the contract of its n-th transaction has address n.   *)
(* The three dozen fixed contracts are three, one per factory they are made *)
(* by, sent from a wallet made for the run; the calls that set up the       *)
(* account factories are one step.  The chain is external: it executes      *)
(* pending transactions in the order of their nonces.                       *)
(***************************************************************************)
EXTENDS Naturals, FiniteSets, Sequences

CONSTANTS
    Modes,                      \* ways the deployer may be configured
    MaxNonce,                   \* bound: transactions of account 0 on a chain
    MaxResets                   \* bound: times the chain starts anew

ASSUME ModesAssumption == Modes \subseteq {"full", "skip", "production"}
ASSUME DeployerBoundsAssumption == MaxNonce \in Nat \ 0..1 /\ MaxResets \in Nat

VARIABLES
    mode,
    chain,                      \* code and ownTreasury by address; nonce and pool:
                                \* account 0's; factories and fixed: those with code
    file,                       \* the addresses in the two files
    dep,                        \* the deployer: where it is (pc, job), the transaction
                                \* whose receipt it waits for, the address it got; steps
                                \* of the script taken, their transactions at the node
                                \* and in blocks; how the last run ended
    lateNonce,                  \* an anvil_setNonce sent and not executed
    hist                        \* history: chains before this one (bound), a late
                                \* setNonce moved the nonce back, something failed on
                                \* this chain, a run ended well and nothing failed

deployVars == <<mode, chain, file, dep, lateNonce, hist>>

Addrs == 0..(MaxNonce - 1)
None == MaxNonce                \* no address, no nonce
Jobs == {"paymaster", "burner"}

Tx == [kind : Jobs \cup {"treasury"}, nonce : Addrs, to : Addrs \cup {None}]
NoTx == [kind |-> "none", nonce |-> None, to |-> None]

Fixed == 1..3

NewChain == [code |-> [a \in Addrs |-> "none"], ownTreasury |-> {}, nonce |-> 0,
             pool |-> {}, factories |-> {1}, fixed |-> {}]

DeployerTypeOK ==
    /\ mode \in Modes
    /\ chain \in [code : [Addrs -> Jobs \cup {"none"}], ownTreasury : SUBSET Addrs,
                  nonce : 0..MaxNonce, pool : SUBSET Tx,
                  factories : SUBSET Fixed, fixed : SUBSET Fixed]
    /\ file \in [Jobs -> Addrs \cup {None}]
    /\ dep \in [pc : {"off", "script", "setup", "nonces", "check", "deploying",
                      "treasury", "write", "verify"},
                job : Jobs, awaited : Tx \cup {NoTx},
                receipt : {"none", "success", "reverted"}, target : Addrs \cup {None},
                script : 0..5, arrived : SUBSET Fixed, mined : 0..3,
                exit : {"none", "ok", "failed"}]
    /\ lateNonce \in Addrs \cup {None}
    /\ hist \in [resets : 0..MaxResets, rolledBack : BOOLEAN,
                 faulty : BOOLEAN, healed : BOOLEAN]

\* The deployer before the first contract, with how the last run ended.
Before(pc, exit) ==
    [pc |-> pc, job |-> "paymaster", awaited |-> NoTx, receipt |-> "none",
     target |-> None, script |-> 0, arrived |-> {}, mined |-> 0, exit |-> exit]

DeployerInit ==
    /\ mode \in Modes
    /\ chain = NewChain
    /\ file = [j \in Jobs |-> None]
    /\ dep = Before("off", "none")
    /\ lateNonce = None
    /\ hist = [resets |-> 0, rolledBack |-> FALSE, faulty |-> FALSE, healed |-> FALSE]

\* The state some earlier run of the deployer has left, in production.
DeployedBefore ==
    /\ mode = "production"
    /\ chain = [NewChain EXCEPT !.code[0] = "paymaster", !.ownTreasury = {0}, !.nonce = 2]
    /\ file = [j \in Jobs |-> IF j = "paymaster" THEN 0 ELSE None]
    /\ dep = Before("off", "ok")
    /\ lateNonce = None
    /\ hist = [resets |-> 0, rolledBack |-> FALSE, faulty |-> FALSE, healed |-> TRUE]

Fault == hist' = [hist EXCEPT !.faulty = TRUE, !.healed = FALSE]

-----------------------------------------------------------------------------
(* main: a run starts and ends *)

\* Bound: there is room for a paymaster.  Assumption: by then the node has
\* executed the last run's setNonce.
StartRun ==
    /\ dep.pc = "off" /\ lateNonce = None
    /\ chain.nonce + Cardinality(chain.pool) + 2 <= MaxNonce
    /\ dep' = Before(CASE mode = "full" -> "script"
                       [] mode = "skip" -> "nonces"
                       [] OTHER -> "check", dep.exit)
    /\ UNCHANGED <<mode, chain, file, lateNonce, hist>>

\* The container is killed, or an error nobody catches ends the process: a
\* refused transaction of the script, a failed call of the setup.  A file it was
\* writing may be left empty.
CrashRun ==
    /\ dep.pc # "off"
    /\ dep' = Before("off", "failed")
    /\ \/ UNCHANGED file
       \/ dep.pc = "write" /\ file' = [file EXCEPT ![dep.job] = None]
    /\ Fault
    /\ UNCHANGED <<mode, chain, lateNonce>>

-----------------------------------------------------------------------------
(* The fixed contracts *)

\* Variant with a mistake: a factory is etched after its first transaction.
ScriptEtchingLate == <<"send", "send", "etch", "send", "etch">>

\* The fixed contract 1 comes from a factory the chain has; the other two from
\* factories the deployer puts there, each before the first use.
Script == <<"send", "etch", "send", "etch", "send">>

\* The sends and the etchings among the steps taken.
Taken(what) == Cardinality({i \in 1..dep.script : Script[i] = what})

\* A transaction is sent and not waited for; an etching is.
ScriptStep ==
    /\ dep.pc = "script" /\ dep.script < Len(Script)
    /\ dep' = [dep EXCEPT !.script = @ + 1]
    /\ chain' = IF Script[dep.script + 1] = "etch"
                THEN [chain EXCEPT !.factories = @ \cup {Taken("etch") + 2}]
                ELSE chain
    /\ UNCHANGED <<mode, file, lateNonce, hist>>

\* The requests reach the node in any order.
Arrive(i) ==
    /\ dep.pc = "script" /\ i <= Taken("send") /\ i \notin dep.arrived
    /\ dep' = [dep EXCEPT !.arrived = @ \cup {i}]
    /\ UNCHANGED <<mode, chain, file, lateNonce, hist>>

\* A call of a factory without code succeeds and does nothing.
MineFixed ==
    /\ dep.pc = "script" /\ dep.mined + 1 \in dep.arrived
    /\ dep' = [dep EXCEPT !.mined = @ + 1]
    /\ chain' = [chain EXCEPT !.fixed =
                     IF dep.mined + 1 \in chain.factories THEN @ \cup {dep.mined + 1} ELSE @]
    /\ UNCHANGED <<mode, file, lateNonce, hist>>

\* The loop mines until the wallet's nonce is the one after the last send.
ScriptDone ==
    /\ dep.pc = "script" /\ dep.script = Len(Script) /\ dep.mined = Taken("send")
    /\ dep' = Before("setup", dep.exit)
    /\ UNCHANGED <<mode, chain, file, lateNonce, hist>>

SetUp ==
    /\ dep.pc = "setup"
    /\ dep' = [dep EXCEPT !.pc = "check"]
    /\ UNCHANGED <<mode, chain, file, lateNonce, hist>>

\* verifyDeployed: getCode of every fixed contract.
Verify ==
    /\ dep.pc = "verify"
    /\ LET complete == chain.fixed = Fixed IN
       /\ dep' = Before("off", IF complete THEN "ok" ELSE "failed")
       /\ hist' = [hist EXCEPT !.healed = @ \/ (complete /\ ~hist.faulty)]
    /\ UNCHANGED <<mode, chain, file, lateNonce>>

\* The skip path reads account 0's nonce and sets it to that.  The promise of
\* setNonce is dropped, so nothing waits for the call to be executed.
SendNonce ==
    /\ dep.pc = "nonces"
    /\ dep' = [dep EXCEPT !.pc = "check"]
    /\ lateNonce' = chain.nonce
    /\ UNCHANGED <<mode, chain, file, hist>>

\* Bound: the nonce moves back once, on the first chain.
SetNonce ==
    /\ lateNonce # None
    /\ hist.rolledBack \/ hist.resets > 0 => lateNonce = chain.nonce
    /\ chain' = [chain EXCEPT !.nonce = lateNonce]
    /\ lateNonce' = None
    /\ hist' = [hist EXCEPT !.rolledBack = @ \/ chain.nonce # lateNonce]
    /\ UNCHANGED <<mode, file, dep>>

-----------------------------------------------------------------------------
(* deployProject4Paymaster and deployGasBurner *)

\* Production has no gas burner, and the full path verifies at the end.
AfterJob ==
    IF dep.job = "paymaster" /\ mode # "production"
    THEN [Before("check", dep.exit) EXCEPT !.job = "burner"]
    ELSE IF mode = "full" THEN Before("verify", dep.exit)
    ELSE Before("off", "ok")

JobDone ==
    /\ dep' = AfterJob
    /\ hist' = [hist EXCEPT !.healed = @ \/ (AfterJob.pc = "off" /\ ~hist.faulty)]

\* The next nonce of account 0, pending transactions included.  Bound: after
\* MaxNonce transactions the node takes no more, and the job fails.
Send(kind, to) ==
    LET tx == [kind |-> kind, to |-> to,
               nonce |-> chain.nonce + Cardinality({t \in chain.pool : t.nonce >= chain.nonce})]
    IN  /\ tx.nonce \in Addrs
        /\ chain' = [chain EXCEPT !.pool = @ \cup {tx}]
        /\ dep' = [dep EXCEPT !.pc = IF kind = "treasury" THEN "treasury" ELSE "deploying",
                              !.target = to, !.awaited = tx, !.receipt = "none"]

\* Variant with a mistake: the chain is not asked.
FoundInFile == file[dep.job] # None

\* The file names an address that holds some code.
Found == file[dep.job] # None /\ chain.code[file[dep.job]] # "none"

Skip ==
    /\ dep.pc = "check" /\ Found
    /\ JobDone
    /\ UNCHANGED <<mode, chain, file, lateNonce>>

\* An error while it looks counts as not found.
Deploy ==
    /\ dep.pc = "check"
    /\ IF Found THEN Fault ELSE UNCHANGED hist
    /\ Send(dep.job, None)
    /\ UNCHANGED <<mode, file, lateNonce>>

\* Variant with a mistake: the address is written before setTreasury.
WriteFirst(address) ==
    /\ dep' = [dep EXCEPT !.pc = "write", !.target = address]
    /\ UNCHANGED chain

\* setTreasury(self): viem estimates its gas first, which throws when the
\* address is no paymaster.
SetOwnTreasury(address) ==
    /\ chain.code[address] = "paymaster"
    /\ Send("treasury", address)

\* The receipt of a deployment that reverted has an address or not.
Deployed ==
    /\ dep.pc = "deploying" /\ dep.receipt # "none"
    /\ IF dep.job = "paymaster" THEN SetOwnTreasury(dep.awaited.nonce)
       ELSE /\ dep' = [dep EXCEPT !.pc = "write", !.target = dep.awaited.nonce]
            /\ UNCHANGED chain
    /\ UNCHANGED <<mode, file, lateNonce, hist>>

\* Nobody looks at the status in the receipt.
TreasurySet ==
    /\ dep.pc = "treasury" /\ dep.receipt # "none"
    /\ dep' = [dep EXCEPT !.pc = "write"]
    /\ UNCHANGED <<mode, chain, file, lateNonce, hist>>

Write ==
    /\ dep.pc = "write"
    /\ file' = [file EXCEPT ![dep.job] = dep.target]
    /\ JobDone
    /\ UNCHANGED <<mode, chain, lateNonce>>

\* main catches what the two functions throw (a receipt that does not come, an
\* RPC error, a receipt without an address) and goes on.
JobFails ==
    /\ dep.pc \in {"check", "deploying", "treasury"}
    /\ dep' = AfterJob
    /\ Fault
    /\ UNCHANGED <<mode, chain, file, lateNonce>>

\* A deployment fails where there is code already.
Mine(tx) ==
    LET success == tx.kind = "treasury" \/ chain.code[tx.nonce] = "none"
    IN  /\ tx \in chain.pool /\ tx.nonce = chain.nonce
        /\ chain' = [chain EXCEPT
               !.nonce = @ + 1, !.pool = @ \ {tx},
               !.code = IF tx.kind # "treasury" /\ success
                        THEN [@ EXCEPT ![tx.nonce] = tx.kind] ELSE @,
               !.ownTreasury = IF tx.kind = "treasury" THEN @ \cup {tx.to} ELSE @]
        /\ dep' = IF tx = dep.awaited
                  THEN [dep EXCEPT !.receipt = IF success THEN "success" ELSE "reverted"]
                  ELSE dep
        /\ UNCHANGED <<mode, file, lateNonce, hist>>

-----------------------------------------------------------------------------
(* The chain starts anew.  Assumption: not while the deployer runs, whose     *)
(* calls would all fail.                                                      *)

ResetChain ==
    /\ mode # "production" /\ dep.pc = "off" /\ hist.resets < MaxResets
    /\ chain' = NewChain
    /\ lateNonce' = None
    /\ hist' = [hist EXCEPT !.resets = @ + 1, !.rolledBack = FALSE,
                            !.faulty = FALSE, !.healed = FALSE]
    /\ UNCHANGED <<mode, file, dep>>

DeployerStep ==
    \/ ScriptStep \/ ScriptDone \/ SetUp \/ Verify \/ SendNonce
    \/ Skip \/ Deploy \/ Deployed \/ TreasurySet \/ Write \/ JobFails

ChainStep ==
    \/ \E i \in Fixed : Arrive(i)
    \/ MineFixed
    \/ SetNonce
    \/ \E tx \in chain.pool : Mine(tx)

DeployNext == StartRun \/ DeployerStep \/ CrashRun \/ ChainStep \/ ResetChain

DeployerSpec == DeployerInit /\ [][DeployNext]_deployVars

-----------------------------------------------------------------------------
(* Properties *)

\* On the first chain, whatever fails or is repeated, the files name contracts that
\* can be used: a paymaster with USDC fees going to itself and, as long as no
\* late setNonce moved account 0's nonce back, a gas burner.
FilesNameUsableContracts ==
    hist.resets = 0 =>
        /\ file["paymaster"] # None =>
               /\ chain.code[file["paymaster"]] = "paymaster"
               /\ file["paymaster"] \in chain.ownTreasury
        /\ ~hist.rolledBack /\ file["burner"] # None => chain.code[file["burner"]] = "burner"

\* On a new chain too, a run that ends well with nothing failing on that chain
\* leaves a file one can use, whatever the old file says.
CleanRunHeals ==
    hist.healed => /\ file["paymaster"] # None
                   /\ chain.code[file["paymaster"]] = "paymaster"
                   /\ file["paymaster"] \in chain.ownTreasury

\* Once the loop that mines has ended, all fixed contracts are on the chain:
\* none was lost because its factory came later.
ScriptDoneMeansDeployed ==
    mode = "full" /\ dep.pc \in {"setup", "check", "deploying", "treasury", "write", "verify"}
        => chain.fixed = Fixed

\* What a deployment leaves behind can be used: the fixed contracts by the script,
\* the paymaster by a run with nothing failing.
DeploymentSound == CleanRunHeals /\ ScriptDoneMeansDeployed

=============================================================================
