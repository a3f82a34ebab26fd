----------------------------- MODULE RefillChain -----------------------------
(***************************************************************************)
(* What a refill acts on: the paymaster contract's USDC and gas-purchase   *)
(* counters, the owner account that signs every refill transaction, the    *)
(* swap pool, the accounts to be topped up, and the owner's transactions   *)
(* between their submission and the block that executes them.              *)
(*                                                                         *)
(* All of the owner's transactions carry consecutive nonces (the wallet    *)
(* takes the pending count), so they execute in submission order.  Gas is  *)
(* not charged; the owner's reserve that pays for it is kept.              *)
(***************************************************************************)
EXTENDS Allocation, Sequences

CONSTANTS
    Runs,                       \* refill runs the service may have going
    NoRun,                      \* nobody waits for this transaction
    Rates                       \* pool prices that may occur: wei per USDC unit

ASSUME RatesAssumption == Rates \subseteq Nat \ {0}
ASSUME NoRunAssumption == NoRun \notin Runs

VARIABLES
    pmUsdc,                     \* USDC balance of the paymaster contract
    owner,                      \* balances and router allowance of owner()
    books,                      \* the contract's totals of recorded purchases
    pool,                       \* USDC the swaps paid, wei they returned
    bal,                        \* bal[i], native balance of leg i
    mempool,                    \* submitted and not yet executed, oldest first
    receipt                     \* receipt[r], of the transaction r waits for

chainVars == <<pmUsdc, owner, books, pool, bal, mempool, receipt>>

Kinds == {"withdraw", "approve", "swap", "record", "unwrap", "send"}

Tx == [by : Runs \cup {NoRun}, kind : Kinds,
       usdc : Nat, wei : Nat, leg : Legs \cup {0}]

Receipts == {"none", "pending", "success", "reverted"}

ChainTypeOK ==
    /\ pmUsdc \in Nat
    /\ owner \in [usdc : Nat, wrapped : Nat, native : Nat, allowance : Nat]
    /\ books \in [usdc : Nat, wei : Nat]
    /\ pool \in [usdc : Nat, wei : Nat]
    /\ bal \in [Legs -> Nat]
    /\ mempool \in Seq(Tx)
    /\ receipt \in [Runs -> Receipts]

\* wei the owner's pending sends will take out of its native balance.
PendingSends ==
    SumOver([n \in DOMAIN mempool |->
                IF mempool[n].kind = "send" THEN mempool[n].wei ELSE 0],
            DOMAIN mempool)

-----------------------------------------------------------------------------
(* Submitting *)

\* A node accepts a transaction with a value only if the balance covers it and
\* what is already pending; writeContract and sendTransaction throw otherwise.
Accepted(tx) == tx.kind = "send" => owner.native >= PendingSends + tx.wei

Submit(r, tx) ==
    /\ Accepted(tx)
    /\ mempool' = Append(mempool, tx)
    /\ receipt' = [receipt EXCEPT ![r] = "pending"]
    /\ UNCHANGED <<pmUsdc, owner, books, pool, bal>>

\* The waiting run takes the receipt.
TakeReceipt(r) == receipt' = [receipt EXCEPT ![r] = "none"]

\* The runs in R are gone: their transactions stay pending, nobody waits.
Disown(R) ==
    /\ mempool' = [n \in DOMAIN mempool |->
                    IF mempool[n].by \in R THEN [mempool[n] EXCEPT !.by = NoRun]
                    ELSE mempool[n]]
    /\ receipt' = [r \in Runs |-> IF r \in R THEN "none" ELSE receipt[r]]

-----------------------------------------------------------------------------
(* Executing *)

\* Variant with a mistake: the balance is not checked.
WithdrawUnchecked(tx) ==
    /\ tx.kind = "withdraw"
    /\ pmUsdc' = pmUsdc - tx.usdc
    /\ owner' = [owner EXCEPT !.usdc = @ + tx.usdc]
    /\ UNCHANGED <<books, pool, bal>>

\* withdrawUsdc(to, amount), onlyOwner, to = owner.
WithdrawUsdc(tx) ==
    /\ tx.kind = "withdraw"
    /\ pmUsdc >= tx.usdc
    /\ pmUsdc' = pmUsdc - tx.usdc
    /\ owner' = [owner EXCEPT !.usdc = @ + tx.usdc]
    /\ UNCHANGED <<books, pool, bal>>

\* USDC approve(router, amount): the allowance is set, not increased.
Approve(tx) ==
    /\ tx.kind = "approve"
    /\ owner' = [owner EXCEPT !.allowance = tx.usdc]
    /\ UNCHANGED <<pmUsdc, books, pool, bal>>

\* The router's exactInputSingle at the pool's price of the moment; tx.wei is
\* amountOutMinimum.
ExactInputSingle(tx, rate) ==
    LET out == tx.usdc * rate
    IN  /\ tx.kind = "swap"
        /\ owner.usdc >= tx.usdc /\ owner.allowance >= tx.usdc
        /\ out >= tx.wei
        /\ owner' = [owner EXCEPT !.usdc = @ - tx.usdc,
                                  !.allowance = @ - tx.usdc,
                                  !.wrapped = @ + out]
        /\ pool' = [usdc |-> pool.usdc + tx.usdc, wei |-> pool.wei + out]
        /\ UNCHANGED <<pmUsdc, books, bal>>

\* recordGasPurchase(usdc, wei), onlyOwner: adds to the two counters.
RecordGasPurchase(tx) ==
    /\ tx.kind = "record"
    /\ books' = [usdc |-> books.usdc + tx.usdc, wei |-> books.wei + tx.wei]
    /\ UNCHANGED <<pmUsdc, owner, pool, bal>>

\* Wrapped native withdraw(wei).
Unwrap(tx) ==
    /\ tx.kind = "unwrap"
    /\ owner.wrapped >= tx.wei
    /\ owner' = [owner EXCEPT !.wrapped = @ - tx.wei, !.native = @ + tx.wei]
    /\ UNCHANGED <<pmUsdc, books, pool, bal>>

\* EntryPoint depositTo(paymaster), or a plain transfer to a bundler account.
SendNative(tx) ==
    /\ tx.kind = "send"
    /\ owner.native >= tx.wei
    /\ owner' = [owner EXCEPT !.native = @ - tx.wei]
    /\ bal' = [bal EXCEPT ![tx.leg] = @ + tx.wei]
    /\ UNCHANGED <<pmUsdc, books, pool>>

Succeeds(tx) ==
    \/ WithdrawUsdc(tx)
    \/ Approve(tx)
    \/ \E rate \in Rates : ExactInputSingle(tx, rate)
    \/ RecordGasPurchase(tx)
    \/ Unwrap(tx)
    \/ SendNative(tx)

\* Without any fault a transaction reverts when a balance it needs is gone, or
\* when the pool moved below the swap's minimum.
MustRevert(tx) ==
    CASE tx.kind = "withdraw" -> pmUsdc < tx.usdc
      [] tx.kind = "swap"     -> \/ owner.usdc < tx.usdc
                                 \/ owner.allowance < tx.usdc
                                 \/ \E rate \in Rates : tx.usdc * rate < tx.wei
      [] tx.kind = "unwrap"   -> owner.wrapped < tx.wei
      [] OTHER                -> FALSE

Receipt(tx, status) ==
    receipt' = [r \in Runs |-> IF r = tx.by THEN status ELSE receipt[r]]

\* A block executes the oldest pending transaction.
Mine ==
    /\ mempool # <<>>
    /\ mempool' = Tail(mempool)
    /\ Succeeds(Head(mempool))
    /\ Receipt(Head(mempool), "success")

Revert ==
    /\ mempool' = Tail(mempool)
    /\ Receipt(Head(mempool), "reverted")
    /\ UNCHANGED <<pmUsdc, owner, books, pool, bal>>

=============================================================================
