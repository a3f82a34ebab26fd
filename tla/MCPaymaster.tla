----------------------------- MODULE MCPaymaster -----------------------------
(***************************************************************************)
(* Small instances of PaymasterBundle: a menu of operations that between   *)
(* them meet each condition of the contract, in a short time; and two      *)
(* senders that only pay, past the end of a period.                        *)
(***************************************************************************)
EXTENDS PaymasterBundle

CONSTANTS s1, s2, s3, k1, k2, t1, Late

\* Signed as it is.
Signed(op) == [op EXCEPT !.seal = BuildPaymasterDigest(op)]

Unsigned(sender) ==
    [sender |-> sender, target |-> t1, initCode |-> FALSE, signer |-> k1,
     seal |-> <<>>, data |-> "whole", capProfile |-> 0,
     validUntil |-> Late, price |-> 1, minFee |-> 0, normal |-> 2, deploy |-> 3,
     gasLimit |-> 2, maxFee |-> 1, referrer |-> FALSE, refBps |-> 0,
     spend |-> 0, approve |-> 50, keep |-> FALSE]

Plain(sender) == Signed(Unsigned(sender))

Deploying(sender) ==
    Signed([Unsigned(sender) EXCEPT !.initCode = TRUE, !.gasLimit = 3, !.capProfile = 1])

SpendsAll == Signed([Unsigned(s1) EXCEPT !.spend = 24])

Referred == Signed([Unsigned(s1) EXCEPT !.referrer = TRUE, !.refBps = 500, !.minFee = 20,
                                        !.spend = 2, !.approve = 20])

TooMuchReferral == Signed([Unsigned(s1) EXCEPT !.referrer = TRUE, !.refBps = 501])

Free == Signed([Unsigned(s2) EXCEPT !.price = 0, !.target = NoTarget,
                                    !.validUntil = StartTime, !.keep = TRUE])

OtherSigner == Signed([Unsigned(s2) EXCEPT !.signer = k2])

\* The estimate is lowered after it was signed, so that the balance would do.
Lowered == [Deploying(s3) EXCEPT !.deploy = 1]

Malformed == {[Plain(s1) EXCEPT !.data = "short"], [Plain(s1) EXCEPT !.data = "impossible"],
              Signed([Unsigned(s1) EXCEPT !.capProfile = 2])}

MCMenu == {Plain(s1), Deploying(s2), Deploying(s3), SpendsAll, Referred,
           TooMuchReferral, Free, OtherSigner, Lowered} \cup Malformed

MCUsers == [s \in Senders |-> IF s = s3 THEN 2 ELSE 24]

\* Two senders that only pay: the gas limits.
MCGasMenu == {Plain(s1), Signed([Unsigned(s2) EXCEPT !.gasLimit = 3])}

Everything == [menu |-> MCMenu, deployed |-> {s1}, deposit |-> 8, until |-> 3]

Paying == [menu |-> MCGasMenu, deployed |-> {s1, s2}, deposit |-> 12, until |-> 4]

MCScenes == {Everything, Paying}

MCLongScenes == {[Paying EXCEPT !.deposit = 8, !.until = Late]}

=============================================================================
