---------------------------- MODULE RefillPolicy ----------------------------
(***************************************************************************)
(* The operator's refill policy: the minimum balance and the multiplier of  *)
(* the targets, two fields of the Redis hash config:paymaster-api (the      *)
(* code's four multipliers are read alike).  The dashboard shows the policy *)
(* it reads there; the paymaster-api refills by the one it reads there,     *)
(* with other fallbacks, and by the one it was started with when that read *)
(* fails.  When do the two agree?                                          *)
(*                                                                         *)
(* A field holds a class of values: nothing, text no number can be made of, *)
(* a number out of range, the shipped default, or another legal number.     *)
(***************************************************************************)
EXTENDS Naturals

Absent == "absent"
Bad == "bad"
OutOfRange == "out of range"
Default == "default"

\* One other legal number: what the dashboard saves.
Chosen == "chosen"

FieldValues == {Absent, Bad, OutOfRange, Default, Chosen}

Legal == {Default, Chosen}

\* parsePositiveBpsOrDefault and parsePositiveBpsOrFallback.
Bps(value, fallback) == IF value \in Legal THEN value ELSE fallback

-----------------------------------------------------------------------------
(* The dashboard's GET *)

Refused == [ok |-> FALSE, min |-> Absent, mult |-> Absent]

\* BigInt() throws (502), the number is not positive (500), or a policy is shown.
Shown(min, mult) ==
    IF min \in {Bad, OutOfRange} THEN Refused
    ELSE [ok |-> TRUE, min |-> IF min = Absent THEN Default ELSE min,
          mult |-> Bps(mult, Default)]

-----------------------------------------------------------------------------
(* The refill *)

\* loadPaymasterRuntime: the minimum the api falls back to, read when it starts.
StartupMin(min) == IF min \in Legal THEN min ELSE Default

\* What the api's environment has to name for a refill.
RefillNeeds == {"owner key", "alto keys", "quoter", "swap addresses"}

\* parseRefillConfigFromEnv: without one of them the api never refills; a multiplier
\* that is not legal is the shipped one.
ParseRefillConfig(environ) ==
    [refill |-> RefillNeeds \subseteq environ.has, mult |-> Bps(environ.mult, Default)]

\* Variant with a mistake: the minimum is the one read when the api started.
UsedFromStartup(answered, min, mult, startup, env) ==
    [min |-> startup, mult |-> IF answered THEN Bps(mult, env) ELSE env]

\* resolveLiveRefillPolicy.  answered: VALKEY_URL is set and the HMGET gets an answer;
\* otherwise, and when no number can be made of the minimum (BigInt throws), minimum
\* and multiplier are the caller's.  startup, env: the minimum read when the api
\* started and the multiplier of its environment, which the caller holds.
Used(answered, min, mult, startup, env) ==
    IF ~answered \/ min = Bad THEN [min |-> startup, mult |-> env]
    ELSE [min |-> IF min \in Legal THEN min ELSE startup, mult |-> Bps(mult, env)]

=============================================================================
