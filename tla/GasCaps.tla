------------------------------- MODULE GasCaps --------------------------------
(***************************************************************************)
(* The tool that recommends the gas caps the paymaster-api is started with  *)
(* (gas-cap-discovery): it sends operations of two profiles one after the   *)
(* other, takes what each cost from the receipt of its bundle, and          *)
(* recommends for each profile the cap few enough of them exceed.           *)
(*                                                                         *)
(* Shares and percentiles are in thousandths.                               *)
(***************************************************************************)
EXTENDS Integers, Sequences, FiniteSets

CONSTANTS
    NormalOps, DeployOps,       \* operations of a profile that are sent
    MinSamples,                 \* the least number of samples
    Target,                     \* the share of operations that may exceed a cap
    BufferBps,                  \* what is added to a cap
    Candidates,                 \* the percentiles that are tried, in order
    Units,                      \* bound: the gas an operation may use
    MaxRuns                     \* bound: runs of the tool on one chain

ASSUME CapsAssumption ==
    /\ MinSamples \in Nat \ {0}
    /\ {NormalOps, DeployOps, Target, BufferBps, MaxRuns} \subseteq Nat
    /\ Candidates \in Seq(0..1000) /\ Len(Candidates) > 0
    /\ Units \subseteq Nat \ {0}

Profiles == {"normal", "deploy"}

VARIABLES
    caps                        \* the tool: at, the operation it is at (i), its samples,
                                \* what it recommends; history: the runs before it (ran),
                                \* what its operations really used (sent), the ones whose
                                \* account is deployed, whether a bundle held another
                                \* operation as well (mixed), and whether the tool knows
                                \* the paymaster (watching)

capsVars == caps

NoCaps == [normal |-> 0, deploy |-> 0]

CapsInit(watchings) ==
    \E watching \in watchings :
        caps = [at |-> "idle", i |-> 1, samples |-> <<>>, recommended |-> NoCaps, ran |-> 0,
                sent |-> <<>>, deployed |-> {}, mixed |-> FALSE, watching |-> watching]

-----------------------------------------------------------------------------
(* runDiscovery *)

\* buildScenarioSequence: all of one profile, then all of the other.
Profile(i) == IF i <= NormalOps THEN "normal" ELSE "deploy"

\* The account of the normal operations is deployed before any is measured; each of
\* the others has an account of its own, made of its place in the sequence.
Deploys(i) == Profile(i) = "deploy" /\ i \notin caps.deployed

\* The warm-up: an error ends the run.
WarmUp ==
    /\ caps.at = "idle" /\ caps.ran < MaxRuns
    /\ \E at \in {"run", "over"} : caps' = [caps EXCEPT !.at = at]

\* Deploying costs more than any operation of a deployed account.
UsedBy(i) == IF Deploys(i) THEN {units + 2 : units \in Units} ELSE Units

\* The charge is not found for a paymaster the tool does not know.
Sample(i, seen) ==
    [profile |-> Profile(i), success |-> seen > 0,
     charged |-> IF caps.watching THEN seen ELSE 0, actual |-> IF seen > 0 THEN seen + 1 ELSE 0]

\* An operation that used so much was measured as one that used what was seen.
Measured(used, seen, deployed) ==
    LET i == caps.i
    IN  caps' = [caps EXCEPT !.at = IF i = NormalOps + DeployOps THEN "analyze" ELSE "run",
                    !.i = i + 1, !.samples = Append(@, Sample(i, seen)),
                    !.sent = Append(@, [profile |-> Profile(i), used |-> used]),
                    !.mixed = @ \/ seen \notin {used, 0}, !.deployed = @ \cup deployed]

\* The last events in the receipt of the bundle count, whoever's they are.  One that
\* reverts, could not be sent or cannot be found leaves a sample that is no success;
\* its account may be deployed nevertheless.  If its account cannot be given USDC,
\* the run ends.
ExecuteScenario ==
    /\ caps.at = "run"
    /\ \/ \E used \in UsedBy(caps.i), seen \in UsedBy(caps.i) \cup Units :
              Measured(used, seen, {caps.i})
       \/ \E deployed \in {{}, {caps.i}} : Measured(0, 0, deployed)
       \/ caps' = [caps EXCEPT !.at = "over"]

-----------------------------------------------------------------------------
(* analyzeGasCaps *)

\* What an operation of the profile was charged for; if nothing says so, what it used.
Values(profile) ==
    LET good == {j \in DOMAIN caps.samples :
                    caps.samples[j].profile = profile /\ caps.samples[j].success}
        charged == {j \in good : caps.samples[j].charged > 0}
    IN  IF charged # {} THEN [j \in charged |-> caps.samples[j].charged]
        ELSE [j \in {k \in good : caps.samples[k].actual > 0} |-> caps.samples[j].actual]

Exceeding(values, cap) == Cardinality({j \in DOMAIN values : values[j] > cap})

\* The value that rank others do not exceed, counted from the least.
Ranked(values, rank) ==
    CHOOSE v \in {values[j] : j \in DOMAIN values} :
        /\ Cardinality({j \in DOMAIN values : values[j] < v}) < rank
        /\ Cardinality({j \in DOMAIN values : values[j] <= v}) >= rank

\* Variant with a mistake: the rank is rounded down.
PercentilesRoundedDown(values, p) ==
    LET n == Cardinality(DOMAIN values)
        rank == (p * n) \div 1000
    IN  {Ranked(values, IF rank < 1 THEN 1 ELSE rank)}

\* The rank is rounded up; where it is whole, the division before it may have made
\* it a little more.
Percentiles(values, p) ==
    LET n == Cardinality(DOMAIN values)
        rank == (p * n + 999) \div 1000
        slip == IF (p * n) % 1000 = 0 /\ p > 0 /\ p < 1000 /\ rank < n THEN {0, 1} ELSE {0}
    IN  {Ranked(values, IF rank + s < 1 THEN 1 ELSE rank + s) : s \in slip}

\* The first candidate few enough exceed, else the last.
Chosen(values, cap) ==
    LET n == Cardinality(DOMAIN values)
        met == {c \in DOMAIN Candidates : Exceeding(values, cap[c]) * 1000 <= Target * n}
    IN  IF met = {} THEN cap[Len(Candidates)]
        ELSE cap[CHOOSE c \in met : \A d \in met : c <= d]

Buffered(cap) ==
    IF BufferBps = 0 THEN cap ELSE (cap * (10000 + BufferBps) + 9999) \div 10000

\* recommendForProfile.
Recommendations(profile) ==
    LET values == Values(profile)
    IN  {Buffered(Chosen(values, cap)) :
            cap \in {f \in [DOMAIN Candidates -> {values[j] : j \in DOMAIN values}] :
                        \A c \in DOMAIN Candidates : f[c] \in Percentiles(values, Candidates[c])}}

Enough(profile) == Cardinality(DOMAIN Values(profile)) >= MinSamples

\* One profile with too few samples leaves both without a cap.
Analyze ==
    /\ caps.at = "analyze"
    /\ IF \A profile \in Profiles : Enough(profile)
       THEN \E normal \in Recommendations("normal"), deploy \in Recommendations("deploy") :
                caps' = [caps EXCEPT !.at = "over", !.recommended =
                             [normal |-> normal, deploy |-> deploy]]
       ELSE caps' = [caps EXCEPT !.at = "over", !.recommended = NoCaps]

\* The tool is run again, on the same chain.
RunAgain ==
    /\ caps.at = "over" /\ caps.ran + 1 < MaxRuns
    /\ caps' = [caps EXCEPT !.at = "idle", !.i = 1, !.samples = <<>>, !.sent = <<>>,
                            !.mixed = FALSE, !.recommended = NoCaps, !.ran = @ + 1]

CapsStep == WarmUp \/ ExecuteScenario \/ Analyze \/ RunAgain

-----------------------------------------------------------------------------
(* Properties *)

Reachable == \E c \in DOMAIN Candidates : 1000 - Candidates[c] <= Target

\* Of the operations of a profile that succeeded and were charged, at most the
\* target share used more gas than the cap recommended for it, if one of the
\* candidate percentiles allows that at all and no bundle held another operation;
\* and a first run has measured deployments: its cap for them covers one.
CapsMeetTarget ==
    caps.at = "over" /\ caps.recommended # NoCaps /\ ~caps.mixed =>
        /\ Reachable =>
               \A profile \in Profiles :
                   LET used == {j \in DOMAIN caps.sent :
                                   caps.sent[j].profile = profile /\ caps.sent[j].used > 0}
                       over == {j \in used : caps.sent[j].used > caps.recommended[profile]}
                   IN  Cardinality(over) * 1000 <= Target * Cardinality(used)
        /\ caps.ran = 0 => \E units \in Units : caps.recommended["deploy"] >= units + 2

=============================================================================
