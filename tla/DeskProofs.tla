------------------------------ MODULE DeskProofs ------------------------------
(***************************************************************************)
(* Theorems about module Desk, for every set of scenes and every size of    *)
(* its constants.  Each part has an invariant of its own, over its own      *)
(* variables: a step of one part leaves the others alone.                   *)
(***************************************************************************)
EXTENDS Desk, FiniteSetTheorems, TLAPS

-----------------------------------------------------------------------------
(* The panel *)

Stages == {"unsent", "asked", "forwarded", "policy", "balances", "served", "over"}

Buttoned == {"load", "save", "estimate", "refill", "native", "usdc"}

RequestRecord == [at : Stages, saw : Nat, kind : Buttoned \cup {"none", "status"}]

PanelRecord == [min : Nat, minShown : BOOLEAN, minError : BOOLEAN,
                minLoading : BOOLEAN, minSaving : BOOLEAN,
                estimate : Nat, estimateShown : BOOLEAN, estimateError : BOOLEAN,
                estimateLoading : BOOLEAN,
                loading : BOOLEAN, devAction : BOOLEAN, anvilEnabled : BOOLEAN]

PanelTypeOK ==
    /\ policy \in Nat /\ refills \in Nat /\ seenRefills \in Nat
    /\ request \in [Requests -> RequestRecord]
    /\ panel \in PanelRecord
    /\ mixed \in BOOLEAN /\ crossed \in BOOLEAN

\* A request is in flight.
InFlight(q, kinds) == request[q].at \notin {"unsent", "over"} /\ request[q].kind \in kinds

\* Nothing crosses the newest request about the policy: what it brings is what is in
\* Redis, and once it is over the page shows that, or an error.
PolicyInv ==
    ~mixed =>
        /\ \A q, r \in Requests : InFlight(q, {"load", "save"}) /\ InFlight(r, {"load", "save"})
                                      => q = r
        /\ \A q \in Requests : InFlight(q, {"load", "save"}) /\ request[q].at = "served"
                                   => request[q].saw = policy
        /\ (\A q \in Requests : ~InFlight(q, {"load", "save"})) /\ panel.minShown /\ ~panel.minError
               => panel.min = policy

\* Only an estimate goes through the paymaster-api's stages; what a refill saw was over.
RefillInv ==
    /\ seenRefills \in 0..refills
    /\ \A q \in Requests : request[q].at \in {"forwarded", "policy", "balances"}
                               => request[q].kind = "estimate"
    /\ \A q \in Requests : request[q].kind = "refill" /\ request[q].at = "served"
                               => request[q].saw \in 0..refills

\* The same as PolicyInv of estimates: the newest read its balances after the last
\* refill that the panel saw end.
EstimateInv ==
    ~crossed =>
        /\ \A q, r \in Requests : InFlight(q, {"estimate"}) /\ InFlight(r, {"estimate"}) => q = r
        /\ \A q \in Requests : InFlight(q, {"estimate"}) /\ request[q].at \in {"balances", "served"}
                                   => request[q].saw >= seenRefills
        /\ (\A q \in Requests : ~InFlight(q, {"estimate"})) /\ panel.estimateShown
              /\ ~panel.estimateError
               => panel.estimate >= seenRefills

\* The buttons let one request for money through at a time.
FundInv ==
    /\ \A q, r \in Requests : InFlight(q, {"native", "usdc"}) /\ InFlight(r, {"native", "usdc"})
                                  => q = r
    /\ \A q \in Requests : InFlight(q, {"native", "usdc"}) => panel.devAction

PanelInv == PanelTypeOK /\ PolicyInv /\ RefillInv /\ EstimateInv /\ FundInv

\* What a step of the desk does to the panel.
Taken(r) ==
    /\ Funding(r) /\ request[r].at = "asked" /\ Served(r, 0)
    /\ UNCHANGED <<policy, refills, panel, mixed, crossed, seenRefills>>

PanelMoves ==
    \/ UNCHANGED panelVars
    \/ SaveElsewhere
    \/ \E r \in Requests :
        \/ \E kind \in Buttoned : Press(r, kind)
        \/ ServePolicy(r) \/ ServeRefill(r) \/ Taken(r)
        \/ Forward(r) \/ BeginEstimate(r) \/ SnapshotForEstimate(r) \/ QuoteEstimate(r)
        \/ Loaded(r) \/ Saved(r) \/ Estimated(r) \/ StatusKnown(r, BOOLEAN) \/ Funded(r)
        \/ \E next \in Requests : Refilled(r, next)

LEMMA PanelPart ==
    ASSUME scene \in Scenes, Next
    PROVE  PanelMoves
<1>1. ASSUME NEW part, part # "panel", Only(part)
      PROVE  UNCHANGED panelVars
  BY <1>1 DEF Only
<1>2. CASE Has("panel") /\ PanelStep(scene.last, scene.kinds, StatusAnswers(scene.tools))
  <2>1. scene.kinds \subseteq Buttoned
    BY <1>2, KindsAssumption DEF Has, Buttoned
  <2>2. StatusAnswers(scene.tools) \subseteq BOOLEAN
    BY WorldAssumption DEF StatusAnswers, Probe
  <2>3. PICK r \in Requests :
            \/ r <= scene.last /\ \E kind \in scene.kinds : Press(r, kind)
            \/ ServePolicy(r) \/ ServeRefill(r)
            \/ Forward(r) \/ BeginEstimate(r) \/ SnapshotForEstimate(r) \/ QuoteEstimate(r)
            \/ Loaded(r) \/ Saved(r) \/ Estimated(r) \/ StatusKnown(r, StatusAnswers(scene.tools))
            \/ \E next \in Requests : Refilled(r, next)
    BY <1>2 DEF PanelStep
  <2>4. StatusKnown(r, StatusAnswers(scene.tools)) => StatusKnown(r, BOOLEAN)
    BY <2>2 DEF StatusKnown
  <2>5. QED
    BY <2>1, <2>3, <2>4 DEF PanelMoves
<1>3. CASE \E r \in Requests : Received(r) \/ FundAnswered(r) \/ GivenUp(r)
  BY <1>3 DEF Received, FundAnswered, GivenUp, PanelMoves, Taken
<1>4. CASE SaveElsewhere
  BY <1>4 DEF PanelMoves
<1>5. CASE \E part \in {"chain", "tables", "rows", "metrics", "overview", "caps"} : Only(part)
  BY <1>1, <1>5 DEF PanelMoves
<1>6. QED
  BY <1>2, <1>3, <1>4, <1>5 DEF Next
LEMMA PanelInitInv ==
    ASSUME scene \in Scenes, PanelInit(scene.first)
    PROVE  PanelInv
<1> DEFINE first == scene.first
<1>1. /\ first \in Seq({"status", "load", "estimate"})
      /\ \A i, j \in DOMAIN first : first[i] = first[j] => i = j
  BY FirstAssumption
<1>2. \A r \in Requests : r <= Len(first) => r \in DOMAIN first /\ first[r] \in {"status", "load", "estimate"}
  BY <1>1 DEF Requests
<1>3. request = [r \in Requests |->
           [at |-> IF r <= Len(first) THEN "asked" ELSE "unsent", saw |-> 0,
            kind |-> IF r <= Len(first) THEN first[r] ELSE "none"]]
  BY DEF PanelInit
<1> HIDE DEF first
<1>4. PanelTypeOK
  <2>1. \A r \in Requests : request[r] \in RequestRecord
    BY <1>2, <1>3 DEF RequestRecord, Stages, Buttoned
  <2>2. QED
    BY <1>3, <2>1 DEF PanelTypeOK, PanelInit, PanelRecord
<1>5. \A r \in Requests : request[r].at # "unsent" =>
          r <= Len(first) /\ request[r].kind = first[r] /\ request[r].at = "asked"
  BY <1>3
<1>6. ASSUME NEW q \in Requests, NEW r \in Requests,
             request[q].at # "unsent", request[r].at # "unsent",
             request[q].kind = request[r].kind
      PROVE  q = r
  <2>1. first[q] = first[r]
    BY <1>5, <1>6
  <2>2. q \in DOMAIN first /\ r \in DOMAIN first
    BY <1>2, <1>5, <1>6
  <2>3. QED
    BY <1>1, <2>1, <2>2
<1>7. \A r \in Requests : request[r].at # "unsent" => request[r].kind \in {"status", "load", "estimate"}
  BY <1>2, <1>5
<1>8. PolicyInv
  BY <1>5, <1>6, <1>7 DEF PolicyInv, InFlight, PanelInit
<1>9. EstimateInv /\ RefillInv
  <2>1. seenRefills = 0 /\ refills = 0 /\ ~panel.estimateShown
    BY DEF PanelInit
  <2>2. \A q \in Requests : request[q].at \notin {"forwarded", "policy", "balances", "served"}
    BY <1>5
  <2>3. \A q, r \in Requests : InFlight(q, {"estimate"}) /\ InFlight(r, {"estimate"}) => q = r
    BY <1>6 DEF InFlight
  <2>4. QED
    BY <2>1, <2>2, <2>3 DEF EstimateInv, RefillInv
<1>10. FundInv
  BY <1>5, <1>6, <1>7 DEF FundInv, InFlight, PanelInit
<1>11. QED
  BY <1>4, <1>8, <1>9, <1>10 DEF PanelInv

\* One request becomes another record.
LEMMA RequestType ==
    ASSUME PanelTypeOK, NEW r \in Requests, NEW new \in RequestRecord,
           request' = [request EXCEPT ![r] = new]
    PROVE  /\ request' \in [Requests -> RequestRecord]
           /\ request'[r] = new
           /\ \A q \in Requests \ {r} : request'[q] = request[q]
BY DEF PanelTypeOK

\* One request goes on to another stage.
Becomes(r, at, saw) ==
    /\ request' \in [Requests -> RequestRecord]
    /\ request'[r].at = at /\ request'[r].saw = saw /\ request'[r].kind = request[r].kind
    /\ \A q \in Requests \ {r} : request'[q] = request[q]

LEMMA AtBecomes ==
    ASSUME PanelTypeOK, NEW r \in Requests, NEW at \in Stages,
           request' = [request EXCEPT ![r].at = at]
    PROVE  Becomes(r, at, request[r].saw)
BY DEF PanelTypeOK, RequestRecord, Becomes

LEMMA SawBecomes ==
    ASSUME PanelTypeOK, NEW r \in Requests, NEW at \in Stages, NEW saw \in Nat,
           request' = [request EXCEPT ![r].at = at, ![r].saw = saw]
    PROVE  Becomes(r, at, saw)
<1>1. \A q \in Requests : request'[q] =
          IF q = r THEN [[request[r] EXCEPT !.at = at] EXCEPT !.saw = saw] ELSE request[q]
  BY DEF PanelTypeOK
<1>2. [[request[r] EXCEPT !.at = at] EXCEPT !.saw = saw] \in RequestRecord
  BY DEF PanelTypeOK, RequestRecord
<1>3. request' \in [Requests -> RequestRecord]
  BY <1>1, <1>2 DEF PanelTypeOK
<1>4. QED
  BY <1>1, <1>3 DEF Becomes, PanelTypeOK, RequestRecord

LEMMA PressKeeps ==
    ASSUME PanelInv, NEW r \in Requests, NEW kind \in Buttoned, Press(r, kind)
    PROVE  PanelInv'
<1> USE DEF PanelInv
<1> DEFINE new == [at |-> "asked", saw |-> 0, kind |-> kind]
<1>1. new \in RequestRecord
  BY DEF RequestRecord, Stages
<1>2. /\ request' \in [Requests -> RequestRecord]
      /\ request'[r] = new
      /\ \A q \in Requests \ {r} : request'[q] = request[q]
  BY <1>1, RequestType DEF Press
<1>3. request[r].at = "unsent" /\ Enabled(kind)
  BY DEF Press, Unsent
<1>4. panel' \in PanelRecord
  BY DEF Press, Busy, PanelTypeOK, PanelRecord, Buttoned
<1>5. PanelTypeOK'
  BY <1>2, <1>4 DEF Press, PanelTypeOK, Open
<1>6. PolicyInv'
  <2>1. CASE kind \in {"load", "save"}
    <3>1. ~mixed' => \A q \in Requests : ~InFlight(q, {"load", "save"})
      BY <2>1 DEF Press, Open, InFlight
    <3>2. QED
      BY <1>2, <2>1, <3>1 DEF PolicyInv, InFlight
  <2>2. CASE kind \notin {"load", "save"}
    <3>1. \A q \in Requests : InFlight(q, {"load", "save"})' <=> InFlight(q, {"load", "save"})
      BY <1>2, <1>3, <2>2 DEF InFlight
    <3>2. /\ mixed' = mixed /\ policy' = policy
          /\ panel'.min = panel.min /\ panel'.minShown = panel.minShown
          /\ panel'.minError = panel.minError
      BY <2>2 DEF Press, Busy, PanelTypeOK, PanelRecord, Buttoned
    <3>3. QED
      BY <1>2, <1>3, <3>1, <3>2 DEF PolicyInv, InFlight
  <2>3. QED
    BY <2>1, <2>2
<1>7. EstimateInv' /\ RefillInv'
  <2>1. /\ seenRefills' \in 0..refills'
        /\ \A q \in Requests : request'[q].at \in {"forwarded", "policy", "balances"}
                                   => request'[q].kind = "estimate"
        /\ \A q \in Requests : request'[q].kind = "refill" /\ request'[q].at = "served"
                                   => request'[q].saw \in 0..refills'
    BY <1>2 DEF Press, RefillInv
  <2>2. CASE kind = "estimate"
    <3>1. ~crossed' => \A q \in Requests : ~InFlight(q, {"estimate"})
      BY <2>2 DEF Press, Open, InFlight
    <3>2. ~crossed' => \A q \in Requests : InFlight(q, {"estimate"})' <=> q = r
      BY <1>2, <2>2, <3>1 DEF InFlight
    <3>3. request'[r].at = "asked"
      BY <1>2
    <3>4. QED
      BY <2>1, <3>2, <3>3 DEF EstimateInv, RefillInv
  <2>3. CASE kind # "estimate"
    <3>1. \A q \in Requests : InFlight(q, {"estimate"})' <=> InFlight(q, {"estimate"})
      BY <1>2, <1>3, <2>3 DEF InFlight
    <3>2. /\ crossed' = crossed /\ seenRefills' = seenRefills
          /\ panel'.estimate = panel.estimate /\ panel'.estimateShown = panel.estimateShown
          /\ panel'.estimateError = panel.estimateError
      BY <2>3 DEF Press, Busy, PanelTypeOK, PanelRecord, Buttoned
    <3>3. QED
      BY <1>2, <1>3, <2>1, <3>1, <3>2 DEF EstimateInv, RefillInv, InFlight
  <2>4. QED
    BY <2>2, <2>3
<1>8. FundInv'
  <2>1. CASE kind \in {"native", "usdc"}
    <3>1. panel.devAction = FALSE /\ panel'.devAction = TRUE
      BY <1>3, <2>1 DEF Press, Enabled, FundingEnabled, Busy, PanelTypeOK, PanelRecord, Buttoned
    <3>2. \A q \in Requests : ~InFlight(q, {"native", "usdc"})
      BY <3>1 DEF FundInv
    <3>3. QED
      BY <1>2, <3>1, <3>2 DEF FundInv, InFlight
  <2>2. CASE kind \notin {"native", "usdc"}
    <3>1. panel'.devAction = panel.devAction
      BY <2>2 DEF Press, Busy, PanelTypeOK, PanelRecord, Buttoned
    <3>2. QED
      BY <1>2, <1>3, <2>2, <3>1 DEF FundInv, InFlight
  <2>3. QED
    BY <2>1, <2>2
<1>9. QED
  BY <1>5, <1>6, <1>7, <1>8

LEMMA ServePolicyKeeps ==
    ASSUME PanelInv, NEW r \in Requests, ServePolicy(r)
    PROVE  PanelInv'
<1> USE DEF PanelInv
<1>1. policy' \in Nat /\ request[r].kind \in {"load", "save"} /\ request[r].at = "asked"
  BY DEF ServePolicy, PanelTypeOK
<1>2. Becomes(r, "served", policy')
  BY <1>1, SawBecomes DEF ServePolicy, Served, Stages, PanelTypeOK
<1>3. UNCHANGED <<refills, panel, mixed, crossed, seenRefills>>
  BY DEF ServePolicy
<1>4. PanelTypeOK'
  BY <1>1, <1>2, <1>3 DEF PanelTypeOK, Becomes
<1>5. PolicyInv'
  BY <1>1, <1>2, <1>3 DEF PolicyInv, InFlight, Becomes
<1>6. EstimateInv' /\ RefillInv'
  BY <1>1, <1>2, <1>3 DEF EstimateInv, RefillInv, InFlight, Becomes
<1>7. FundInv'
  BY <1>1, <1>2, <1>3 DEF FundInv, InFlight, Becomes
<1>8. QED
  BY <1>4, <1>5, <1>6, <1>7

LEMMA ServeRefillKeeps ==
    ASSUME PanelInv, NEW r \in Requests, ServeRefill(r)
    PROVE  PanelInv'
<1> USE DEF PanelInv
<1>1. /\ refills \in Nat /\ refills' = refills + 1
      /\ request[r].kind = "refill" /\ request[r].at = "asked"
  BY DEF ServeRefill, PanelTypeOK
<1>2. Becomes(r, "served", refills')
  <2>1. refills' \in Nat /\ "served" \in Stages
    BY <1>1 DEF Stages
  <2>2. QED
    BY <1>1, <2>1, SawBecomes DEF ServeRefill, Served
<1>3. UNCHANGED <<policy, panel, mixed, crossed, seenRefills>>
  BY DEF ServeRefill
<1>4. PanelTypeOK'
  BY <1>1, <1>2, <1>3 DEF PanelTypeOK, Becomes
<1>5. PolicyInv'
  BY <1>1, <1>2, <1>3 DEF PolicyInv, InFlight, Becomes
<1>6. EstimateInv' /\ RefillInv'
  <2>1. seenRefills \in Nat /\ \A q \in Requests : request[q].saw \in Nat
    BY DEF PanelTypeOK, RequestRecord
  <2>2. \A q \in Requests : request'[q].kind = "refill" /\ request'[q].at = "served"
                                 => request'[q].saw \in 0..refills'
    BY <1>1, <1>2, <2>1 DEF RefillInv, Becomes
  <2>3. seenRefills' \in 0..refills'
    BY <1>1, <1>3, <2>1 DEF RefillInv
  <2>4. \A q \in Requests : InFlight(q, {"estimate"})' <=> InFlight(q, {"estimate"})
    BY <1>1, <1>2 DEF InFlight, Becomes
  <2>5. \A q \in Requests : request'[q].kind # "refill" => request'[q] = request[q]
    BY <1>1, <1>2 DEF Becomes
  <2>6. \A q \in Requests : request'[q].at \in {"forwarded", "policy", "balances"}
                                 => request'[q].kind = "estimate"
    BY <1>1, <1>2 DEF RefillInv, Becomes
  <2>7. QED
    BY <1>3, <2>2, <2>3, <2>4, <2>5, <2>6 DEF EstimateInv, RefillInv, InFlight
<1>7. FundInv'
  BY <1>1, <1>2, <1>3 DEF FundInv, InFlight, Becomes
<1>8. QED
  BY <1>4, <1>5, <1>6, <1>7

LEMMA TakenKeeps ==
    ASSUME PanelInv, NEW r \in Requests, Taken(r)
    PROVE  PanelInv'
<1> USE DEF PanelInv
<1>1. request[r].kind \in {"native", "usdc"} /\ request[r].at = "asked"
  BY DEF Taken, Funding
<1>2. Becomes(r, "served", 0)
  BY <1>1, SawBecomes DEF Taken, Served, Stages
<1>3. UNCHANGED <<policy, refills, panel, mixed, crossed, seenRefills>>
  BY DEF Taken
<1>4. PanelTypeOK'
  BY <1>1, <1>2, <1>3 DEF PanelTypeOK, Becomes
<1>5. PolicyInv'
  BY <1>1, <1>2, <1>3 DEF PolicyInv, InFlight, Becomes
<1>6. EstimateInv' /\ RefillInv'
  BY <1>1, <1>2, <1>3 DEF EstimateInv, RefillInv, InFlight, Becomes
<1>7. FundInv'
  BY <1>1, <1>2, <1>3 DEF FundInv, InFlight, Becomes
<1>8. QED
  BY <1>4, <1>5, <1>6, <1>7

\* An estimate reads the balances after the last refill the panel saw end.
LEMMA EstimateKeeps ==
    ASSUME PanelInv, NEW r \in Requests,
           Forward(r) \/ BeginEstimate(r) \/ SnapshotForEstimate(r) \/ QuoteEstimate(r)
    PROVE  PanelInv'
<1> USE DEF PanelInv
<1>1. request[r].kind = "estimate" /\ request[r].at \in {"asked", "forwarded", "policy", "balances"}
  BY DEF Forward, BeginEstimate, SnapshotForEstimate, QuoteEstimate, RefillInv
<1>2. UNCHANGED <<policy, refills, panel, mixed, crossed, seenRefills>>
  BY DEF Forward, BeginEstimate, SnapshotForEstimate, QuoteEstimate
<1>3. refills \in Nat /\ request[r].saw \in Nat /\ seenRefills \in Nat
  BY DEF PanelTypeOK, RequestRecord
<1>4. \E at \in {"forwarded", "policy", "balances", "served"}, saw \in Nat :
          /\ Becomes(r, at, saw)
          /\ at \in {"balances", "served"} =>
                 saw = refills \/ (saw = request[r].saw /\ request[r].at = "balances")
  <2>1. CASE Forward(r)
    BY <1>3, <2>1, AtBecomes DEF Forward, Stages
  <2>2. CASE BeginEstimate(r)
    BY <1>3, <2>2, AtBecomes DEF BeginEstimate, Stages
  <2>3. CASE SnapshotForEstimate(r)
    <3>1. PICK at \in {"balances", "served"} :
              request' = [request EXCEPT ![r].at = at, ![r].saw = refills]
      BY <2>3 DEF SnapshotForEstimate
    <3>2. Becomes(r, at, refills)
      BY <1>3, <3>1, SawBecomes DEF Stages
    <3>3. QED
      BY <1>3, <3>2
  <2>4. CASE QuoteEstimate(r)
    BY <1>3, <2>4, AtBecomes DEF QuoteEstimate, Stages
  <2>5. QED
    BY <2>1, <2>2, <2>3, <2>4
<1>5. PICK at \in {"forwarded", "policy", "balances", "served"}, saw \in Nat :
          /\ Becomes(r, at, saw)
          /\ at \in {"balances", "served"} =>
                 saw = refills \/ (saw = request[r].saw /\ request[r].at = "balances")
  BY <1>4
<1>6. PanelTypeOK'
  BY <1>2, <1>5 DEF PanelTypeOK, Becomes
<1>7. PolicyInv'
  BY <1>1, <1>2, <1>5 DEF PolicyInv, InFlight, Becomes
<1>8. EstimateInv' /\ RefillInv'
  BY <1>1, <1>2, <1>3, <1>5 DEF EstimateInv, RefillInv, InFlight, Becomes
<1>9. FundInv'
  BY <1>1, <1>2, <1>5 DEF FundInv, InFlight, Becomes
<1>10. QED
  BY <1>6, <1>7, <1>8, <1>9
LEMMA SaveElsewhereKeeps ==
    ASSUME PanelInv, SaveElsewhere
    PROVE  PanelInv'
<1> USE DEF PanelInv
<1>1. policy' \in Nat /\ mixed' /\ UNCHANGED <<refills, request, panel, crossed, seenRefills>>
  BY DEF SaveElsewhere, PanelTypeOK
<1>2. PanelTypeOK'
  BY <1>1 DEF SaveElsewhere, PanelTypeOK
<1>3. PolicyInv' /\ EstimateInv' /\ RefillInv' /\ FundInv'
  BY <1>1 DEF PolicyInv, EstimateInv, RefillInv, FundInv, InFlight
<1>4. QED
  BY <1>2, <1>3

\* An answer about the policy: the page shows what it brought, or an error.
LEMMA PolicyAnswerKeeps ==
    ASSUME PanelInv, NEW r \in Requests, Loaded(r) \/ Saved(r)
    PROVE  PanelInv'
<1> USE DEF PanelInv
<1>1. /\ request[r].kind \in {"load", "save"} /\ request[r].at \in {"asked", "served"}
      /\ UNCHANGED <<policy, refills, mixed, crossed, seenRefills>>
  BY DEF Loaded, Saved
<1>2. Becomes(r, "over", request[r].saw)
  BY AtBecomes DEF Loaded, Saved, Over, Stages
<1>3. request[r].saw \in Nat
  BY DEF PanelTypeOK, RequestRecord
<1>4. /\ panel' \in PanelRecord /\ panel'.devAction = panel.devAction
      /\ panel'.estimate = panel.estimate /\ panel'.estimateShown = panel.estimateShown
      /\ panel'.estimateError = panel.estimateError
  BY <1>3 DEF Loaded, Saved, PanelTypeOK, PanelRecord
<1>5. \/ request[r].at = "served" /\ panel'.min = request[r].saw
      \/ panel'.minError
  BY DEF Loaded, Saved, PanelTypeOK, PanelRecord
<1>6. PanelTypeOK'
  BY <1>1, <1>2, <1>4 DEF PanelTypeOK, Becomes
<1>7. PolicyInv'
  BY <1>1, <1>2, <1>5 DEF PolicyInv, InFlight, Becomes
<1>8. EstimateInv' /\ RefillInv'
  BY <1>1, <1>2, <1>4 DEF EstimateInv, RefillInv, InFlight, Becomes
<1>9. FundInv'
  BY <1>1, <1>2, <1>4 DEF FundInv, InFlight, Becomes
<1>10. QED
  BY <1>6, <1>7, <1>8, <1>9

LEMMA EstimatedKeeps ==
    ASSUME PanelInv, NEW r \in Requests, Estimated(r)
    PROVE  PanelInv'
<1> USE DEF PanelInv
<1>1. /\ request[r].kind = "estimate" /\ request[r].at \notin {"unsent", "over"}
      /\ UNCHANGED <<policy, refills, mixed, crossed, seenRefills>>
  BY DEF Estimated
<1>2. Becomes(r, "over", request[r].saw)
  BY AtBecomes DEF Estimated, Over, Stages
<1>3. request[r].saw \in Nat
  BY DEF PanelTypeOK, RequestRecord
<1>4. /\ panel' \in PanelRecord /\ panel'.devAction = panel.devAction
      /\ panel'.min = panel.min /\ panel'.minShown = panel.minShown
      /\ panel'.minError = panel.minError
  BY <1>3 DEF Estimated, PanelTypeOK, PanelRecord
<1>5. \/ request[r].at = "served" /\ panel'.estimate = request[r].saw
      \/ panel'.estimateError
  BY DEF Estimated, PanelTypeOK, PanelRecord
<1>6. PanelTypeOK'
  BY <1>1, <1>2, <1>4 DEF PanelTypeOK, Becomes
<1>7. PolicyInv'
  BY <1>1, <1>2, <1>4 DEF PolicyInv, InFlight, Becomes
<1>8. EstimateInv' /\ RefillInv'
  BY <1>1, <1>2, <1>5 DEF EstimateInv, RefillInv, InFlight, Becomes
<1>9. FundInv'
  BY <1>1, <1>2, <1>4 DEF FundInv, InFlight, Becomes
<1>10. QED
  BY <1>6, <1>7, <1>8, <1>9

\* Answers that have nothing to do with the policy or an estimate.
LEMMA OtherAnswerKeeps ==
    ASSUME PanelInv, NEW r \in Requests, StatusKnown(r, BOOLEAN) \/ Funded(r)
    PROVE  PanelInv'
<1> USE DEF PanelInv
<1>1. /\ request[r].kind \in {"status", "native", "usdc"} /\ request[r].at \in {"asked", "served"}
      /\ UNCHANGED <<policy, refills, mixed, crossed, seenRefills>>
  BY DEF StatusKnown, Funded
<1>2. Becomes(r, "over", request[r].saw)
  BY AtBecomes DEF StatusKnown, Funded, Over, Stages
<1>3. /\ panel' \in PanelRecord
      /\ panel'.min = panel.min /\ panel'.minShown = panel.minShown
      /\ panel'.minError = panel.minError
      /\ panel'.estimate = panel.estimate /\ panel'.estimateShown = panel.estimateShown
      /\ panel'.estimateError = panel.estimateError
  BY DEF StatusKnown, Funded, PanelTypeOK, PanelRecord
<1>4. panel'.devAction = panel.devAction \/ request[r].kind \in {"native", "usdc"}
  BY DEF StatusKnown, Funded, PanelTypeOK, PanelRecord
<1>5. PanelTypeOK'
  BY <1>1, <1>2, <1>3 DEF PanelTypeOK, Becomes
<1>6. PolicyInv'
  BY <1>1, <1>2, <1>3 DEF PolicyInv, InFlight, Becomes
<1>7. EstimateInv' /\ RefillInv'
  BY <1>1, <1>2, <1>3 DEF EstimateInv, RefillInv, InFlight, Becomes
<1>8. FundInv'
  BY <1>1, <1>2, <1>4 DEF FundInv, InFlight, Becomes
<1>9. QED
  BY <1>5, <1>6, <1>7, <1>8

\* After a refill a new estimate is asked for: it will read what that refill left.
LEMMA RefilledKeeps ==
    ASSUME PanelInv, NEW r \in Requests, NEW next \in Requests, Refilled(r, next)
    PROVE  PanelInv'
<1> USE DEF PanelInv
<1> DEFINE new == [at |-> "asked", saw |-> 0, kind |-> "estimate"]
<1>1. /\ request[r].kind = "refill" /\ request[r].at \in {"asked", "served"}
      /\ request[next].at = "unsent"
      /\ UNCHANGED <<policy, refills, mixed>>
      /\ crossed' = (Open({"estimate"}) # {})
  BY DEF Refilled, Refresh, Unsent
<1>2. r # next
  BY <1>1
<1>3. /\ request' \in [Requests -> RequestRecord]
      /\ request'[next] = new
      /\ request'[r].at = "over" /\ request'[r].kind = "refill"
      /\ \A q \in Requests \ {r, next} : request'[q] = request[q]
  <2>1. request' = [[request EXCEPT ![r].at = "over"] EXCEPT ![next] = new]
    BY DEF Refilled, Refresh
  <2>2. [request EXCEPT ![r].at = "over"] \in [Requests -> RequestRecord]
    BY DEF PanelTypeOK, RequestRecord, Stages
  <2>3. new \in RequestRecord
    BY DEF RequestRecord, Stages, Buttoned
  <2>4. QED
    BY <1>1, <1>2, <2>1, <2>2, <2>3 DEF PanelTypeOK, RequestRecord
<1>4. /\ panel' \in PanelRecord /\ panel'.devAction = panel.devAction
      /\ panel'.min = panel.min /\ panel'.minShown = panel.minShown
      /\ panel'.minError = panel.minError
  BY DEF Refilled, Refresh, Busy, PanelTypeOK, PanelRecord
<1>5. seenRefills' \in 0..refills' /\ refills \in Nat
  BY <1>1 DEF Refilled, RefillInv, PanelTypeOK
<1>6. PanelTypeOK'
  BY <1>1, <1>3, <1>4, <1>5 DEF PanelTypeOK
<1>7. PolicyInv'
  <2>1. \A q \in Requests : InFlight(q, {"load", "save"})' <=> InFlight(q, {"load", "save"})
    BY <1>1, <1>3 DEF InFlight
  <2>2. \A q \in Requests : InFlight(q, {"load", "save"}) => request'[q] = request[q]
    BY <1>1, <1>3 DEF InFlight
  <2>3. QED
    BY <1>1, <1>4, <2>1, <2>2 DEF PolicyInv
<1>8. RefillInv'
  BY <1>1, <1>3, <1>5 DEF RefillInv
<1>9. EstimateInv'
  <2>1. ~crossed' => \A q \in Requests : ~InFlight(q, {"estimate"})
    BY <1>1 DEF Open, InFlight
  <2>2. ~crossed' => \A q \in Requests : InFlight(q, {"estimate"})' <=> q = next
    BY <1>1, <1>3, <2>1 DEF InFlight
  <2>3. request'[next].at = "asked"
    BY <1>3
  <2>4. QED
    BY <2>2, <2>3 DEF EstimateInv
<1>10. FundInv'
  <2>1. \A q \in Requests : InFlight(q, {"native", "usdc"})' <=> InFlight(q, {"native", "usdc"})
    BY <1>1, <1>3 DEF InFlight
  <2>2. QED
    BY <1>4, <2>1 DEF FundInv
<1>11. QED
  BY <1>6, <1>7, <1>8, <1>9, <1>10

LEMMA PanelStepKeeps ==
    ASSUME PanelInv, PanelMoves
    PROVE  PanelInv'
<1>1. CASE UNCHANGED panelVars
  BY <1>1 DEF panelVars, PanelInv, PanelTypeOK, PolicyInv, RefillInv, EstimateInv, FundInv, InFlight
<1>2. CASE SaveElsewhere
  BY <1>2, SaveElsewhereKeeps
<1>3. ASSUME NEW r \in Requests,
             \/ \E kind \in Buttoned : Press(r, kind)
             \/ ServePolicy(r) \/ ServeRefill(r) \/ Taken(r)
             \/ Forward(r) \/ BeginEstimate(r) \/ SnapshotForEstimate(r) \/ QuoteEstimate(r)
             \/ Loaded(r) \/ Saved(r) \/ Estimated(r) \/ StatusKnown(r, BOOLEAN) \/ Funded(r)
             \/ \E next \in Requests : Refilled(r, next)
      PROVE  PanelInv'
  BY <1>3, PressKeeps, ServePolicyKeeps, ServeRefillKeeps, TakenKeeps, EstimateKeeps,
     PolicyAnswerKeeps, EstimatedKeeps, OtherAnswerKeeps, RefilledKeeps
<1>4. QED
  BY <1>1, <1>2, <1>3 DEF PanelMoves

\* The scenes stay what they were.
LEMMA SceneStays ==
    ASSUME scene \in Scenes, Next \/ UNCHANGED deskVars
    PROVE  scene' = scene /\ scene' \in Scenes
<1>1. ASSUME NEW part, Only(part) PROVE scene' = scene
  BY <1>1 DEF Only
<1>2. CASE \E r \in Requests : Received(r) \/ FundAnswered(r) \/ GivenUp(r)
  BY <1>1, <1>2 DEF Received, FundAnswered, GivenUp
<1>3. CASE \E part \in {"chain", "panel", "tables", "rows", "metrics", "overview", "caps"} : Only(part)
  BY <1>1, <1>3
<1>4. QED
  BY <1>2, <1>3 DEF Next, deskVars

\* What requests did to the policy and to the estimate shows: with nothing under way, the
\* page has what is in Redis, and what the last refill left, unless requests crossed.
THEOREM PanelCorrect == Spec => [](PanelTypeOK /\ PanelIsCurrent)
<1> DEFINE Inv == scene \in Scenes /\ PanelInv
<1>1. Init => Inv
  BY PanelInitInv DEF Init
<1>2. Inv /\ [Next]_deskVars => Inv'
  <2> SUFFICES ASSUME Inv, [Next]_deskVars PROVE Inv'
    OBVIOUS
  <2>1. PanelMoves
    BY PanelPart DEF PanelMoves, deskVars
  <2>2. QED
    BY <2>1, PanelStepKeeps, SceneStays
<1>3. Inv => PanelTypeOK /\ PanelIsCurrent
  <2> SUFFICES ASSUME PanelInv PROVE PanelTypeOK /\ PanelIsCurrent
    OBVIOUS
  <2>1. ASSUME Open({"load", "save", "estimate", "refill"}) = {}
        PROVE  \A q \in Requests : ~InFlight(q, {"load", "save"}) /\ ~InFlight(q, {"estimate"})
    BY <2>1 DEF Open, InFlight
  <2>2. QED
    BY <2>1 DEF PanelInv, PanelIsCurrent, PolicyInv, EstimateInv
<1>4. QED
  BY <1>1, <1>2, <1>3, PTL DEF Spec
-----------------------------------------------------------------------------
(* The live tables *)

HandledRecord == [block : Nat, paymaster : Paymasters \cup {"none"}, event : Events]

TableRecord == [at : {"idle", "block", "logs"}, of : Paymasters \cup {"none"}, upTo : Nat,
                rows : SUBSET Ops, ok : BOOLEAN]

TablesTypeOK ==
    /\ place \in Place
    /\ head \in Nat
    /\ handled \in [Ops -> HandledRecord]
    /\ table \in [Kinds -> TableRecord]

\* What is on the page is still what the chain had up to the block that was read.
ShownInv ==
    \A k \in Kinds : /\ table[k].upTo <= head
                     /\ Shown(k) => table[k].rows \in Newest(Logs(k))

TablesInv == TablesTypeOK /\ ShownInv

TablesMoves ==
    \/ UNCHANGED tablesVars
    \/ TablesStep
    \/ \E ops \in SUBSET Unhandled : Block(ops)

LEMMA TablesPart ==
    ASSUME Next \/ UNCHANGED deskVars
    PROVE  TablesMoves /\ place' = place
<1>1. ASSUME NEW part, part # "tables", Only(part)
      PROVE  UNCHANGED <<tablesVars, place>>
  BY <1>1 DEF Only
<1>2. CASE \E r \in Requests : Received(r) \/ FundAnswered(r) \/ GivenUp(r)
  BY <1>1, <1>2 DEF Received, FundAnswered, GivenUp, TablesMoves
<1>3. CASE Only("tables") /\ (TablesStep \/ \E ops \in SUBSET Unhandled : Block(ops))
  BY <1>3 DEF Only, TablesMoves
<1>4. CASE \E part \in {"chain", "panel", "rows", "metrics", "overview", "caps"} : Only(part)
  BY <1>1, <1>4 DEF TablesMoves
<1>5. CASE UNCHANGED deskVars
  BY <1>5 DEF deskVars, TablesMoves
<1>6. QED
  BY <1>2, <1>3, <1>4, <1>5 DEF Next

LEMMA AddressType ==
    ASSUME place \in Place, NEW k \in Kinds
    PROVE  Address(k) \in Paymasters \cup {"none"}
BY DEF Place, Address, AddressForUserOps, AddressForEntryPointOps, Prefer, FromFile, FromApi

LEMMA TablesInitInv ==
    ASSUME scene \in Scenes, place \in scene.places, TablesInit
    PROVE  TablesInv
<1>1. place \in Place
  BY WorldAssumption
<1>2. TablesTypeOK
  BY <1>1 DEF TablesInit, TablesTypeOK, HandledRecord, TableRecord, NoTable, Events
<1>3. ShownInv
  BY DEF TablesInit, ShownInv, Shown, NoTable
<1>4. QED
  BY <1>2, <1>3 DEF TablesInv

\* One table changes: what the other shows does not.
LEMMA TableStep ==
    ASSUME TablesInv, NEW k \in Kinds, NEW new \in TableRecord,
           table' = [table EXCEPT ![k] = new], UNCHANGED <<place, head, handled>>,
           new.upTo <= head,
           new.at = "idle" /\ new.ok => new.rows \in Newest(Logs(k))'
    PROVE  TablesInv'
<1>1. TablesTypeOK'
  BY DEF TablesInv, TablesTypeOK
<1>2. table'[k] = new /\ \A l \in Kinds \ {k} : table'[l] = table[l]
  BY DEF TablesInv, TablesTypeOK
<1>3. \A l \in Kinds \ {k} : Newest(Logs(l))' = Newest(Logs(l))
  BY <1>2 DEF Newest, Logs, InRange
<1>4. ShownInv'
  BY <1>2, <1>3 DEF TablesInv, ShownInv, Shown
<1>5. QED
  BY <1>1, <1>4 DEF TablesInv

LEMMA TablesStepKeeps ==
    ASSUME TablesInv, TablesStep, place' = place
    PROVE  TablesInv'
<1> USE DEF TablesInv
<1>1. NoTable \in TableRecord /\ NoTable.upTo <= head /\ ~NoTable.ok
  BY DEF NoTable, TableRecord, TablesTypeOK
<1>2. ASSUME NEW k \in Kinds, Error(k), UNCHANGED <<head, handled>> PROVE TablesInv'
  <2>1. table' = [table EXCEPT ![k] = NoTable]
    BY <1>2 DEF Error
  <2>2. QED
    BY <1>1, <1>2, <2>1, TableStep
<1>3. PICK k \in Kinds : Poll(k) \/ ReadBlockNumber(k) \/ ReadLogs(k) \/ TableFails(k)
  BY DEF TablesStep
<1>4. UNCHANGED <<head, handled>>
  BY <1>3 DEF Poll, ReadBlockNumber, ReadLogs, TableFails
<1>5. table[k] \in TableRecord /\ head \in Nat
  BY DEF TablesTypeOK
<1>6. CASE Poll(k)
  <2>1. CASE Address(k) = "none"
    BY <1>2, <1>4, <1>6, <2>1 DEF Poll
  <2>2. CASE Address(k) # "none"
    <3> DEFINE new == [NoTable EXCEPT !.at = "block", !.of = Address(k)]
    <3>1. NoTable.upTo = 0
      BY DEF NoTable
    <3>2. Address(k) \in Paymasters \cup {"none"}
      BY AddressType DEF TablesTypeOK
    <3>3. new \in TableRecord /\ new.upTo = 0 /\ new.at = "block"
      BY <1>1, <3>1, <3>2 DEF TableRecord
    <3>4. new.upTo <= head /\ new.at # "idle"
      BY <1>5, <3>3
    <3>5. table' = [table EXCEPT ![k] = new]
      BY <1>6, <2>2 DEF Poll
    <3>6. QED
      BY <1>4, <3>3, <3>4, <3>5, TableStep
  <2>3. QED
    BY <2>1, <2>2
<1>7. CASE ReadBlockNumber(k)
  <2> DEFINE new == [[table[k] EXCEPT !.at = "logs"] EXCEPT !.upTo = head]
  <2>1. new \in TableRecord /\ new.upTo = head /\ new.at = "logs"
    BY <1>5 DEF TableRecord
  <2>2. table' = [table EXCEPT ![k] = new]
    BY <1>5, <1>7 DEF ReadBlockNumber, TablesTypeOK
  <2>3. new.upTo <= head /\ new.at # "idle"
    BY <1>5, <2>1
  <2> HIDE DEF new
  <2>4. QED
    BY <1>4, <2>1, <2>2, <2>3, TableStep
<1>8. CASE ReadLogs(k)
  <2>1. PICK rows1 \in Newest(Logs(k)) :
            table' = [table EXCEPT ![k].at = "idle", ![k].rows = rows1, ![k].ok = TRUE]
    BY <1>8 DEF ReadLogs
  <2> DEFINE new == [[[table[k] EXCEPT !.at = "idle"] EXCEPT !.rows = rows1] EXCEPT !.ok = TRUE]
  <2>2. rows1 \in SUBSET Ops
    BY <2>1 DEF Newest, Logs
  <2>3. /\ new \in TableRecord
        /\ new.upTo = table[k].upTo /\ new.of = table[k].of /\ new.rows = rows1
    BY <1>5, <2>2 DEF TableRecord
  <2>4. table' = [table EXCEPT ![k] = new]
    BY <1>5, <2>1 DEF TablesTypeOK
  <2>5. Newest(Logs(k))' = Newest(Logs(k))
    <3>1. table'[k].upTo = table[k].upTo /\ table'[k].of = table[k].of
      BY <2>3, <2>4 DEF TablesTypeOK
    <3>2. QED
      BY <1>4, <3>1 DEF Newest, Logs, InRange
  <2>6. new.upTo <= head
    BY <2>3 DEF ShownInv
  <2>7. QED
    BY <1>4, <2>1, <2>3, <2>4, <2>5, <2>6, TableStep
<1>9. CASE TableFails(k)
  BY <1>2, <1>4, <1>9 DEF TableFails
<1>10. QED
  BY <1>3, <1>6, <1>7, <1>8, <1>9

\* Which rows are the newest depends on nothing but the operations themselves.
LEMMA NewestOfSame ==
    ASSUME NEW logs, logs' = logs, \A o \in logs : handled'[o] = handled[o]
    PROVE  Newest(logs)' = Newest(logs)
<1>1. CASE Cardinality(logs) <= Limit
  BY <1>1 DEF Newest
<1>2. CASE ~(Cardinality(logs) <= Limit)
  BY <1>2 DEF Newest
<1>3. QED
  BY <1>1, <1>2

\* The newest rows are all there are, or as many as the limit and at least as new.
LEMMA NewestMember ==
    ASSUME NEW logs, NEW some \in Newest(logs)
    PROVE  /\ some \subseteq logs
           /\ some # logs => \A o \in logs \ some : FullOfNewer(some, o)
BY DEF Newest, FullOfNewer

\* A block is newer than what any table was made of.
LEMMA BlockKeeps ==
    ASSUME TablesInv, NEW ops \in SUBSET Unhandled, Block(ops), place' = place
    PROVE  TablesInv'
<1> USE DEF TablesInv
<1>1. PICK paymaster \in [ops -> Paymasters], event \in [ops -> Events] :
          handled' = [o \in Ops |->
               IF o \in ops THEN [block |-> head + 1, paymaster |-> paymaster[o],
                                  event |-> event[o]]
               ELSE handled[o]]
  BY DEF Block
<1>2. head \in Nat /\ head' = head + 1 /\ table' = table
  BY DEF Block, TablesTypeOK
<1>3. TablesTypeOK'
  <2>1. \A o \in Ops : handled'[o] \in HandledRecord
    BY <1>1, <1>2 DEF TablesTypeOK, HandledRecord
  <2>2. QED
    BY <1>1, <1>2, <2>1 DEF TablesTypeOK
<1>4. ASSUME NEW k \in Kinds PROVE Newest(Logs(k))' = Newest(Logs(k))
  <2>1. table[k].upTo \in Nat /\ table[k].upTo <= head
    BY DEF TablesTypeOK, TableRecord, ShownInv
  <2>2. \A o \in Ops : o \in ops => ~InRange(k, o) /\ ~InRange(k, o)'
    BY <1>1, <1>2, <2>1 DEF Unhandled, InRange
  <2>3. \A o \in Ops : o \notin ops => handled'[o] = handled[o]
    BY <1>1
  <2>4. Logs(k)' = Logs(k)
    BY <1>2, <2>2, <2>3 DEF Logs, InRange
  <2>5. \A o \in Logs(k) : handled'[o] = handled[o]
    BY <2>2, <2>3 DEF Logs
  <2>6. QED
    BY <2>4, <2>5, NewestOfSame
<1>5. ShownInv'
  <2>1. \A k \in Kinds : table[k].upTo \in Nat
    BY DEF TablesTypeOK, TableRecord
  <2>2. QED
    BY <1>2, <1>4, <2>1 DEF ShownInv, Shown
<1>6. QED
  BY <1>3, <1>5

\* The two tables disagree on an operation only if it was never charged, is outside what
\* the other was made of, or the other is full of operations at least as new.
THEOREM TablesCorrect == Spec => [](TablesTypeOK /\ TablesAgree)
<1>1. Init => TablesInv
  BY TablesInitInv DEF Init
<1>2. TablesInv /\ [Next]_deskVars => TablesInv'
  <2> SUFFICES ASSUME TablesInv, [Next]_deskVars PROVE TablesInv'
    OBVIOUS
  <2>1. TablesMoves /\ place' = place
    BY TablesPart
  <2>2. CASE UNCHANGED tablesVars
    <3>1. UNCHANGED <<head, handled, table, place>>
      BY <2>1, <2>2 DEF tablesVars
    <3>2. TablesTypeOK'
      BY <3>1 DEF TablesInv, TablesTypeOK
    <3>3. \A k \in Kinds : Logs(k)' = Logs(k)
      BY <3>1 DEF Logs, InRange
    <3>4. \A logs : Newest(logs)' = Newest(logs)
      BY <3>1 DEF Newest
    <3>5. \A k \in Kinds : Shown(k)' = Shown(k)
      BY <3>1 DEF Shown
    <3>6. ShownInv'
      BY <3>1, <3>3, <3>4, <3>5 DEF TablesInv, ShownInv
    <3>7. QED
      BY <3>2, <3>6 DEF TablesInv
  <2>3. QED
    BY <2>1, <2>2, TablesStepKeeps, BlockKeeps DEF TablesMoves
<1>3. TablesInv => TablesTypeOK /\ TablesAgree
  <2> SUFFICES ASSUME TablesInv PROVE TablesAgree
    BY DEF TablesInv
  <2>1. ASSUME Shown("userops"), Shown("entrypoint"),
               table["userops"].of = table["entrypoint"].of,
               NEW k \in Kinds, NEW l \in Kinds, NEW o \in table[k].rows \ table[l].rows
        PROVE  \/ l = "userops" /\ handled[o].event = "none"
               \/ ~InRange(l, o)
               \/ FullOfNewer(table[l].rows, o)
    <3>1. /\ table[k].rows \in Newest(Logs(k)) /\ table[l].rows \in Newest(Logs(l))
          /\ table[k].of = table[l].of
      BY <2>1 DEF TablesInv, ShownInv, Kinds
    <3>2. o \in Logs(k)
      BY <2>1, <3>1, NewestMember
    <3>3. CASE o \in Logs(l)
      <4>1. table[l].rows # Logs(l)
        BY <2>1, <3>3
      <4>2. QED
        BY <2>1, <3>1, <3>3, <4>1, NewestMember
    <3>4. CASE o \notin Logs(l)
      BY <3>1, <3>2, <3>4 DEF Logs
    <3>5. QED
      BY <3>3, <3>4
  <2>2. QED
    BY <2>1 DEF TablesAgree
<1>4. QED
  BY <1>1, <1>2, <1>3, PTL DEF Spec
-----------------------------------------------------------------------------
(* The rows of the live tables *)

RowsRecord == [tab : {"live-metrics", "control-plane"}, due : SUBSET Kinds,
               list : [Kinds -> Seq(Txs)], error : [Kinds -> BOOLEAN],
               number : [Kinds -> Nat \ {0}],
               expanded : Txs \cup {"none"}, loading : Txs \cup {"none"},
               cache : [Txs -> {"none", "logs", "error"}]]

RowsTypeOK ==
    /\ rows \in RowsRecord
    /\ fetches \in [Txs -> Nat]
    /\ turned \in [Kinds -> Nat] /\ shrunk \in [Kinds -> BOOLEAN]
    /\ wanted \in Txs \cup {"none"} /\ crossedClicks \in BOOLEAN

\* With one click at a time, what is on its way is what was clicked last.
ClickInv ==
    /\ rows.expanded # "none" => rows.cache[rows.expanded] # "none"
    /\ ~crossedClicks =>
           /\ \A t \in Txs : fetches[t] <= 1
           /\ \A t \in Txs : fetches[t] > 0 => rows.loading = t /\ wanted = t
           /\ (\A t \in Txs : fetches[t] = 0) => rows.expanded = wanted

\* A list that never was too short leaves the page set where the operator turned to.
TurnInv ==
    \A k \in Kinds : ~shrunk[k] => /\ rows.number[k] = turned[k]
                                   /\ rows.number[k] <= TotalPages(rows.list[k])

RowsInv == RowsTypeOK /\ ClickInv /\ TurnInv

RowsMoves ==
    \/ UNCHANGED rowsVars
    \/ RowsStep
    \/ TableRowsStep(Kinds, Seq(Txs))

LEMMA RowsPart ==
    ASSUME scene \in Scenes, Next \/ UNCHANGED deskVars
    PROVE  RowsMoves
<1>1. ASSUME NEW part, part # "rows", Only(part)
      PROVE  UNCHANGED rowsVars
  BY <1>1 DEF Only
<1>2. CASE \E r \in Requests : Received(r) \/ FundAnswered(r) \/ GivenUp(r)
  BY <1>1, <1>2 DEF Received, FundAnswered, GivenUp, RowsMoves
<1>3. CASE RowsStep
  BY <1>3 DEF RowsMoves
<1>4. CASE Has("pages") /\ TableRowsStep(scene.kinds, scene.lists)
  <2>1. scene.kinds \subseteq Kinds /\ scene.lists \subseteq Seq(Txs)
    BY <1>4, KindsAssumption DEF Has
  <2>2. QED
    BY <1>4, <2>1 DEF TableRowsStep, RowsMoves
<1>5. CASE \E part \in {"chain", "panel", "tables", "metrics", "overview", "caps"} : Only(part)
  BY <1>1, <1>5 DEF RowsMoves
<1>6. CASE UNCHANGED deskVars
  BY <1>6 DEF deskVars, RowsMoves
<1>7. QED
  BY <1>2, <1>3, <1>4, <1>5, <1>6 DEF Next

LEMMA TotalPagesPositive ==
    ASSUME NEW list \in Seq(Txs)
    PROVE  TotalPages(list) \in Nat \ {0}
<1>1. Len(list) \in Nat /\ PageSize \in Nat \ {0} /\ (list # <<>> => Len(list) > 0)
  BY RowsAssumption
<1>2. CASE list = <<>>
  BY <1>2 DEF TotalPages
<1>3. CASE list # <<>>
  <2>1. Len(list) + PageSize - 1 >= PageSize
    BY <1>1, <1>3
  <2>2. (Len(list) + PageSize - 1) \div PageSize \in Nat \ {0}
    BY <1>1, <2>1
  <2>3. QED
    BY <1>3, <2>2 DEF TotalPages
<1>4. QED
  BY <1>2, <1>3

\* No page up to the last begins after the end of the list.
LEMMA PageBegins ==
    ASSUME NEW list \in Seq(Txs), list # <<>>, NEW c \in Nat \ {0}, c <= TotalPages(list)
    PROVE  (c - 1) * PageSize + 1 <= Len(list)
<1> DEFINE q == (Len(list) + PageSize - 1) \div PageSize
<1>1. Len(list) \in Nat \ {0} /\ PageSize \in Nat \ {0}
  BY RowsAssumption
<1>2. q \in Nat /\ q * PageSize <= Len(list) + PageSize - 1
  BY <1>1
<1>3. c <= q
  BY DEF TotalPages
<1> HIDE DEF q
<1>4. (c - 1) * PageSize <= (q - 1) * PageSize
  BY <1>1, <1>2, <1>3
<1>5. (q - 1) * PageSize = q * PageSize - PageSize
  BY <1>1, <1>2
<1>6. QED
  BY <1>1, <1>2, <1>4, <1>5

LEMMA ClampedType ==
    ASSUME RowsTypeOK, NEW k \in Kinds
    PROVE  /\ Clamped(k) \in Nat \ {0}
           /\ Clamped(k) <= TotalPages(rows.list[k])
           /\ rows.number[k] <= TotalPages(rows.list[k]) => Clamped(k) = rows.number[k]
<1>1. rows.number[k] \in Nat \ {0} /\ rows.list[k] \in Seq(Txs)
  BY DEF RowsTypeOK, RowsRecord
<1>2. TotalPages(rows.list[k]) \in Nat \ {0}
  BY <1>1, TotalPagesPositive
<1>3. QED
  BY <1>1, <1>2 DEF Clamped

LEMMA RowsInitInv ==
    ASSUME RowsInit
    PROVE  RowsInv
<1>1. <<>> \in Seq(Txs) /\ TotalPages(<<>>) = 1
  BY DEF TotalPages
<1>2. RowsTypeOK
  <2>1. [k \in Kinds |-> <<>>] \in [Kinds -> Seq(Txs)]
    BY <1>1
  <2>2. /\ [k \in Kinds |-> FALSE] \in [Kinds -> BOOLEAN]
        /\ [k \in Kinds |-> 1] \in [Kinds -> Nat \ {0}]
        /\ [t \in Txs |-> "none"] \in [Txs -> {"none", "logs", "error"}]
    OBVIOUS
  <2>3. rows \in RowsRecord
    BY <2>1, <2>2 DEF RowsInit, RowsRecord
  <2>4. QED
    BY <2>3 DEF RowsInit, RowsTypeOK
<1>3. ClickInv
  BY DEF RowsInit, ClickInv
<1>4. TurnInv
  BY <1>1 DEF RowsInit, TurnInv
<1>5. QED
  BY <1>2, <1>3, <1>4 DEF RowsInv

LEMMA ClickKeeps ==
    ASSUME RowsInv, NEW tx \in Txs, Click(tx)
    PROVE  RowsInv'
<1> USE DEF RowsInv
<1>1. rows \in RowsRecord /\ tx # "none" /\ rows.loading # tx /\ UNCHANGED <<turned, shrunk>>
  BY RowsAssumption DEF RowsTypeOK, Click, Clickable
<1>2. \/ /\ rows.expanded = tx
         /\ rows' = [rows EXCEPT !.expanded = "none"] /\ UNCHANGED fetches
      \/ /\ rows.expanded # tx /\ rows.cache[tx] # "none"
         /\ rows' = [rows EXCEPT !.expanded = tx] /\ UNCHANGED fetches
      \/ /\ rows.expanded # tx /\ rows.cache[tx] = "none" /\ fetches[tx] < MaxFetches
         /\ rows' = [rows EXCEPT !.loading = tx]
         /\ fetches' = [fetches EXCEPT ![tx] = @ + 1]
  BY DEF Click
<1>3. /\ rows' \in RowsRecord /\ rows'.cache = rows.cache
      /\ rows'.number = rows.number /\ rows'.list = rows.list
  BY <1>1, <1>2 DEF RowsRecord
<1>4. wanted' = (IF wanted = tx THEN "none" ELSE tx)
  BY DEF Click
<1>5. RowsTypeOK'
  <2>1. fetches' \in [Txs -> Nat]
    BY <1>2 DEF RowsTypeOK
  <2>2. crossedClicks' \in BOOLEAN
    BY DEF Click
  <2>3. QED
    BY <1>1, <1>3, <1>4, <2>1, <2>2 DEF RowsTypeOK
<1>6. rows'.expanded # "none" => rows'.cache[rows'.expanded] # "none"
  BY <1>1, <1>2, <1>3 DEF ClickInv, RowsRecord
<1>7. ASSUME ~crossedClicks'
      PROVE  /\ \A t \in Txs : fetches'[t] <= 1
             /\ \A t \in Txs : fetches'[t] > 0 => rows'.loading = t /\ wanted' = t
             /\ (\A t \in Txs : fetches'[t] = 0) => rows'.expanded = wanted'
  <2>1. ~crossedClicks /\ \A t \in Txs \ {tx} : ~(fetches[t] > 0)
    BY <1>7 DEF Click
  <2>2. \A t \in Txs : fetches[t] = 0
    BY <1>1, <2>1 DEF ClickInv, RowsTypeOK
  <2>3. rows.expanded = wanted
    BY <2>1, <2>2 DEF ClickInv
  <2>4. CASE UNCHANGED fetches
    <3>1. rows'.expanded = wanted'
      BY <1>1, <1>2, <1>4, <2>2, <2>3, <2>4 DEF RowsRecord, RowsTypeOK
    <3>2. QED
      BY <2>2, <2>4, <3>1
  <2>5. CASE fetches' = [fetches EXCEPT ![tx] = @ + 1]
    <3>1. /\ fetches'[tx] = 1 /\ \A t \in Txs \ {tx} : fetches'[t] = 0
      BY <2>2, <2>5 DEF RowsTypeOK
    <3>2. rows'.loading = tx /\ wanted' = tx
      BY <1>1, <1>2, <1>4, <2>2, <2>3, <3>1 DEF RowsRecord
    <3>3. QED
      BY <3>1, <3>2
  <2>6. QED
    BY <1>2, <2>4, <2>5
<1>8. TurnInv'
  BY <1>1, <1>3 DEF TurnInv, TotalPages
<1>9. QED
  BY <1>5, <1>6, <1>7, <1>8 DEF ClickInv

LEMMA LogsAnsweredKeeps ==
    ASSUME RowsInv, NEW tx \in Txs, NEW answer \in DecodeTransactionLogs,
           LogsAnswered(tx, answer)
    PROVE  RowsInv'
<1> USE DEF RowsInv
<1>1. /\ rows \in RowsRecord /\ tx # "none" /\ answer \in {"logs", "error"}
      /\ fetches[tx] > 0 /\ fetches' = [fetches EXCEPT ![tx] = @ - 1]
      /\ UNCHANGED <<turned, shrunk, wanted, crossedClicks>>
  BY RowsAssumption DEF RowsTypeOK, LogsAnswered, DecodeTransactionLogs
<1>2. rows' = [rows EXCEPT !.cache[tx] = answer, !.expanded = tx, !.loading = "none"]
  BY DEF LogsAnswered
<1>3. /\ rows' \in RowsRecord /\ rows'.cache[tx] = answer /\ rows'.expanded = tx
      /\ rows'.number = rows.number /\ rows'.list = rows.list
  BY <1>1, <1>2 DEF RowsRecord
<1>4. /\ fetches' \in [Txs -> Nat] /\ fetches'[tx] = fetches[tx] - 1
      /\ \A t \in Txs \ {tx} : fetches'[t] = fetches[t]
  BY <1>1 DEF RowsTypeOK
<1>5. RowsTypeOK'
  BY <1>1, <1>3, <1>4 DEF RowsTypeOK
<1>6. ClickInv'
  <2>1. ASSUME ~crossedClicks'
        PROVE  /\ \A t \in Txs : fetches'[t] <= 1
               /\ \A t \in Txs : fetches'[t] > 0 => rows'.loading = t /\ wanted' = t
               /\ (\A t \in Txs : fetches'[t] = 0) => rows'.expanded = wanted'
    <3>1. /\ \A t \in Txs : fetches[t] <= 1
          /\ \A t \in Txs : fetches[t] > 0 => rows.loading = t /\ wanted = t
      BY <1>1, <2>1 DEF ClickInv
    <3>2. wanted = tx /\ \A t \in Txs : t # tx => fetches[t] = 0
      BY <1>1, <3>1 DEF RowsTypeOK
    <3>3. \A t \in Txs : fetches'[t] = 0
      BY <1>1, <1>4, <3>1, <3>2 DEF RowsTypeOK
    <3>4. QED
      BY <1>1, <1>3, <3>2, <3>3
  <2>2. QED
    BY <1>1, <1>3, <2>1 DEF ClickInv
<1>7. TurnInv'
  BY <1>1, <1>3 DEF TurnInv, TotalPages
<1>8. QED
  BY <1>5, <1>6, <1>7

\* Nothing that polling or turning does has to do with the rows that are open.
LEMMA ClicksStay ==
    ASSUME ClickInv, rows'.expanded = rows.expanded, rows'.cache = rows.cache,
           rows'.loading = rows.loading, UNCHANGED <<fetches, wanted, crossedClicks>>
    PROVE  ClickInv'
BY DEF ClickInv

LEMMA PollRowsKeeps ==
    ASSUME RowsInv, NEW k \in Kinds, NEW some \in SUBSET Kinds, NEW t \in {"live-metrics", "control-plane"},
           PollRows(some) \/ PollFails(k) \/ OpenTab(t)
    PROVE  RowsInv'
<1> USE DEF RowsInv
<1>1. /\ rows' \in RowsRecord /\ rows'.cache = rows.cache
      /\ rows'.number = rows.number /\ rows'.list = rows.list
      /\ rows'.expanded = rows.expanded /\ rows'.loading = rows.loading
  <2>1. CASE PollRows(some)
    BY <2>1 DEF RowsTypeOK, RowsRecord, PollRows
  <2>2. CASE PollFails(k)
    BY <2>2 DEF RowsTypeOK, RowsRecord, PollFails
  <2>3. CASE OpenTab(t)
    BY <2>3 DEF RowsTypeOK, RowsRecord, OpenTab
  <2>4. QED
    BY <2>1, <2>2, <2>3
<1>2. UNCHANGED <<fetches, turned, shrunk, wanted, crossedClicks>>
  BY DEF PollRows, PollFails, OpenTab
<1>3. QED
  BY <1>1, <1>2, ClicksStay DEF RowsTypeOK, TurnInv, TotalPages

LEMMA ListedKeeps ==
    ASSUME RowsInv, NEW k \in Kinds, NEW list \in Seq(Txs), NEW error \in BOOLEAN,
           Listed(k, list, error)
    PROVE  RowsInv'
<1> USE DEF RowsInv
<1>1. /\ rows \in RowsRecord /\ UNCHANGED <<fetches, turned, wanted, crossedClicks>>
      /\ rows' = [rows EXCEPT !.due = @ \ {k}, !.list[k] = list, !.error[k] = error]
      /\ shrunk' = [shrunk EXCEPT ![k] = @ \/ rows.number[k] > TotalPages(list)]
  BY DEF RowsTypeOK, Listed
<1>2. /\ rows' \in RowsRecord /\ rows'.cache = rows.cache /\ rows'.number = rows.number
      /\ rows'.expanded = rows.expanded /\ rows'.loading = rows.loading
      /\ rows'.list = [rows.list EXCEPT ![k] = list]
  BY <1>1 DEF RowsRecord
<1>3. /\ shrunk' \in [Kinds -> BOOLEAN]
      /\ shrunk'[k] <=> shrunk[k] \/ rows.number[k] > TotalPages(list)
      /\ \A l \in Kinds \ {k} : shrunk'[l] = shrunk[l]
  BY <1>1 DEF RowsTypeOK
<1>4. RowsTypeOK'
  BY <1>1, <1>2, <1>3 DEF RowsTypeOK
<1>5. TurnInv'
  <2>1. rows.number[k] \in Nat /\ TotalPages(list) \in Nat
    BY TotalPagesPositive DEF RowsTypeOK, RowsRecord
  <2>2. rows'.list[k] = list /\ \A l \in Kinds \ {k} : rows'.list[l] = rows.list[l]
    BY <1>2 DEF RowsTypeOK, RowsRecord
  <2>3. QED
    BY <1>1, <1>2, <1>3, <2>1, <2>2 DEF TurnInv, TotalPages
<1>6. QED
  BY <1>1, <1>2, <1>4, <1>5, ClicksStay

LEMMA TurnKeeps ==
    ASSUME RowsInv, NEW k \in Kinds, Previous(k) \/ NextPage(k)
    PROVE  RowsInv'
<1> USE DEF RowsInv
<1> DEFINE T == TotalPages(rows.list[k])
<1>1. /\ rows.number[k] \in Nat \ {0} /\ T \in Nat \ {0} /\ Clamped(k) \in Nat \ {0} /\ Clamped(k) <= T
      /\ rows.number[k] <= T => Clamped(k) = rows.number[k]
      /\ rows.number[k] > T => Clamped(k) = T
  BY ClampedType, TotalPagesPositive DEF RowsTypeOK, RowsRecord, Clamped
<1>2. PICK number \in Nat \ {0}, shown \in Nat \ {0} :
          /\ Turn(k, number, shown) /\ shown <= T
          /\ rows.number[k] <= T => number = shown
  <2>1. CASE Previous(k)
    BY <1>1, <2>1 DEF Previous
  <2>2. CASE NextPage(k)
    BY <1>1, <2>2 DEF NextPage
  <2>3. QED
    BY <2>1, <2>2
<1>3. /\ rows \in RowsRecord /\ UNCHANGED <<fetches, shrunk, wanted, crossedClicks>>
      /\ rows' = [rows EXCEPT !.number[k] = number]
      /\ turned' = [turned EXCEPT ![k] = shown]
  BY <1>2 DEF RowsTypeOK, Turn
<1>4. /\ rows' \in RowsRecord /\ rows'.cache = rows.cache /\ rows'.list = rows.list
      /\ rows'.expanded = rows.expanded /\ rows'.loading = rows.loading
      /\ rows'.number = [rows.number EXCEPT ![k] = number]
  BY <1>3 DEF RowsRecord
<1>5. RowsTypeOK'
  BY <1>3, <1>4 DEF RowsTypeOK
<1>6. TurnInv'
  <2>1. /\ rows'.number[k] = number /\ turned'[k] = shown
        /\ \A l \in Kinds \ {k} : rows'.number[l] = rows.number[l] /\ turned'[l] = turned[l]
    BY <1>3, <1>4 DEF RowsTypeOK, RowsRecord
  <2>2. ~shrunk[k] => rows.number[k] <= T
    BY DEF TurnInv
  <2>3. QED
    BY <1>2, <1>3, <1>4, <2>1, <2>2 DEF TurnInv, TotalPages
<1>7. QED
  BY <1>3, <1>4, <1>5, <1>6, ClicksStay

\* The row that is open is the one the clicks should leave open, once the answers have
\* come; and a table shows the page the operator turned to, with rows if there are any.
THEOREM RowsCorrect == Spec => [](RowsTypeOK /\ RowsExplained)
<1> DEFINE Inv == scene \in Scenes /\ RowsInv
<1>1. Init => Inv
  BY RowsInitInv DEF Init
<1>2. Inv /\ [Next]_deskVars => Inv'
  <2> SUFFICES ASSUME Inv, [Next]_deskVars PROVE Inv'
    OBVIOUS
  <2>1. RowsMoves
    BY RowsPart
  <2>2. CASE UNCHANGED rowsVars
    BY <2>2, SceneStays DEF rowsVars, RowsInv, RowsTypeOK, ClickInv, TurnInv, TotalPages
  <2>3. CASE RowsStep
    BY <2>3, SceneStays, ClickKeeps, LogsAnsweredKeeps, PollRowsKeeps DEF RowsStep, Kinds
  <2>4. CASE TableRowsStep(Kinds, Seq(Txs))
    <3>1. <<>> \in Seq(Txs)
      OBVIOUS
    <3>2. QED
      BY <2>4, <3>1, SceneStays, PollRowsKeeps, ListedKeeps, TurnKeeps DEF TableRowsStep, Kinds
  <2>5. QED
    BY <2>1, <2>2, <2>3, <2>4 DEF RowsMoves
<1>3. Inv => RowsTypeOK /\ RowsExplained
  <2> SUFFICES ASSUME RowsInv PROVE RowsExplained
    BY DEF RowsInv
  <2> USE DEF RowsInv
  <2>1. RowsFollowClicks
    <3>1. rows.expanded # "none" => OpenRow(rows.expanded) # "no-logs"
      <4>1. rows.expanded # "none" => rows.cache[rows.expanded] \in {"logs", "error"}
        BY DEF ClickInv, RowsTypeOK, RowsRecord
      <4>2. QED
        BY <4>1 DEF OpenRow
    <3>2. QED
      BY <3>1 DEF RowsFollowClicks, ClickInv
  <2>2. ASSUME NEW k \in Kinds, ~shrunk[k] PROVE Clamped(k) = turned[k]
    BY <2>2, ClampedType DEF TurnInv
  <2>3. ASSUME NEW k \in Kinds, rows.list[k] # <<>> PROVE Paginated(k) # <<>>
    <3> DEFINE s == rows.list[k]
    <3> DEFINE c == Clamped(k)
    <3>1. s \in Seq(Txs) /\ c \in Nat \ {0} /\ c <= TotalPages(s)
      BY ClampedType DEF RowsTypeOK, RowsRecord
    <3> HIDE DEF s, c
    <3>2. (c - 1) * PageSize + 1 <= Len(s)
      BY <2>3, <3>1, PageBegins DEF s
    <3> DEFINE lo == (c - 1) * PageSize + 1
    <3> DEFINE hi == IF c * PageSize < Len(s) THEN c * PageSize ELSE Len(s)
    <3>3. lo \in Nat \ {0} /\ hi \in Nat /\ lo <= hi /\ hi <= Len(s)
      <4>1. Len(s) \in Nat /\ PageSize \in Nat \ {0} /\ c \in Nat \ {0}
        BY <3>1, RowsAssumption
      <4>2. c * PageSize = (c - 1) * PageSize + PageSize /\ (c - 1) * PageSize \in Nat
        BY <4>1
      <4>3. QED
        BY <3>2, <4>1, <4>2
    <3>4. Paginated(k) = SubSeq(s, lo, hi)
      BY DEF Paginated, s, c
    <3> HIDE DEF lo, hi
    <3>5. Len(SubSeq(s, lo, hi)) = hi - lo + 1
      BY <3>1, <3>3
    <3>6. QED
      BY <3>3, <3>4, <3>5
  <2>4. QED
    BY <2>1, <2>2, <2>3 DEF RowsExplained, PagesTurn
<1>4. QED
  BY <1>1, <1>2, <1>3, PTL DEF Spec
-----------------------------------------------------------------------------
(* The metrics *)

CountersRecord == [usdc : Nat, wei : Nat]

CardNames == Treasury \cup ChainGas \cup SponsorPricing \cup BundlerWallets
             \cup {"paymasterApi", "bundler"}

CallNames == {Calls[i] : i \in 1..13} \cup {"config"}

MetricRecord == [at : 0..13, of : Paymasters \cup {"none"}, counters : CountersRecord,
                 settings : SUBSET Setting, answered : SUBSET CardNames, perGas : Nat,
                 threw : BOOLEAN, failed : SUBSET CallNames, stale : BOOLEAN]

MetricsTypeOK ==
    /\ place \in Place
    /\ served \in Paymasters
    /\ counters \in [Paymasters -> CountersRecord]
    /\ nodePrice \in Nat /\ setting \in Setting /\ started \in Setting
    /\ metric \in MetricRecord

\* The call a request is at is one that is made.
AtInv == metric.at # 0 => Made(Calls[metric.at], metric)

LEMMA CallsAre ==
    /\ DOMAIN Calls = 1..13
    /\ Calls[1] = "deposit" /\ Calls[2] = "native" /\ Calls[3] = "usdc"
    /\ Calls[4] = "owner" /\ Calls[5] = "ownerUsdc" /\ Calls[6] = "utility"
    /\ Calls[7] = "executor" /\ Calls[8] = "lastExecutor" /\ Calls[9] = "counters"
    /\ Calls[10] = "settings" /\ Calls[11] = "gas" /\ Calls[12] = "apiHealth"
    /\ Calls[13] = "bundlerHealth"
BY DEF Calls

LEMMA Least ==
    ASSUME NEW S \in SUBSET Nat, S # {}
    PROVE  \E n \in S : \A k \in S : n <= k
<1> DEFINE R == OpToRel(<, Nat)
<1>1. IsWellFoundedOn(R, Nat)
  BY NatLessThanWellFounded
<1>2. R = {ss \in Nat \X Nat : ss[1] < ss[2]}
  BY DEF OpToRel
<1> HIDE DEF R
<1>3. PICK n \in S : \A k \in S : ~ (<<k, n>> \in R)
  BY <1>1, WFMin
<1>4. ASSUME NEW k \in S PROVE n <= k
  <2>1. n \in Nat /\ k \in Nat
    OBVIOUS
  <2>2. <<k, n>> \in Nat \X Nat => (k < n => <<k, n>> \in R)
    BY <1>2
  <2>3. QED
    BY <1>3, <2>1, <2>2
<1>5. QED
  BY <1>4

\* The next call of a request: the first of those after this one that is made.
NextCall(m, n) ==
    /\ n \in 0..13
    /\ n # 0 => n > m.at /\ Made(Calls[n], m)
    /\ \A i \in 1..13 : i > m.at /\ (n = 0 \/ i < n) => ~Made(Calls[i], m)

LEMMA GotoNext ==
    ASSUME NEW m \in MetricRecord
    PROVE  \E n : NextCall(m, n) /\ Goto(m) = [m EXCEPT !.at = n]
<1> DEFINE next == {i \in DOMAIN Calls : i > m.at /\ Made(Calls[i], m)}
<1>1. DOMAIN Calls = 1..13 /\ m.at \in 0..13
  BY CallsAre DEF MetricRecord
<1>2. next = {i \in 1..13 : i > m.at /\ Made(Calls[i], m)}
  BY <1>1
<1>3. Goto(m) = [m EXCEPT !.at = IF next = {} THEN 0
                                 ELSE CHOOSE i \in next : \A j \in next : i <= j]
  BY DEF Goto
<1> HIDE DEF next
<1>4. CASE next = {}
  <2>1. NextCall(m, 0)
    BY <1>1, <1>2, <1>4 DEF NextCall
  <2>2. QED
    BY <1>3, <1>4, <2>1
<1>5. CASE next # {}
  <2>1. next \in SUBSET Nat
    BY <1>2
  <2>2. \E i \in next : \A j \in next : i <= j
    BY <1>5, <2>1, Least
  <2> DEFINE n == CHOOSE i \in next : \A j \in next : i <= j
  <2>3. n \in next /\ \A j \in next : n <= j
    BY <2>2
  <2>4. Goto(m) = [m EXCEPT !.at = n]
    BY <1>3, <1>5
  <2> HIDE DEF n
  <2>5. n \in 1..13 /\ n > m.at /\ Made(Calls[n], m)
    BY <1>2, <2>3
  <2>6. \A i \in 1..13 : i > m.at /\ i < n => ~Made(Calls[i], m)
    BY <1>2, <2>3, <2>5
  <2>7. NextCall(m, n)
    BY <2>5, <2>6 DEF NextCall
  <2>8. QED
    BY <2>4, <2>7
<1>6. QED
  BY <1>4, <1>5

\* Whether a call is made has nothing to do with the one the request is at.
LEMMA GotoType ==
    ASSUME NEW m \in MetricRecord
    PROVE  /\ Goto(m) \in MetricRecord
           /\ Goto(m).of = m.of /\ Goto(m).counters = m.counters
           /\ Goto(m).settings = m.settings /\ Goto(m).answered = m.answered
           /\ Goto(m).perGas = m.perGas /\ Goto(m).threw = m.threw
           /\ Goto(m).failed = m.failed /\ Goto(m).stale = m.stale
           /\ NextCall(m, Goto(m).at)
           /\ Goto(m).at # 0 => Made(Calls[Goto(m).at], Goto(m))
<1>1. PICK n : NextCall(m, n) /\ Goto(m) = [m EXCEPT !.at = n]
  BY GotoNext
<1> DEFINE g == [m EXCEPT !.at = n]
<1>2. n \in 0..13 /\ (n # 0 => Made(Calls[n], m))
  BY <1>1 DEF NextCall
<1>3. /\ g \in MetricRecord /\ g.at = n
      /\ g.of = m.of /\ g.counters = m.counters /\ g.settings = m.settings
      /\ g.answered = m.answered /\ g.perGas = m.perGas /\ g.threw = m.threw
      /\ g.failed = m.failed /\ g.stale = m.stale
  BY <1>2 DEF MetricRecord
<1> HIDE DEF g
<1>4. n # 0 => Made(Calls[n], g)
  BY <1>2, <1>3 DEF Made
<1>5. Goto(m) = g
  BY <1>1 DEF g
<1>6. QED
  BY <1>1, <1>3, <1>4, <1>5
WorldMoves ==
    \/ \E p \in Paymasters, bought \in Purchases : Purchase(p, bought)
    \/ \E new \in NodePrices : NodePriceMoves(new)
    \/ \E new \in Settings : Configure(new)
    \/ Restart

MetricsMoves ==
    \/ UNCHANGED <<served, counters, nodePrice, setting, started, keys, metric>>
    \/ MetricsGoOn
    \/ LoadDashboardConfig
    \/ Has("metrics") /\ WorldMoves

LEMMA MetricsPart ==
    ASSUME Next \/ UNCHANGED deskVars
    PROVE  MetricsMoves /\ place' = place
<1>1. ASSUME NEW part, part \notin {"metrics", "overview"}, Only(part)
      PROVE  UNCHANGED <<served, counters, nodePrice, setting, started, keys, metric, place>>
  BY <1>1 DEF Only, metricsVars
<1>2. CASE \E r \in Requests : Received(r) \/ FundAnswered(r) \/ GivenUp(r)
  BY <1>1, <1>2 DEF Received, FundAnswered, GivenUp, MetricsMoves, metricsVars
<1>3. CASE Only("metrics") /\ (MetricsGoOn \/ LoadDashboardConfig \/ (Has("metrics") /\ WorldMoves))
  BY <1>3 DEF Only, MetricsMoves
<1>4. CASE Only("overview") /\ OverviewStep
  <2>1. place' = place
    BY <1>4 DEF Only
  <2>2. LoadDashboardConfig \/ UNCHANGED <<served, counters, nodePrice, setting, started, keys, metric>>
    BY <1>4 DEF OverviewStep, PollMetrics, TakeMetrics, AnswerLost, Refused, Logout, Leave,
                ChooseGroup, SignIn, SessionExpires, metricsVars
  <2>3. QED
    BY <2>1, <2>2 DEF MetricsMoves
<1>5. CASE \E part \in {"chain", "panel", "tables", "rows", "caps"} : Only(part)
  BY <1>1, <1>5 DEF MetricsMoves
<1>6. CASE UNCHANGED deskVars
  BY <1>6 DEF deskVars, metricsVars, MetricsMoves
<1>7. QED
  BY <1>2, <1>3, <1>4, <1>5, <1>6 DEF Next, WorldMoves

LEMMA MarkedNat ==
    ASSUME NEW unit \in Nat, NEW amplifier \in Nat, NEW fee \in Nat
    PROVE  Marked(unit, amplifier, fee) \in Nat
<1> DEFINE once == (unit * (10000 + amplifier)) \div 10000
<1>1. once \in Nat
  <2>1. unit * (10000 + amplifier) \in Nat
    OBVIOUS
  <2>2. QED
    BY <2>1
<1> HIDE DEF once
<1>2. once * (10000 + fee) \in Nat
  BY <1>1
<1>3. (once * (10000 + fee)) \div 10000 \in Nat
  BY <1>2
<1>4. QED
  BY <1>3 DEF Marked, once

LEMMA UnitForNat ==
    ASSUME NEW c \in CountersRecord, NEW s \in Setting, NEW gas \in Nat
    PROVE  UnitFor(c, s, gas) \in Nat
<1> DEFINE unit == IF c.usdc > 0 /\ c.wei > 0 THEN AtLeastOne(Average(c))
                   ELSE AtLeastOne(IF gas > 0 THEN (s.fallback * Scale) \div gas ELSE 1)
<1>1. /\ c.usdc \in Nat /\ c.wei \in Nat /\ Scale \in Nat
      /\ s.fallback \in Nat /\ s.amplifier \in Nat /\ s.serviceFee \in Nat
  BY ScaleAssumption DEF CountersRecord, Setting
<1>2. c.usdc * Scale \in Nat /\ s.fallback * Scale \in Nat
  BY <1>1
<1>3. unit \in Nat
  BY <1>1, <1>2 DEF AtLeastOne, Average
<1> HIDE DEF unit
<1>4. Marked(unit, s.amplifier, s.serviceFee) \in Nat
  BY <1>1, <1>3, MarkedNat
<1>5. QED
  BY <1>4 DEF UnitFor, unit

\* The price per gas there is of some counters and settings.
PriceOf(c, s, gas) == (UnitFor(c, s, gas) * gas) \div Scale

LEMMA PriceOfNat ==
    ASSUME NEW c \in CountersRecord, NEW s \in Setting, NEW gas \in Nat
    PROVE  PriceOf(c, s, gas) \in Nat
<1>1. UnitFor(c, s, gas) * gas \in Nat
  BY UnitForNat
<1>2. QED
  BY <1>1, ScaleAssumption DEF PriceOf

\* What was read is still so, unless it is marked stale.
PriceRead(m) ==
    ~m.stale =>
        /\ m.settings \subseteq {setting}
        /\ "paymasterGasUnitsProcessed" \in m.answered => m.counters = counters[m.of]
        /\ {"paymasterUsdcPerGas", "paymasterGasUnitsProcessed"} \subseteq m.answered =>
               m.perGas = PriceOf(counters[m.of], setting, nodePrice)

PriceInv ==
    /\ "paymasterUsdcPerGas" \in metric.answered => metric.at \notin 1..11
    /\ PriceRead(metric)

MetricsInv == MetricsTypeOK /\ AtInv /\ PriceInv

\* One call is over, and the next is made.
LEMMA OnToNext ==
    ASSUME MetricsInv, NEW m \in MetricRecord, metric' = Goto(m), place' = place,
           UNCHANGED <<served, counters, nodePrice, setting, started, keys>>, PriceRead(m),
           "paymasterUsdcPerGas" \in m.answered => m.at >= 11
    PROVE  MetricsInv'
<1>1. /\ metric' \in MetricRecord
      /\ metric'.of = m.of /\ metric'.counters = m.counters /\ metric'.settings = m.settings
      /\ metric'.answered = m.answered /\ metric'.perGas = m.perGas /\ metric'.stale = m.stale
      /\ metric'.at \in 0..13 /\ (metric'.at # 0 => metric'.at > m.at)
  BY GotoType DEF NextCall
<1>2. metric'.at # 0 => Made(Calls[metric'.at], Goto(m))
  BY GotoType
<1>3. MetricsTypeOK'
  BY <1>1 DEF MetricsInv, MetricsTypeOK
<1>4. AtInv'
  BY <1>2 DEF AtInv, Made
<1>5. PriceInv'
  <2>1. "paymasterUsdcPerGas" \in metric'.answered => metric'.at \notin 1..11
    BY <1>1 DEF MetricRecord
  <2>2. PriceRead(metric)'
    BY <1>1 DEF PriceRead
  <2>3. QED
    BY <2>1, <2>2 DEF PriceInv
<1>6. QED
  BY <1>3, <1>4, <1>5 DEF MetricsInv

LEMMA MetricsInitInv ==
    ASSUME scene \in Scenes, place \in scene.places,
           MetricsInit(scene.served, scene.prices, scene.started, scene.keys, scene.failing)
    PROVE  MetricsInv
<1>1. /\ place \in Place /\ served \in Paymasters /\ nodePrice \in Nat
      /\ setting \in Setting /\ started = setting
      /\ counters = [p \in Paymasters |-> NoCounters] /\ metric = NoMetric
  BY WorldAssumption DEF MetricsInit
<1>2. NoCounters \in CountersRecord
  BY DEF NoCounters, CountersRecord
<1>3. NoMetric \in MetricRecord
  BY <1>2 DEF NoMetric, MetricRecord
<1>4. MetricsTypeOK
  BY <1>1, <1>2, <1>3 DEF MetricsTypeOK
<1>5. NoMetric.at = 0 /\ NoMetric.answered = {} /\ NoMetric.settings = {}
  BY DEF NoMetric
<1>6. AtInv /\ PriceInv
  BY <1>1, <1>5 DEF AtInv, PriceInv, PriceRead
<1>7. QED
  BY <1>4, <1>6 DEF MetricsInv

LEMMA LoadKeeps ==
    ASSUME MetricsInv, LoadDashboardConfig, place' = place
    PROVE  MetricsInv'
<1>1. UNCHANGED <<served, counters, nodePrice, setting, started, keys>>
  BY DEF LoadDashboardConfig, Asks
<1>2. NoMetric \in MetricRecord /\ NoMetric.at = 0 /\ NoMetric.answered = {} /\ NoMetric.settings = {}
  <2>1. NoCounters \in CountersRecord
    BY DEF NoCounters, CountersRecord
  <2>2. QED
    BY <2>1 DEF NoMetric, MetricRecord
<1>3. AddressForMetrics \in Paymasters \cup {"none"}
  BY DEF MetricsInv, MetricsTypeOK, Place, AddressForMetrics, Prefer, FromApi
<1>4. CASE metric' = Goto([NoMetric EXCEPT !.of = AddressForMetrics])
  <2> DEFINE m == [NoMetric EXCEPT !.of = AddressForMetrics]
  <2>1. m \in MetricRecord /\ m.answered = {} /\ m.settings = {}
    BY <1>2, <1>3 DEF MetricRecord
  <2> HIDE DEF m
  <2>2. PriceRead(m)
    BY <2>1 DEF PriceRead
  <2>3. metric' = Goto(m)
    BY <1>4 DEF m
  <2>4. QED
    BY <1>1, <2>1, <2>2, <2>3, OnToNext
<1>5. CASE metric' = [NoMetric EXCEPT !.failed = {"config"}]
  <2>1. /\ metric' \in MetricRecord /\ metric'.at = 0 /\ metric'.answered = {}
        /\ metric'.settings = {}
    <3>1. {"config"} \in SUBSET CallNames
      BY DEF CallNames
    <3>2. QED
      BY <1>2, <1>5, <3>1 DEF MetricRecord
  <2>2. MetricsTypeOK'
    BY <1>1, <2>1 DEF MetricsInv, MetricsTypeOK
  <2>3. AtInv' /\ PriceInv'
    BY <2>1 DEF AtInv, PriceInv, PriceRead
  <2>4. QED
    BY <2>2, <2>3 DEF MetricsInv
<1>6. QED
  BY <1>4, <1>5 DEF LoadDashboardConfig, Asks

\* The names of the cards a call gives.
LEMMA GivesAre ==
    /\ Gives["deposit"] = {"entryPointDeposit"}
    /\ Gives["native"] = {"paymasterContractNativeReserve"}
    /\ Gives["usdc"] = {"paymasterContractUsdcReserve"}
    /\ Gives["owner"] = {"refillOwnerNativeBalance"}
    /\ Gives["ownerUsdc"] = {"refillOwnerUsdcBalance"}
    /\ Gives["utility"] = {"bundlerUtilityBalance"}
    /\ Gives["executor"] = {}
    /\ Gives["lastExecutor"] = {"bundlerExecutorBalances"}
    /\ Gives["counters"] = {"paymasterGasUnitsProcessed", "paymasterGasBoughtWei",
                            "paymasterUsdcSpentForGasE6"}
    /\ Gives["apiHealth"] = {"paymasterApi"}
    /\ Gives["bundlerHealth"] = {"bundler"}
BY DEF Gives

\* None but the counters give these.
LEMMA GivesNoPrice ==
    ASSUME NEW call \in Balances \cup {"apiHealth", "bundlerHealth"}
    PROVE  /\ Gives[call] \subseteq CardNames
           /\ "paymasterUsdcPerGas" \notin Gives[call]
           /\ "paymasterGasUnitsProcessed" \notin Gives[call]
BY GivesAre DEF Balances, CardNames, Treasury, ChainGas, SponsorPricing, BundlerWallets

LEMMA GivesCounters ==
    Gives.counters \subseteq CardNames /\ "paymasterUsdcPerGas" \notin Gives.counters
BY GivesAre DEF CardNames, SponsorPricing

\* A call that is answered with cards that are not the price, or that fails.
LEMMA CardsKeep ==
    ASSUME MetricsInv, metric.at # 0, place' = place,
           UNCHANGED <<served, counters, nodePrice, setting, started, keys>>,
           NEW cards \in SUBSET CardNames, NEW failed \in SUBSET CallNames,
           "paymasterUsdcPerGas" \notin cards, "paymasterGasUnitsProcessed" \notin cards,
           NEW m \in MetricRecord,
           m = [metric EXCEPT !.answered = @ \cup cards] \/ m = [metric EXCEPT !.failed = failed],
           metric' = Goto(m)
    PROVE  MetricsInv'
<1>1. metric \in MetricRecord
  BY DEF MetricsInv, MetricsTypeOK
<1>2. /\ m.at = metric.at /\ m.of = metric.of /\ m.counters = metric.counters
      /\ m.settings = metric.settings /\ m.perGas = metric.perGas /\ m.stale = metric.stale
      /\ m.answered \in {metric.answered, metric.answered \cup cards}
  BY <1>1 DEF MetricRecord
<1>3. PriceRead(m)
  BY <1>2 DEF MetricsInv, PriceInv, PriceRead
<1>4. "paymasterUsdcPerGas" \in m.answered => m.at >= 11
  BY <1>1, <1>2 DEF MetricsInv, PriceInv, MetricRecord
<1>5. QED
  BY <1>3, <1>4, OnToNext

LEMMA ReadCountersKeeps ==
    ASSUME MetricsInv, ReadPricingCounters, place' = place
    PROVE  MetricsInv'
<1> DEFINE with == [metric EXCEPT !.answered = @ \cup Gives.counters]
<1> DEFINE m == [with EXCEPT !.counters = counters[metric.of]]
<1>1. metric \in MetricRecord /\ counters \in [Paymasters -> CountersRecord]
  BY DEF MetricsInv, MetricsTypeOK
<1>2. /\ metric.at # 0 /\ Calls[metric.at] = "counters" /\ metric' = Goto(m)
      /\ UNCHANGED <<served, counters, nodePrice, setting, started, keys>>
  BY DEF ReadPricingCounters, At, Asks, With
<1>3. metric.at = 9
  BY <1>1, <1>2, CallsAre DEF MetricRecord
<1>4. metric.of \in Paymasters
  BY <1>1, <1>2 DEF MetricsInv, AtInv, Made, MetricRecord
<1>5. counters[metric.of] \in CountersRecord
  BY <1>1, <1>4
<1>6. /\ with \in MetricRecord /\ with.at = metric.at /\ with.of = metric.of
      /\ with.settings = metric.settings /\ with.stale = metric.stale
      /\ with.answered = metric.answered \cup Gives.counters
  BY <1>1, GivesCounters DEF MetricRecord
<1> HIDE DEF with
<1>7. /\ m \in MetricRecord /\ m.at = metric.at /\ m.of = metric.of
      /\ m.counters = counters[metric.of]
      /\ m.settings = metric.settings /\ m.stale = metric.stale
      /\ m.answered = metric.answered \cup Gives.counters
  BY <1>5, <1>6 DEF MetricRecord
<1> HIDE DEF m
<1>8. "paymasterUsdcPerGas" \notin m.answered
  BY <1>3, <1>7, GivesCounters DEF MetricsInv, PriceInv
<1>9. PriceRead(m)
  BY <1>7, <1>8 DEF MetricsInv, PriceInv, PriceRead
<1>10. QED
  BY <1>2, <1>7, <1>8, <1>9, OnToNext

LEMMA ReadSettingsKeeps ==
    ASSUME MetricsInv, ReadSettings, place' = place
    PROVE  MetricsInv'
<1>1. metric \in MetricRecord /\ setting \in Setting
  BY DEF MetricsInv, MetricsTypeOK
<1>2. /\ metric.at # 0 /\ Calls[metric.at] = "settings"
      /\ UNCHANGED <<served, counters, nodePrice, setting, started, keys>>
  BY DEF ReadSettings, At, Asks
<1>3. metric.at = 10
  BY <1>1, <1>2, CallsAre DEF MetricRecord
<1>4. "paymasterUsdcPerGas" \notin metric.answered
  BY <1>3 DEF MetricsInv, PriceInv
<1>5. CASE setting.numbers
  <2> DEFINE cards == {"paymasterAmplifierBps"} \cup
                      (IF setting.hasServiceFee THEN {"paymasterServiceFeeBps"} ELSE {})
  <2> DEFINE with == [metric EXCEPT !.answered = @ \cup cards]
  <2> DEFINE m == [with EXCEPT !.settings = {setting}]
  <2>1. metric' = Goto(m)
    BY <1>5 DEF ReadSettings, Asks, With
  <2>2. /\ cards \in SUBSET CardNames /\ "paymasterUsdcPerGas" \notin cards
        /\ "paymasterGasUnitsProcessed" \notin cards
    BY DEF CardNames, SponsorPricing
  <2> HIDE DEF cards
  <2>3. /\ with \in MetricRecord /\ with.at = metric.at /\ with.of = metric.of
        /\ with.counters = metric.counters /\ with.stale = metric.stale
        /\ with.answered = metric.answered \cup cards
    BY <1>1, <2>2 DEF MetricRecord
  <2> HIDE DEF with
  <2>4. /\ m \in MetricRecord /\ m.at = metric.at /\ m.of = metric.of
        /\ m.counters = metric.counters /\ m.stale = metric.stale
        /\ m.settings = {setting} /\ m.answered = metric.answered \cup cards
    BY <1>1, <2>3 DEF MetricRecord
  <2> HIDE DEF m
  <2>5. PriceRead(m) /\ "paymasterUsdcPerGas" \notin m.answered
    BY <1>4, <2>2, <2>4 DEF MetricsInv, PriceInv, PriceRead
  <2>6. QED
    BY <1>2, <2>1, <2>4, <2>5, OnToNext
<1>6. CASE ~setting.numbers
  <2>1. metric' = [metric EXCEPT !.at = 0, !.threw = TRUE]
    BY <1>6 DEF ReadSettings, Asks
  <2>2. /\ metric' \in MetricRecord /\ metric'.at = 0 /\ metric'.of = metric.of
        /\ metric'.counters = metric.counters /\ metric'.stale = metric.stale
        /\ metric'.settings = metric.settings /\ metric'.answered = metric.answered
    <3> DEFINE over == [metric EXCEPT !.at = 0]
    <3>1. /\ over \in MetricRecord /\ over.at = 0 /\ over.of = metric.of
          /\ over.counters = metric.counters /\ over.stale = metric.stale
          /\ over.settings = metric.settings /\ over.answered = metric.answered
      BY <1>1 DEF MetricRecord
    <3>2. metric' = [over EXCEPT !.threw = TRUE]
      BY <2>1
    <3> HIDE DEF over
    <3>3. QED
      BY <3>1, <3>2 DEF MetricRecord
  <2>3. MetricsTypeOK'
    BY <1>2, <2>2 DEF MetricsInv, MetricsTypeOK
  <2>4. AtInv' /\ PriceInv'
    BY <1>2, <1>4, <2>2 DEF MetricsInv, AtInv, PriceInv, PriceRead
  <2>5. QED
    BY <2>3, <2>4 DEF MetricsInv
<1>7. QED
  BY <1>5, <1>6
\* The price that is answered is of what was read before.
LEMMA ReadGasKeeps ==
    ASSUME MetricsInv, FetchGasPriceOfApi, place' = place
    PROVE  MetricsInv'
<1>1. metric \in MetricRecord /\ nodePrice \in Nat
  BY DEF MetricsInv, MetricsTypeOK
<1>2. /\ metric.at # 0 /\ Calls[metric.at] = "gas"
      /\ UNCHANGED <<served, counters, nodePrice, setting, started, keys>>
  BY DEF FetchGasPriceOfApi, At, Asks
<1>3. metric.at = 11
  BY <1>1, <1>2, CallsAre DEF MetricRecord
<1>4. "paymasterUsdcPerGas" \notin metric.answered
  BY <1>3 DEF MetricsInv, PriceInv
<1>5. CASE PerGas(nodePrice) = {}
  <2> DEFINE cards == {"gasPriceWei"}
  <2> DEFINE m == [metric EXCEPT !.answered = @ \cup cards]
  <2>1. metric' = Goto(m)
    BY <1>5 DEF FetchGasPriceOfApi, Asks, With
  <2>2. /\ cards \in SUBSET CardNames /\ "paymasterUsdcPerGas" \notin cards
        /\ "paymasterGasUnitsProcessed" \notin cards
    BY DEF CardNames, ChainGas
  <2> HIDE DEF cards
  <2>3. m \in MetricRecord
    BY <1>1, <2>2 DEF MetricRecord
  <2>4. {} \in SUBSET CallNames
    OBVIOUS
  <2>5. m = [metric EXCEPT !.answered = @ \cup cards]
    OBVIOUS
  <2> HIDE DEF m
  <2>6. QED
    BY <1>2, <2>1, <2>2, <2>3, <2>4, <2>5, CardsKeep
<1>6. CASE PerGas(nodePrice) # {}
  <2> DEFINE cards == {"gasPriceWei", "paymasterUsdcPerGas"}
  <2> DEFINE with == [metric EXCEPT !.answered = @ \cup cards]
  <2>1. PICK price \in PerGas(nodePrice) : metric' = Goto([with EXCEPT !.perGas = price])
    BY <1>6 DEF FetchGasPriceOfApi, Asks, With
  <2> DEFINE m == [with EXCEPT !.perGas = price]
  <2>2. PICK s \in metric.settings : price = PriceOf(metric.counters, s, nodePrice)
    BY <2>1 DEF PerGas, PriceOf
  <2>3. price \in Nat
    BY <1>1, <2>2, PriceOfNat DEF MetricRecord
  <2>4. cards \in SUBSET CardNames /\ "paymasterGasUnitsProcessed" \notin cards
    BY DEF CardNames, ChainGas, SponsorPricing
  <2> HIDE DEF cards
  <2>5. /\ with \in MetricRecord /\ with.at = metric.at /\ with.of = metric.of
        /\ with.counters = metric.counters /\ with.stale = metric.stale
        /\ with.settings = metric.settings /\ with.answered = metric.answered \cup cards
    BY <1>1, <2>4 DEF MetricRecord
  <2> HIDE DEF with
  <2>6. /\ m \in MetricRecord /\ m.at = metric.at /\ m.of = metric.of
        /\ m.counters = metric.counters /\ m.stale = metric.stale
        /\ m.settings = metric.settings /\ m.answered = metric.answered \cup cards
        /\ m.perGas = price
    BY <2>3, <2>5 DEF MetricRecord
  <2> HIDE DEF m
  <2>7. PriceRead(m)
    <3>1. SUFFICES ASSUME ~metric.stale
                   PROVE  /\ m.settings \subseteq {setting}
                          /\ "paymasterGasUnitsProcessed" \in m.answered
                                 => m.counters = counters[m.of] /\ m.perGas = PriceOf(counters[m.of], setting, nodePrice)
      BY <2>6 DEF PriceRead
    <3>2. /\ metric.settings \subseteq {setting}
          /\ "paymasterGasUnitsProcessed" \in metric.answered
                 => metric.counters = counters[metric.of]
      BY <3>1 DEF MetricsInv, PriceInv, PriceRead
    <3>3. s = setting
      BY <2>2, <3>2
    <3>4. QED
      BY <2>2, <2>4, <2>6, <3>2, <3>3
  <2>8. m.at >= 11
    BY <1>3, <2>6
  <2>9. metric' = Goto(m)
    BY <2>1 DEF m
  <2>10. QED
    BY <1>2, <2>6, <2>7, <2>8, <2>9, OnToNext
<1>7. QED
  BY <1>5, <1>6

LEMMA GoOnKeeps ==
    ASSUME MetricsInv, MetricsGoOn, place' = place
    PROVE  MetricsInv'
<1>1. metric \in MetricRecord /\ {} \in SUBSET CallNames /\ {} \in SUBSET CardNames
  BY DEF MetricsInv, MetricsTypeOK
<1>2. ASSUME NEW call \in Balances \cup {"apiHealth", "bundlerHealth"},
             At(call), Asks(Goto(With(Gives[call])))
      PROVE  MetricsInv'
  <2> DEFINE cards == Gives[call]
  <2>1. /\ cards \in SUBSET CardNames /\ "paymasterUsdcPerGas" \notin cards
        /\ "paymasterGasUnitsProcessed" \notin cards
    BY GivesNoPrice
  <2> HIDE DEF cards
  <2> DEFINE m == [metric EXCEPT !.answered = @ \cup cards]
  <2>2. m \in MetricRecord
    BY <1>1, <2>1 DEF MetricRecord
  <2>3. /\ metric' = Goto(m) /\ metric.at # 0
        /\ UNCHANGED <<served, counters, nodePrice, setting, started, keys>>
    BY <1>2 DEF Asks, With, At, cards
  <2>4. m = [metric EXCEPT !.answered = @ \cup cards]
    OBVIOUS
  <2> HIDE DEF m
  <2>5. QED
    BY <1>1, <2>1, <2>2, <2>3, <2>4, CardsKeep
<1>3. CASE ReadBalance
  BY <1>2, <1>3 DEF ReadBalance
<1>4. CASE CheckHealth
  BY <1>2, <1>4 DEF CheckHealth
<1>5. CASE CallFails
  <2> DEFINE failed == metric.failed \cup {Calls[metric.at]}
  <2>1. failed \in SUBSET CallNames
    <3>1. metric.at \in 1..13
      BY <1>1, <1>5 DEF CallFails, MetricRecord
    <3>2. QED
      BY <1>1, <3>1 DEF MetricRecord, CallNames
  <2>2. /\ metric' = Goto([metric EXCEPT !.failed = failed]) /\ metric.at # 0
        /\ UNCHANGED <<served, counters, nodePrice, setting, started, keys>>
    BY <1>5 DEF CallFails, Asks
  <2> HIDE DEF failed
  <2> DEFINE m == [metric EXCEPT !.failed = failed]
  <2>3. m \in MetricRecord
    BY <1>1, <2>1 DEF MetricRecord
  <2>4. m = [metric EXCEPT !.failed = failed] /\ metric' = Goto(m)
    BY <2>2
  <2>5. "paymasterUsdcPerGas" \notin {} /\ "paymasterGasUnitsProcessed" \notin {}
    OBVIOUS
  <2> HIDE DEF m
  <2>6. QED
    BY <1>1, <2>1, <2>2, <2>3, <2>4, <2>5, CardsKeep
<1>6. QED
  BY <1>3, <1>4, <1>5, ReadCountersKeeps, ReadSettingsKeeps, ReadGasKeeps DEF MetricsGoOn

\* What was read is marked when the world changes; the api's own settings are not read.
LEMMA WorldKeeps ==
    ASSUME MetricsInv, WorldMoves, place' = place
    PROVE  MetricsInv'
<1>1. /\ metric \in MetricRecord /\ counters \in [Paymasters -> CountersRecord]
      /\ setting \in Setting
  BY DEF MetricsInv, MetricsTypeOK
<1>2. CASE Restart
  <2>1. started' \in Setting /\ UNCHANGED <<served, counters, nodePrice, setting, keys, metric>>
    BY <1>1, <1>2 DEF Restart
  <2>2. QED
    BY <2>1 DEF MetricsInv, MetricsTypeOK, AtInv, Made, PriceInv, PriceRead
<1>3. CASE Changes /\ UNCHANGED started /\ counters' \in [Paymasters -> CountersRecord]
           /\ nodePrice' \in Nat /\ setting' \in Setting
  <2>1. metric' = [metric EXCEPT !.stale = TRUE] /\ UNCHANGED <<served, keys>>
    BY <1>3 DEF Changes
  <2>2. /\ metric' \in MetricRecord /\ metric'.stale /\ metric'.at = metric.at
        /\ metric'.of = metric.of /\ metric'.failed = metric.failed
        /\ metric'.answered = metric.answered
    BY <1>1, <2>1 DEF MetricRecord
  <2>3. MetricsTypeOK'
    BY <1>3, <2>1, <2>2 DEF MetricsInv, MetricsTypeOK
  <2>4. AtInv'
    BY <2>1, <2>2 DEF MetricsInv, AtInv, Made
  <2>5. PriceInv'
    BY <2>2 DEF MetricsInv, PriceInv, PriceRead
  <2>6. QED
    BY <2>3, <2>4, <2>5 DEF MetricsInv
<1>4. nodePrice \in Nat
  BY DEF MetricsInv, MetricsTypeOK
<1>5. CASE \E p \in Paymasters, bought \in Purchases : Purchase(p, bought)
  <2>1. PICK p \in Paymasters, bought \in Purchases : Purchase(p, bought)
    BY <1>5
  <2>2. bought \in CountersRecord
    BY MetricsAssumption DEF CountersRecord
  <2>3. counters' \in [Paymasters -> CountersRecord]
    BY <1>1, <2>1, <2>2 DEF Purchase
  <2>4. QED
    BY <1>1, <1>3, <1>4, <2>1, <2>3 DEF Purchase
<1>6. CASE \E new \in NodePrices : NodePriceMoves(new)
  BY <1>1, <1>3, <1>6, MetricsAssumption DEF NodePriceMoves
<1>7. CASE \E new \in Settings : Configure(new)
  BY <1>1, <1>3, <1>4, <1>7, MetricsAssumption DEF Configure
<1>8. QED
  BY <1>2, <1>5, <1>6, <1>7 DEF WorldMoves

LEMMA MetricsStepKeeps ==
    ASSUME MetricsInv, MetricsMoves, place' = place
    PROVE  MetricsInv'
<1>1. CASE UNCHANGED <<served, counters, nodePrice, setting, started, keys, metric>>
  BY <1>1 DEF MetricsInv, MetricsTypeOK, AtInv, Made, PriceInv, PriceRead
<1>2. QED
  BY <1>1, GoOnKeeps, LoadKeeps, WorldKeeps DEF MetricsMoves

\* A few units cost that many times the price of one, but for what is rounded away.
LEMMA UnitsCost ==
    ASSUME NEW x \in Nat, NEW units \in 1..3
    PROVE  (units * x) \div Scale \in
               (units * (x \div Scale))..(units * (x \div Scale) + units - 1)
<1>1. Scale \in Nat \ {0}
  BY ScaleAssumption
<1>2. PICK q \in Nat, r \in Nat : x = q * Scale + r /\ r < Scale /\ x \div Scale = q
  <2>1. PICK d \in Nat \ {0} : d = Scale
    BY <1>1
  <2>2. PICK q \in Nat : q = x \div d
    OBVIOUS
  <2>3. q * d <= x /\ x < q * d + d
    BY <2>2
  <2>4. PICK r \in Nat : r = x - q * d
    BY <2>3
  <2>5. x = q * Scale + r /\ r < Scale /\ x \div Scale = q
    BY <2>1, <2>2, <2>3, <2>4
  <2>6. QED
    BY <2>5
<1>3. units * x = (units * q) * Scale + units * r
  BY <1>1, <1>2
<1>4. units * r < units * Scale /\ units * r \in Nat
  BY <1>1, <1>2
<1>5. ASSUME NEW k \in 0..2, k < units, k * Scale <= units * r, units * r < (k + 1) * Scale
      PROVE  (units * x) \div Scale = units * q + k
  <2>1. units * x = (units * q + k) * Scale + (units * r - k * Scale)
    BY <1>1, <1>3
  <2>2. units * r - k * Scale \in 0..(Scale - 1)
    BY <1>1, <1>4, <1>5
  <2>3. units * q + k \in Nat
    BY <1>2
  <2>4. \A a \in Nat, b \in 0..(Scale - 1) : (a * Scale + b) \div Scale = a
    BY <1>1
  <2>5. QED
    BY <2>1, <2>2, <2>3, <2>4
<1>6. \E k \in 0..2 : k < units /\ k * Scale <= units * r /\ units * r < (k + 1) * Scale
  <2>1. CASE units * r < Scale
    BY <1>1, <1>4, <2>1
  <2>2. CASE Scale <= units * r /\ units * r < 2 * Scale
    BY <1>1, <1>4, <2>2
  <2>3. CASE 2 * Scale <= units * r
    BY <1>1, <1>4, <2>3
  <2>4. QED
    BY <1>1, <1>4, <2>1, <2>2, <2>3
<1>7. PICK k \in 0..2 : k < units /\ k * Scale <= units * r /\ units * r < (k + 1) * Scale
  BY <1>6
<1>8. (units * x) \div Scale = units * q + k
  BY <1>5, <1>7
<1>9. units * q \in Nat
  BY <1>2
<1>10. QED
  BY <1>2, <1>7, <1>8, <1>9

\* The price that the page shows is what the contract charges, to the unit that is
\* rounded away, while what it was made of has not changed.
THEOREM MetricsCorrect == Spec => [](MetricsTypeOK /\ ShownPriceIsCharged)
<1>1. Init => MetricsInv
  BY MetricsInitInv DEF Init
<1>2. MetricsInv /\ [Next]_deskVars => MetricsInv'
  BY MetricsPart, MetricsStepKeeps
<1>3. MetricsInv => MetricsTypeOK /\ ShownPriceIsCharged
  <2> SUFFICES ASSUME MetricsInv PROVE ShownPriceIsCharged
    BY DEF MetricsInv
  <2> DEFINE c == counters[served]
  <2>1. ASSUME metric.at = 0, ~metric.stale,
               {"paymasterUsdcPerGas", "paymasterGasUnitsProcessed"} \subseteq metric.answered,
               metric.of = served, setting = started, nodePrice > 0,
               Priced(c) \/ c = NoCounters,
               NEW units \in 1..3
        PROVE  BaseCharge([price |-> SignedPrice, minFee |-> 0], units * nodePrice)
                   \in (units * metric.perGas)..(units * metric.perGas + units - 1)
    <3>1. metric.perGas = PriceOf(c, started, nodePrice)
      BY <2>1 DEF MetricsInv, PriceInv, PriceRead
    <3>2. c \in CountersRecord /\ started \in Setting /\ nodePrice \in Nat
      BY DEF MetricsInv, MetricsTypeOK
    <3>3. UnitFor(c, started, nodePrice) = SignedPrice
      <4>1. CASE Priced(c)
        BY <4>1 DEF UnitFor, SignedPrice, Priced, AtLeastOne
      <4>2. CASE c = NoCounters
        <5>1. c.usdc = 0
          BY <4>2 DEF NoCounters
        <5>2. ~Priced(c) /\ ~(c.usdc > 0)
          BY <5>1 DEF Priced
        <5>3. QED
          BY <2>1, <5>2 DEF UnitFor, SignedPrice
      <4>3. QED
        BY <2>1, <4>1, <4>2
    <3>4. SignedPrice \in Nat
      BY <3>2, <3>3, UnitForNat
    <3> DEFINE x == SignedPrice * nodePrice
    <3> HIDE DEF c
    <3>5. PICK price \in Nat : price = SignedPrice
      BY <3>4
    <3>6. x \in Nat /\ metric.perGas = x \div Scale
      BY <3>1, <3>2, <3>3, <3>5 DEF PriceOf
    <3>7. BaseCharge([price |-> SignedPrice, minFee |-> 0], units * nodePrice) = (units * x) \div Scale
      <4>1. (units * nodePrice) * price = units * (price * nodePrice)
        BY <3>2
      <4>2. ((units * nodePrice) * price) \div Scale \in Nat
        <5>1. (units * nodePrice) * price \in Nat
          BY <3>2
        <5>2. QED
          BY <5>1, ScaleAssumption
      <4>3. BaseCharge([price |-> price, minFee |-> 0], units * nodePrice)
                = ((units * nodePrice) * price) \div Scale
        BY <4>2 DEF BaseCharge
      <4>4. QED
        BY <3>5, <4>1, <4>3
    <3> HIDE DEF x
    <3>8. QED
      BY <3>6, <3>7, UnitsCost
  <2>2. QED
    BY <2>1 DEF ShownPriceIsCharged
<1>4. QED
  BY <1>1, <1>2, <1>3, PTL DEF Spec
-----------------------------------------------------------------------------
(* The cards of the page *)

\* The cards that are there once a call was answered.
GivenBy(call) ==
    CASE call = "deposit"      -> {"entryPointDeposit"}
      [] call = "native"       -> {"paymasterContractNativeReserve"}
      [] call = "usdc"         -> {"paymasterContractUsdcReserve"}
      [] call = "owner"        -> {"refillOwnerNativeBalance"}
      [] call = "ownerUsdc"    -> {"refillOwnerUsdcBalance"}
      [] call = "utility"      -> {"bundlerUtilityBalance"}
      [] call = "lastExecutor" -> {"bundlerExecutorBalances"}
      [] call = "counters"     -> {"paymasterGasUnitsProcessed", "paymasterGasBoughtWei",
                                   "paymasterUsdcSpentForGasE6"}
      [] call = "settings"     -> {"paymasterAmplifierBps", "paymasterServiceFeeBps"}
      [] call = "gas"          -> {"gasPriceWei", "paymasterUsdcPerGas"}
      [] OTHER                 -> {}

\* What FailSoft says of a card, of a request that has come so far.
Excused(card, answered, failed) ==
    card \in answered \/ MadeOf(card) \cap failed # {} \/ Unset(card)

Settled(call, m) == \A card \in GivenBy(call) : Excused(card, m.answered, m.failed)

\* The two services are asked last, whatever else failed.
Health(call, card, m, asked) ==
    /\ asked => (card \in m.answered <=> call \notin m.failed)
    /\ ~asked => card \notin m.answered /\ call \notin m.failed

\* What is known of the calls up to the one with that number.
Through(n, m) ==
    /\ \A i \in 1..n : Settled(Calls[i], m)
    /\ "paymasterServiceFeeBps" \in m.answered => m.settings # {}
    /\ Health("apiHealth", "paymasterApi", m, n >= 12)
    /\ Health("bundlerHealth", "bundler", m, n >= 13)

\* Of a request under way, the calls before the one it is at; of one that is over, all.
CallsInv(m) ==
    ~m.threw /\ "config" \notin m.failed => Through(IF m.at = 0 THEN 13 ELSE m.at - 1, m)

\* The page is a record of these fields; of the cards and the group no more is needed.
OverviewTypeOK ==
    /\ page = [view |-> page.view, due |-> page.due, cards |-> page.cards,
               group |-> page.group, failed |-> page.failed]
    /\ page.view \in {"loading", "login", "shown", "failed"}
    /\ page.due \in {"none", "answer", "refusal"}

SoftInv ==
    /\ metric.at # 0 \/ page.due = "answer" => CallsInv(metric)
    /\ metric.at # 0 => metric.of = AddressForMetrics
    /\ FailSoft

\* The group that was chosen is the one the page shows.
ChosenInv == chosen # "none" => page.view = "shown" /\ page.group = chosen

\* Where the page takes part the world stands still; elsewhere it is never put up.
OverviewInv ==
    /\ OverviewTypeOK /\ ChosenInv
    /\ Has("overview") => SoftInv
    /\ ~Has("overview") => page = NoPage

LEMMA CallOfCard ==
    ASSUME NEW card \in Treasury \cup ChainGas \cup SponsorPricing \cup BundlerWallets
    PROVE  \E i \in 1..13 : card \in GivenBy(Calls[i])
<1>1. ASSUME NEW i \in 1..13, NEW call, Calls[i] = call, card \in GivenBy(call)
      PROVE  \E j \in 1..13 : card \in GivenBy(Calls[j])
  BY <1>1
<1>2. CASE card = "entryPointDeposit"
  <2>1. card \in GivenBy("deposit")
    BY <1>2 DEF GivenBy
  <2>2. 1 \in 1..13 /\ Calls[1] = "deposit"
    BY CallsAre
  <2>3. QED
    BY <1>1, <2>1, <2>2
<1>3. CASE card = "paymasterContractNativeReserve"
  <2>1. card \in GivenBy("native")
    BY <1>3 DEF GivenBy
  <2>2. 2 \in 1..13 /\ Calls[2] = "native"
    BY CallsAre
  <2>3. QED
    BY <1>1, <2>1, <2>2
<1>4. CASE card = "paymasterContractUsdcReserve"
  <2>1. card \in GivenBy("usdc")
    BY <1>4 DEF GivenBy
  <2>2. 3 \in 1..13 /\ Calls[3] = "usdc"
    BY CallsAre
  <2>3. QED
    BY <1>1, <2>1, <2>2
<1>5. CASE card = "refillOwnerNativeBalance"
  <2>1. card \in GivenBy("owner")
    BY <1>5 DEF GivenBy
  <2>2. 4 \in 1..13 /\ Calls[4] = "owner"
    BY CallsAre
  <2>3. QED
    BY <1>1, <2>1, <2>2
<1>6. CASE card = "refillOwnerUsdcBalance"
  <2>1. card \in GivenBy("ownerUsdc")
    BY <1>6 DEF GivenBy
  <2>2. 5 \in 1..13 /\ Calls[5] = "ownerUsdc"
    BY CallsAre
  <2>3. QED
    BY <1>1, <2>1, <2>2
<1>7. CASE card = "bundlerUtilityBalance"
  <2>1. card \in GivenBy("utility")
    BY <1>7 DEF GivenBy
  <2>2. 6 \in 1..13 /\ Calls[6] = "utility"
    BY CallsAre
  <2>3. QED
    BY <1>1, <2>1, <2>2
<1>8. CASE card = "bundlerExecutorBalances"
  <2>1. card \in GivenBy("lastExecutor")
    BY <1>8 DEF GivenBy
  <2>2. 8 \in 1..13 /\ Calls[8] = "lastExecutor"
    BY CallsAre
  <2>3. QED
    BY <1>1, <2>1, <2>2
<1>9. CASE card \in {"paymasterGasUnitsProcessed", "paymasterGasBoughtWei", "paymasterUsdcSpentForGasE6"}
  <2>1. card \in GivenBy("counters")
    BY <1>9 DEF GivenBy
  <2>2. 9 \in 1..13 /\ Calls[9] = "counters"
    BY CallsAre
  <2>3. QED
    BY <1>1, <2>1, <2>2
<1>10. CASE card \in {"paymasterAmplifierBps", "paymasterServiceFeeBps"}
  <2>1. card \in GivenBy("settings")
    BY <1>10 DEF GivenBy
  <2>2. 10 \in 1..13 /\ Calls[10] = "settings"
    BY CallsAre
  <2>3. QED
    BY <1>1, <2>1, <2>2
<1>11. CASE card \in {"gasPriceWei", "paymasterUsdcPerGas"}
  <2>1. card \in GivenBy("gas")
    BY <1>11 DEF GivenBy
  <2>2. 11 \in 1..13 /\ Calls[11] = "gas"
    BY CallsAre
  <2>3. QED
    BY <1>1, <2>1, <2>2
<1>12. QED
  BY <1>2, <1>3, <1>4, <1>5, <1>6, <1>7, <1>8, <1>9, <1>10, <1>11
     DEF Treasury, ChainGas, SponsorPricing, BundlerWallets

\* What a card is made of has the call that gives it in it.
LEMMA GivenMadeOf ==
    ASSUME NEW i \in 1..13, NEW card \in GivenBy(Calls[i])
    PROVE  Calls[i] \in MadeOf(card)
<1>1. i \in {1, 2, 3, 4, 5, 6, 7, 8, 9, 10, 11, 12, 13}
  OBVIOUS
<1>2. CASE i = 1
  BY <1>2, CallsAre DEF GivenBy, MadeOf
<1>3. CASE i = 2
  BY <1>3, CallsAre DEF GivenBy, MadeOf
<1>4. CASE i = 3
  BY <1>4, CallsAre DEF GivenBy, MadeOf
<1>5. CASE i = 4
  BY <1>5, CallsAre DEF GivenBy, MadeOf
<1>6. CASE i = 5
  BY <1>6, CallsAre DEF GivenBy, MadeOf
<1>7. CASE i = 6
  BY <1>7, CallsAre DEF GivenBy, MadeOf
<1>8. CASE i = 8
  BY <1>8, CallsAre DEF GivenBy, MadeOf
<1>9. CASE i = 9
  BY <1>9, CallsAre DEF GivenBy, MadeOf
<1>10. CASE i = 10
  BY <1>10, CallsAre DEF GivenBy, MadeOf
<1>11. CASE i = 11
  BY <1>11, CallsAre DEF GivenBy, MadeOf
<1>12. CASE i \in {7, 12, 13}
  BY <1>12, CallsAre DEF GivenBy
<1>13. QED
  BY <1>1, <1>2, <1>3, <1>4, <1>5, <1>6, <1>7, <1>8, <1>9, <1>10, <1>11, <1>12

\* A call that is not made leaves its card out for a reason.
LEMMA SkippedSettled ==
    ASSUME NEW i \in 1..13, NEW m \in MetricRecord, m.of = AddressForMetrics,
           ~Made(Calls[i], m)
    PROVE  Settled(Calls[i], m) /\ i \notin {12, 13}
<1>1. i \in {1, 2, 3, 4, 5, 6, 7, 8, 9, 10, 11, 12, 13}
  OBVIOUS
<1>2. i \notin {10, 11, 12, 13}
  BY CallsAre DEF Made
<1>3. CASE i \in {1, 2, 3, 9}
  <2>1. AddressForMetrics = "none"
    BY <1>3, CallsAre DEF Made
  <2>2. \A card \in GivenBy(Calls[i]) : Calls[i] \in MadeOf(card)
    BY GivenMadeOf
  <2>3. Calls[i] \in {"deposit", "native", "usdc", "counters"}
    BY <1>3, CallsAre
  <2>4. \A card \in GivenBy(Calls[i]) :
            MadeOf(card) \cap {"deposit", "native", "usdc", "counters"} # {}
    BY <2>2, <2>3
  <2>5. QED
    BY <1>2, <2>1, <2>4 DEF Settled, Excused, Unset
<1>4. CASE i \in {4, 6, 7}
  <2>1. Calls[i] \in {"owner", "utility", "executor"} \ keys
    BY <1>4, CallsAre DEF Made
  <2>2. \A card \in GivenBy(Calls[i]) : Calls[i] \in MadeOf(card)
    BY GivenMadeOf
  <2>3. QED
    BY <1>2, <2>1, <2>2 DEF Settled, Excused, Unset
<1>5. CASE i \in {5, 8}
  <2>1. PICK first \in {"owner", "executor"} :
            /\ first \notin keys \/ first \in m.failed
            /\ \A card \in GivenBy(Calls[i]) : first \in MadeOf(card)
    <3>1. CASE i = 5
      BY <3>1, CallsAre DEF Made, GivenBy, MadeOf
    <3>2. CASE i = 8
      BY <3>2, CallsAre DEF Made, GivenBy, MadeOf
    <3>3. QED
      BY <1>5, <3>1, <3>2
  <2>2. QED
    BY <1>2, <2>1 DEF Settled, Excused, Unset
<1>6. QED
  BY <1>1, <1>2, <1>3, <1>4, <1>5

\* A request that settled its call goes on to the next that is made.
LEMMA GotoSettles ==
    ASSUME NEW m \in MetricRecord, m.of = AddressForMetrics, Through(m.at, m)
    PROVE  CallsInv(Goto(m))
<1> DEFINE g == Goto(m)
<1>1. /\ g.answered = m.answered /\ g.failed = m.failed /\ g.settings = m.settings
      /\ NextCall(m, g.at)
  BY GotoType
<1> DEFINE n == IF g.at = 0 THEN 13 ELSE g.at - 1
<1>2. m.at \in 0..13 /\ g.at \in 0..13
  BY <1>1 DEF MetricRecord, NextCall
<1>3. ASSUME NEW i \in 1..13, i <= n PROVE Settled(Calls[i], g)
  <2>1. CASE i <= m.at
    BY <1>1, <2>1, <1>2 DEF Through, Settled
  <2>2. CASE i > m.at
    <3>1. ~Made(Calls[i], m)
      BY <1>1, <1>2, <1>3, <2>2 DEF NextCall
    <3>2. Settled(Calls[i], m)
      BY <3>1, SkippedSettled
    <3>3. QED
      BY <1>1, <3>2 DEF Settled
  <2>3. QED
    BY <1>2, <2>1, <2>2
<1>4. ASSUME NEW i \in {12, 13} PROVE n >= i <=> m.at >= i
  <2>1. CASE m.at >= i
    BY <1>1, <1>2, <2>1 DEF NextCall
  <2>2. CASE m.at < i /\ n >= i
    <3>1. ~Made(Calls[i], m)
      BY <1>1, <1>2, <2>2 DEF NextCall
    <3>2. QED
      BY <3>1, SkippedSettled
  <2>3. QED
    BY <1>2, <2>1, <2>2
<1>5. Through(n, g)
  <2>1. \A i \in 1..n : Settled(Calls[i], g)
    BY <1>2, <1>3
  <2>2. /\ Health("apiHealth", "paymasterApi", g, n >= 12)
        /\ Health("bundlerHealth", "bundler", g, n >= 13)
    BY <1>1, <1>4 DEF Through, Health
  <2>3. QED
    BY <1>1, <2>1, <2>2 DEF Through
<1>6. QED
  BY <1>5 DEF CallsInv
\* The call that a request is at is answered, or fails.
LEMMA OneMore ==
    ASSUME metric \in MetricRecord, metric.at # 0, Through(metric.at - 1, metric),
           NEW m \in MetricRecord, NEW cards, NEW lost,
           m.at = metric.at,
           m.answered = metric.answered \cup cards, m.failed = metric.failed \cup lost,
           \/ /\ lost = {}
              /\ "paymasterApi" \in cards <=> metric.at = 12
              /\ "bundler" \in cards <=> metric.at = 13
           \/ cards = {} /\ lost = {Calls[metric.at]},
           Settled(Calls[metric.at], m),
           "paymasterServiceFeeBps" \in m.answered => m.settings # {}
    PROVE  Through(m.at, m)
<1> DEFINE a == metric.at
<1>1. a \in 1..13
  BY DEF MetricRecord
<1>2. ASSUME NEW i \in 1..a PROVE Settled(Calls[i], m)
  <2>1. CASE i = a
    BY <2>1
  <2>2. CASE i # a
    <3>1. Settled(Calls[i], metric)
      BY <1>1, <2>2 DEF Through
    <3>2. QED
      BY <3>1 DEF Settled, Excused
  <2>3. QED
    BY <2>1, <2>2
<1>3. /\ Calls[a] = "apiHealth" <=> a = 12
      /\ Calls[a] = "bundlerHealth" <=> a = 13
  <2>1. a \in {1, 2, 3, 4, 5, 6, 7, 8, 9, 10, 11, 12, 13}
    BY <1>1
  <2>2. QED
    BY <2>1, CallsAre
<1>4. Health("apiHealth", "paymasterApi", m, a >= 12)
  <2>1. Health("apiHealth", "paymasterApi", metric, a - 1 >= 12)
    BY DEF Through
  <2>2. CASE a = 12
    <3>1. "paymasterApi" \notin metric.answered /\ "apiHealth" \notin metric.failed
      BY <2>1, <2>2 DEF Health
    <3>2. QED
      BY <1>3, <2>2, <3>1 DEF Health
  <2>3. CASE a # 12
    <3>1. "paymasterApi" \notin cards /\ "apiHealth" \notin lost
      BY <1>3, <2>3
    <3>2. a >= 12 <=> a - 1 >= 12
      BY <1>1, <2>3
    <3>3. QED
      BY <2>1, <3>1, <3>2 DEF Health
  <2>4. QED
    BY <2>2, <2>3
<1>5. Health("bundlerHealth", "bundler", m, a >= 13)
  <2>1. Health("bundlerHealth", "bundler", metric, a - 1 >= 13)
    BY DEF Through
  <2>2. CASE a = 13
    <3>1. "bundler" \notin metric.answered /\ "bundlerHealth" \notin metric.failed
      BY <2>1, <2>2 DEF Health
    <3>2. QED
      BY <1>3, <2>2, <3>1 DEF Health
  <2>3. CASE a # 13
    <3>1. "bundler" \notin cards /\ "bundlerHealth" \notin lost
      BY <1>3, <2>3
    <3>2. a >= 13 <=> a - 1 >= 13
      BY <1>1, <2>3
    <3>3. QED
      BY <2>1, <3>1, <3>2 DEF Health
  <2>4. QED
    BY <2>2, <2>3
<1>6. QED
  BY <1>2, <1>4, <1>5 DEF Through

\* Every call settles its cards.
LEMMA GoOnSettles ==
    ASSUME MetricsInv, metric.of = AddressForMetrics, CallsInv(metric), MetricsGoOn
    PROVE  CallsInv(metric')
<1>1. metric \in MetricRecord /\ metric.at # 0
  BY DEF MetricsInv, MetricsTypeOK, MetricsGoOn, ReadBalance, ReadPricingCounters, ReadSettings,
         FetchGasPriceOfApi, CheckHealth, CallFails, At
<1> DEFINE a == metric.at
<1>2. a \in 1..13
  BY <1>1 DEF MetricRecord
\* The request goes on with what it has been told.
<1>3. ASSUME NEW m \in MetricRecord, metric' = Goto(m), NEW cards, NEW lost,
             m.at = metric.at, m.of = metric.of, m.threw = metric.threw,
             m.answered = metric.answered \cup cards, m.failed = metric.failed \cup lost,
             \/ /\ lost = {}
                /\ "paymasterApi" \in cards <=> metric.at = 12
                /\ "bundler" \in cards <=> metric.at = 13
             \/ cards = {} /\ lost = {Calls[metric.at]},
             Through(metric.at - 1, metric) =>
                 /\ Settled(Calls[metric.at], m)
                 /\ "paymasterServiceFeeBps" \in m.answered => m.settings # {}
      PROVE  CallsInv(metric')
  <2>1. CASE metric.threw \/ "config" \in metric.failed
    <3>1. metric'.threw \/ "config" \in metric'.failed
      BY <1>3, <2>1, GotoType
    <3>2. QED
      BY <3>1 DEF CallsInv
  <2>2. CASE ~metric.threw /\ "config" \notin metric.failed
    <3>1. Through(metric.at - 1, metric)
      BY <1>1, <2>2 DEF CallsInv
    <3>2. Through(m.at, m)
      BY <1>1, <1>3, <3>1, OneMore
    <3>3. QED
      BY <1>3, <3>2, GotoSettles
  <2>3. QED
    BY <2>1, <2>2
<1>4. a \in {1, 2, 3, 4, 5, 6, 7, 8, 9, 10, 11, 12, 13}
  BY <1>2
<1>5. ASSUME NEW call \in Balances \cup {"apiHealth", "bundlerHealth"},
             At(call), Asks(Goto(With(Gives[call])))
      PROVE  CallsInv(metric')
  <2>1. Gives[call] \in SUBSET CardNames /\ Calls[a] = call
    BY <1>5, GivesNoPrice DEF At
  <2>2. call \in Balances => GivenBy(call) \subseteq Gives[call] /\ a \notin {12, 13}
    BY <1>4, <2>1, CallsAre, GivesAre DEF GivenBy, Balances
  <2>3. /\ "paymasterApi" \in Gives[call] <=> a = 12
        /\ "bundler" \in Gives[call] <=> a = 13
        /\ "paymasterServiceFeeBps" \notin Gives[call]
    BY <1>4, <2>1, CallsAre, GivesAre DEF Balances
  <2>4. GivenBy(call) \subseteq Gives[call]
    BY <2>2 DEF GivenBy
  <2> DEFINE cards == Gives[call]
  <2> DEFINE m == [metric EXCEPT !.answered = @ \cup cards]
  <2>5. metric' = Goto(m)
    BY <1>5 DEF Asks, With
  <2> HIDE DEF cards
  <2>6. /\ m \in MetricRecord /\ m.at = metric.at /\ m.of = metric.of /\ m.threw = metric.threw
        /\ m.answered = metric.answered \cup cards /\ m.failed = metric.failed \cup {}
        /\ m.settings = metric.settings
    BY <1>1, <2>1 DEF MetricRecord, cards
  <2> HIDE DEF m
  <2>7. Settled(Calls[metric.at], m)
    BY <2>1, <2>4, <2>6 DEF Settled, Excused, cards
  <2>8. Through(metric.at - 1, metric) =>
            ("paymasterServiceFeeBps" \in m.answered => m.settings # {})
    BY <2>3, <2>6 DEF Through, cards
  <2>9. /\ "paymasterApi" \in cards <=> metric.at = 12
        /\ "bundler" \in cards <=> metric.at = 13
    BY <2>3 DEF cards
  <2>10. QED
    BY <1>3, <2>5, <2>6, <2>7, <2>8, <2>9
<1>6. CASE CallFails
  <2> DEFINE lost == {Calls[metric.at]}
  <2> DEFINE m == [metric EXCEPT !.failed = @ \cup lost]
  <2>1. lost \in SUBSET CallNames
    BY <1>2 DEF CallNames
  <2>2. metric' = Goto(m)
    BY <1>6 DEF CallFails, Asks
  <2> HIDE DEF lost
  <2>3. /\ m \in MetricRecord /\ m.at = metric.at /\ m.of = metric.of /\ m.threw = metric.threw
        /\ m.answered = metric.answered \cup {} /\ m.failed = metric.failed \cup lost
        /\ m.settings = metric.settings
    BY <1>1, <2>1 DEF MetricRecord
  <2> HIDE DEF m
  <2>4. Settled(Calls[metric.at], m)
    <3>1. \A card \in GivenBy(Calls[a]) : Calls[a] \in MadeOf(card) /\ Calls[a] \in m.failed
      BY <1>2, <2>3, GivenMadeOf DEF lost
    <3>2. QED
      BY <3>1 DEF Settled, Excused
  <2>5. Through(metric.at - 1, metric) =>
            ("paymasterServiceFeeBps" \in m.answered => m.settings # {})
    BY <2>3 DEF Through
  <2>6. {} = {} /\ lost = {Calls[metric.at]}
    BY DEF lost
  <2>7. QED
    BY <1>3, <2>2, <2>3, <2>4, <2>5, <2>6
<1>7. CASE ReadPricingCounters
  <2> DEFINE cards == Gives.counters
  <2> DEFINE with == [metric EXCEPT !.answered = @ \cup cards]
  <2> DEFINE m == [with EXCEPT !.counters = counters[metric.of]]
  <2>1. /\ metric' = Goto(m) /\ Calls[a] = "counters"
    BY <1>7 DEF ReadPricingCounters, Asks, With, At
  <2>2. a = 9
    BY <1>4, <2>1, CallsAre
  <2>3. counters[metric.of] \in CountersRecord
    BY <1>1, <2>1 DEF MetricsInv, MetricsTypeOK, AtInv, Made, MetricRecord
  <2>4. cards \in SUBSET CardNames /\ GivenBy("counters") \subseteq cards
        /\ cards \cap {"paymasterApi", "bundler", "paymasterServiceFeeBps"} = {}
    BY GivesCounters, GivesAre DEF GivenBy
  <2> HIDE DEF cards
  <2>5. /\ with \in MetricRecord /\ with.at = metric.at /\ with.of = metric.of
        /\ with.threw = metric.threw /\ with.failed = metric.failed
        /\ with.settings = metric.settings /\ with.answered = metric.answered \cup cards
    BY <1>1, <2>4 DEF MetricRecord
  <2> HIDE DEF with
  <2>6. /\ m \in MetricRecord /\ m.at = metric.at /\ m.of = metric.of /\ m.threw = metric.threw
        /\ m.answered = metric.answered \cup cards /\ m.failed = metric.failed \cup {}
        /\ m.settings = metric.settings
    BY <2>3, <2>5 DEF MetricRecord
  <2> HIDE DEF m
  <2>7. Settled(Calls[metric.at], m)
    BY <2>1, <2>4, <2>6 DEF Settled, Excused
  <2>8. Through(metric.at - 1, metric) =>
            ("paymasterServiceFeeBps" \in m.answered => m.settings # {})
    BY <2>4, <2>6 DEF Through
  <2>9. /\ "paymasterApi" \in cards <=> metric.at = 12
        /\ "bundler" \in cards <=> metric.at = 13
    BY <2>2, <2>4
  <2>10. QED
    BY <1>3, <2>1, <2>6, <2>7, <2>8, <2>9
<1>8. CASE ReadSettings
  <2>1. Calls[a] = "settings"
    BY <1>8 DEF ReadSettings, At
  <2>2. a = 10
    BY <1>4, <2>1, CallsAre
  <2>3. CASE ~setting.numbers
    <3>1. metric' = [metric EXCEPT !.at = 0, !.threw = TRUE]
      BY <1>8, <2>3 DEF ReadSettings, Asks
    <3>2. metric'.threw
      BY <1>1, <3>1 DEF MetricRecord
    <3>3. QED
      BY <3>2 DEF CallsInv
  <2>4. CASE setting.numbers
    <3> DEFINE cards == {"paymasterAmplifierBps"} \cup
                        (IF setting.hasServiceFee THEN {"paymasterServiceFeeBps"} ELSE {})
    <3> DEFINE with == [metric EXCEPT !.answered = @ \cup cards]
    <3> DEFINE m == [with EXCEPT !.settings = {setting}]
    <3>1. metric' = Goto(m)
      BY <1>8, <2>4 DEF ReadSettings, Asks, With
    <3>2. cards \in SUBSET CardNames /\ cards \cap {"paymasterApi", "bundler"} = {}
      BY DEF CardNames, SponsorPricing
    <3>3. \A card \in GivenBy("settings") : card \in cards \/ Unset(card)
      BY DEF GivenBy, Unset
    <3>4. setting \in Setting
      BY DEF MetricsInv, MetricsTypeOK
    <3> HIDE DEF cards
    <3>5. /\ with \in MetricRecord /\ with.at = metric.at /\ with.of = metric.of
          /\ with.threw = metric.threw /\ with.failed = metric.failed
          /\ with.answered = metric.answered \cup cards
      BY <1>1, <3>2 DEF MetricRecord
    <3> HIDE DEF with
    <3>6. /\ m \in MetricRecord /\ m.at = metric.at /\ m.of = metric.of /\ m.threw = metric.threw
          /\ m.answered = metric.answered \cup cards /\ m.failed = metric.failed \cup {}
          /\ m.settings = {setting}
      BY <3>4, <3>5 DEF MetricRecord
    <3> HIDE DEF m
    <3>7. Settled(Calls[metric.at], m)
      BY <2>1, <3>3, <3>6 DEF Settled, Excused
    <3>8. "paymasterServiceFeeBps" \in m.answered => m.settings # {}
      BY <3>6
    <3>9. /\ "paymasterApi" \in cards <=> metric.at = 12
          /\ "bundler" \in cards <=> metric.at = 13
      BY <2>2, <3>2
    <3>10. QED
      BY <1>3, <3>1, <3>6, <3>7, <3>8, <3>9
  <2>5. QED
    BY <2>3, <2>4
<1>9. CASE FetchGasPriceOfApi
  <2>1. Calls[a] = "gas"
    BY <1>9 DEF FetchGasPriceOfApi, At
  <2>2. a = 11
    BY <1>4, <2>1, CallsAre
  <2>3. ASSUME NEW m \in MetricRecord, metric' = Goto(m), NEW cards \in SUBSET CardNames,
               m.at = metric.at, m.of = metric.of, m.threw = metric.threw,
               m.answered = metric.answered \cup cards, m.failed = metric.failed,
               m.settings = metric.settings, "gasPriceWei" \in cards,
               cards \subseteq {"gasPriceWei", "paymasterUsdcPerGas"},
               Through(10, metric) => Excused("paymasterUsdcPerGas", m.answered, m.failed)
        PROVE  CallsInv(metric')
    <3>1. Through(metric.at - 1, metric) =>
              /\ Settled(Calls[metric.at], m)
              /\ "paymasterServiceFeeBps" \in m.answered => m.settings # {}
      <4>1. Through(10, metric) =>
                ("paymasterServiceFeeBps" \in m.answered => m.settings # {})
        BY <2>3 DEF Through
      <4>2. \A card \in GivenBy("gas") : card \in cards \/ card = "paymasterUsdcPerGas"
        BY <2>3 DEF GivenBy
      <4>3. \A card \in cards : Excused(card, m.answered, m.failed)
        BY <2>3 DEF Excused
      <4>4. Through(10, metric) => Settled("gas", m)
        BY <2>3, <4>2, <4>3 DEF Settled
      <4>5. metric.at - 1 = 10
        BY <2>2
      <4>6. QED
        BY <2>1, <4>1, <4>4, <4>5
    <3>2. /\ "paymasterApi" \in cards <=> metric.at = 12
          /\ "bundler" \in cards <=> metric.at = 13
      BY <2>2, <2>3
    <3>3. m.failed = metric.failed \cup {}
      BY <2>3
    <3>4. QED
      BY <1>3, <2>3, <3>1, <3>2, <3>3
  <2>4. CASE PerGas(nodePrice) = {}
    <3> DEFINE cards == {"gasPriceWei"}
    <3> DEFINE m == [metric EXCEPT !.answered = @ \cup cards]
    <3>1. metric' = Goto(m)
      BY <1>9, <2>4 DEF FetchGasPriceOfApi, Asks, With
    <3>2. cards \in SUBSET CardNames /\ "gasPriceWei" \in cards
          /\ cards \subseteq {"gasPriceWei", "paymasterUsdcPerGas"}
      BY DEF CardNames, ChainGas
    <3>3. "paymasterServiceFeeBps" \notin metric.answered \/ metric.settings = {}
      BY <2>4 DEF PerGas
    <3> HIDE DEF cards
    <3>4. /\ m \in MetricRecord /\ m.at = metric.at /\ m.of = metric.of /\ m.threw = metric.threw
          /\ m.answered = metric.answered \cup cards /\ m.failed = metric.failed
          /\ m.settings = metric.settings
      BY <1>1, <3>2 DEF MetricRecord
    <3> HIDE DEF m
    <3>5. Through(10, metric) => Excused("paymasterUsdcPerGas", m.answered, m.failed)
      <4>1. SUFFICES ASSUME Through(10, metric)
                     PROVE  Excused("paymasterUsdcPerGas", m.answered, m.failed)
        OBVIOUS
      <4>2. "paymasterServiceFeeBps" \notin metric.answered
        BY <3>3, <4>1 DEF Through
      <4>3. 10 \in 1..10
        OBVIOUS
      <4>4. Settled("settings", metric)
        BY <4>1, <4>3, CallsAre DEF Through
      <4>5. Excused("paymasterServiceFeeBps", metric.answered, metric.failed)
        BY <4>4 DEF Settled, GivenBy
      <4>6. MadeOf("paymasterServiceFeeBps") = {"settings"}
            /\ MadeOf("paymasterUsdcPerGas") = {"settings", "gas"}
        BY DEF MadeOf
      <4>7. "settings" \in metric.failed \/ ~setting.hasServiceFee
        BY <4>2, <4>5, <4>6 DEF Excused, Unset
      <4>8. QED
        BY <3>4, <4>6, <4>7 DEF Excused, Unset
    <3>6. QED
      BY <2>3, <3>1, <3>2, <3>4, <3>5
  <2>5. CASE PerGas(nodePrice) # {}
    <3> DEFINE cards == {"gasPriceWei", "paymasterUsdcPerGas"}
    <3> DEFINE with == [metric EXCEPT !.answered = @ \cup cards]
    <3>1. PICK price \in PerGas(nodePrice) : metric' = Goto([with EXCEPT !.perGas = price])
      BY <1>9, <2>5 DEF FetchGasPriceOfApi, Asks, With
    <3> DEFINE m == [with EXCEPT !.perGas = price]
    <3>2. PICK s \in metric.settings : price = PriceOf(metric.counters, s, nodePrice)
      BY <3>1 DEF PerGas, PriceOf
    <3>3. price \in Nat
      BY <1>1, <3>2, PriceOfNat DEF MetricsInv, MetricsTypeOK, MetricRecord
    <3>4. cards \in SUBSET CardNames /\ "gasPriceWei" \in cards
          /\ cards \subseteq {"gasPriceWei", "paymasterUsdcPerGas"}
          /\ "paymasterUsdcPerGas" \in cards
      BY DEF CardNames, ChainGas, SponsorPricing
    <3> HIDE DEF cards
    <3>5. /\ with \in MetricRecord /\ with.at = metric.at /\ with.of = metric.of
          /\ with.threw = metric.threw /\ with.failed = metric.failed
          /\ with.settings = metric.settings /\ with.answered = metric.answered \cup cards
      BY <1>1, <3>4 DEF MetricRecord
    <3> HIDE DEF with
    <3>6. /\ m \in MetricRecord /\ m.at = metric.at /\ m.of = metric.of /\ m.threw = metric.threw
          /\ m.answered = metric.answered \cup cards /\ m.failed = metric.failed
          /\ m.settings = metric.settings
      BY <3>3, <3>5 DEF MetricRecord
    <3>7. metric' = Goto(m)
      BY <3>1
    <3> HIDE DEF m
    <3>8. Excused("paymasterUsdcPerGas", m.answered, m.failed)
      BY <3>4, <3>6 DEF Excused
    <3>9. QED
      BY <2>3, <3>4, <3>6, <3>7, <3>8
  <2>6. QED
    BY <2>4, <2>5
<1>10. CASE ReadBalance
  BY <1>5, <1>10 DEF ReadBalance
<1>11. CASE CheckHealth
  BY <1>5, <1>11 DEF CheckHealth
<1>12. QED
  BY <1>6, <1>7, <1>8, <1>9, <1>10, <1>11 DEF MetricsGoOn
\* What is said of a request stays true while the world stands still.
LEMMA SameWorld ==
    ASSUME UNCHANGED <<place, keys, setting>>, CallsInv(metric')
    PROVE  CallsInv(metric)'
<1>1. \A card : Unset(card)' <=> Unset(card)
  BY DEF Unset, AddressForMetrics, Prefer, FromApi
<1>2. ASSUME NEW call, Settled(call, metric') PROVE Settled(call, metric)'
  BY <1>1, <1>2 DEF Settled, Excused
<1>3. QED
  BY <1>2 DEF CallsInv, Through, Health

LEMMA SoftStays ==
    ASSUME FailSoft, UNCHANGED <<place, keys, setting, page>>
    PROVE  FailSoft'
<1>1. \A card : Unset(card)' <=> Unset(card)
  BY DEF Unset, AddressForMetrics, Prefer, FromApi
<1>2. QED
  BY <1>1 DEF FailSoft, AllSystemsOperational

\* The request begins, or cannot.
LEMMA LoadSettles ==
    ASSUME MetricsInv, LoadDashboardConfig
    PROVE  CallsInv(metric') /\ (metric'.at # 0 => metric'.of = AddressForMetrics)
<1>1. /\ NoMetric \in MetricRecord /\ NoMetric.at = 0 /\ NoMetric.answered = {}
      /\ NoMetric.settings = {} /\ NoMetric.failed = {}
  <2>1. NoCounters \in CountersRecord
    BY DEF NoCounters, CountersRecord
  <2>2. QED
    BY <2>1 DEF NoMetric, MetricRecord
<1>2. AddressForMetrics \in Paymasters \cup {"none"}
  BY DEF MetricsInv, MetricsTypeOK, Place, AddressForMetrics, Prefer, FromApi
<1>3. CASE metric' = Goto([NoMetric EXCEPT !.of = AddressForMetrics])
  <2> DEFINE m == [NoMetric EXCEPT !.of = AddressForMetrics]
  <2>1. /\ m \in MetricRecord /\ m.of = AddressForMetrics /\ m.at = 0 /\ m.answered = {}
        /\ m.settings = {} /\ m.failed = {}
    BY <1>1, <1>2 DEF MetricRecord
  <2>2. metric' = Goto(m)
    BY <1>3
  <2> HIDE DEF m
  <2>3. Through(m.at, m)
    BY <2>1 DEF Through, Health
  <2>4. QED
    BY <2>1, <2>2, <2>3, GotoSettles, GotoType
<1>4. CASE metric' = [NoMetric EXCEPT !.failed = {"config"}]
  <2>1. metric'.at = 0 /\ "config" \in metric'.failed
    BY <1>1, <1>4 DEF MetricRecord
  <2>2. QED
    BY <2>1 DEF CallsInv
<1>5. QED
  BY <1>3, <1>4 DEF LoadDashboardConfig, Asks

\* Of which paymaster a request is does not change while it is under way.
LEMMA GoOnKeepsOf ==
    ASSUME MetricsInv, MetricsGoOn
    PROVE  metric'.of = metric.of
<1>1. metric \in MetricRecord /\ metric.at # 0 /\ metric.at \in 1..13
  BY DEF MetricsInv, MetricsTypeOK, MetricsGoOn, ReadBalance, ReadPricingCounters, ReadSettings,
         FetchGasPriceOfApi, CheckHealth, CallFails, At, MetricRecord
<1>2. ASSUME NEW m \in MetricRecord, m.of = metric.of, metric' = Goto(m)
      PROVE  metric'.of = metric.of
  BY <1>2, GotoType
<1>3. ASSUME NEW cards \in SUBSET CardNames
      PROVE  With(cards) \in MetricRecord /\ With(cards).of = metric.of
  BY <1>1, <1>3 DEF With, MetricRecord
<1>4. CASE ReadBalance \/ CheckHealth
  <2>1. PICK call \in Balances \cup {"apiHealth", "bundlerHealth"} :
            metric' = Goto(With(Gives[call]))
    BY <1>4 DEF ReadBalance, CheckHealth, Asks
  <2>2. Gives[call] \in SUBSET CardNames
    BY GivesNoPrice
  <2>3. QED
    BY <1>2, <1>3, <2>1, <2>2
<1>5. CASE CallFails
  <2> DEFINE m == [metric EXCEPT !.failed = @ \cup {Calls[metric.at]}]
  <2>1. m \in MetricRecord /\ m.of = metric.of
    BY <1>1 DEF MetricRecord, CallNames
  <2>2. metric' = Goto(m)
    BY <1>5 DEF CallFails, Asks
  <2> HIDE DEF m
  <2>3. QED
    BY <1>2, <2>1, <2>2
<1>6. CASE ReadPricingCounters
  <2> DEFINE m == [With(Gives.counters) EXCEPT !.counters = counters[metric.of]]
  <2>1. metric' = Goto(m) /\ Calls[metric.at] = "counters"
    BY <1>6 DEF ReadPricingCounters, Asks, At
  <2>2. counters[metric.of] \in CountersRecord
    BY <1>1, <2>1 DEF MetricsInv, MetricsTypeOK, AtInv, Made, MetricRecord
  <2>3. With(Gives.counters) \in MetricRecord /\ With(Gives.counters).of = metric.of
    BY <1>3, GivesCounters
  <2>4. m \in MetricRecord /\ m.of = metric.of
    BY <2>2, <2>3 DEF MetricRecord
  <2> HIDE DEF m
  <2>5. QED
    BY <1>2, <2>1, <2>4
<1>7. CASE ReadSettings
  <2> DEFINE cards == {"paymasterAmplifierBps"} \cup
                      (IF setting.hasServiceFee THEN {"paymasterServiceFeeBps"} ELSE {})
  <2> DEFINE m == [With(cards) EXCEPT !.settings = {setting}]
  <2>1. metric' = Goto(m) \/ metric' = [metric EXCEPT !.at = 0, !.threw = TRUE]
    BY <1>7 DEF ReadSettings, Asks
  <2>2. cards \in SUBSET CardNames
    BY DEF CardNames, SponsorPricing
  <2> HIDE DEF cards
  <2>3. With(cards) \in MetricRecord /\ With(cards).of = metric.of
    BY <1>3, <2>2
  <2>4. m \in MetricRecord /\ m.of = metric.of
    BY <2>3 DEF MetricRecord, MetricsInv, MetricsTypeOK
  <2> HIDE DEF m
  <2>5. CASE metric' = Goto(m)
    BY <1>2, <2>4, <2>5
  <2>6. CASE metric' = [metric EXCEPT !.at = 0, !.threw = TRUE]
    BY <1>1, <2>6 DEF MetricRecord
  <2>7. QED
    BY <2>1, <2>5, <2>6
<1>8. CASE FetchGasPriceOfApi
  <2>1. CASE metric' = Goto(With({"gasPriceWei"}))
    <3>1. {"gasPriceWei"} \in SUBSET CardNames
      BY DEF CardNames, ChainGas
    <3>2. QED
      BY <1>2, <1>3, <2>1, <3>1
  <2>2. ASSUME NEW price \in PerGas(nodePrice),
               metric' = Goto([With({"gasPriceWei", "paymasterUsdcPerGas"}) EXCEPT !.perGas = price])
        PROVE  metric'.of = metric.of
    <3> DEFINE with == With({"gasPriceWei", "paymasterUsdcPerGas"})
    <3> DEFINE m == [with EXCEPT !.perGas = price]
    <3>1. {"gasPriceWei", "paymasterUsdcPerGas"} \in SUBSET CardNames
      BY DEF CardNames, ChainGas, SponsorPricing
    <3>2. with \in MetricRecord /\ with.of = metric.of
      BY <1>3, <3>1
    <3>3. PICK s \in metric.settings : price = PriceOf(metric.counters, s, nodePrice)
      BY DEF PerGas, PriceOf
    <3>4. price \in Nat
      BY <1>1, <3>3, PriceOfNat DEF MetricsInv, MetricsTypeOK, MetricRecord
    <3>5. metric' = Goto(m)
      BY <2>2
    <3> HIDE DEF with
    <3>6. m \in MetricRecord /\ m.of = metric.of
      BY <3>2, <3>4 DEF MetricRecord
    <3> HIDE DEF m
    <3>7. QED
      BY <1>2, <3>5, <3>6
  <2>3. QED
    BY <1>8, <2>1, <2>2 DEF FetchGasPriceOfApi, Asks
<1>9. QED
  BY <1>4, <1>5, <1>6, <1>7, <1>8 DEF MetricsGoOn

\* What a request that is over answers, the page explains.
LEMMA AnswerExplained ==
    ASSUME CallsInv(metric), metric.at = 0, ~metric.threw, "config" \notin metric.failed
    PROVE  /\ \A card \in Treasury \cup ChainGas \cup SponsorPricing \cup BundlerWallets :
                  Excused(card, metric.answered, metric.failed)
           /\ {"paymasterApi", "bundler"} \subseteq metric.answered
                  <=> {"apiHealth", "bundlerHealth"} \cap metric.failed = {}
<1>1. Through(13, metric)
  BY DEF CallsInv
<1>2. ASSUME NEW card \in Treasury \cup ChainGas \cup SponsorPricing \cup BundlerWallets
      PROVE  Excused(card, metric.answered, metric.failed)
  <2>1. PICK i \in 1..13 : card \in GivenBy(Calls[i])
    BY CallOfCard
  <2>2. QED
    BY <1>1, <2>1 DEF Through, Settled
<1>3. /\ "paymasterApi" \in metric.answered <=> "apiHealth" \notin metric.failed
      /\ "bundler" \in metric.answered <=> "bundlerHealth" \notin metric.failed
  BY <1>1 DEF Through, Health
<1>4. QED
  BY <1>2, <1>3
\* A step of the desk, as the page sees it.
PageMoves ==
    \/ UNCHANGED <<metric, overviewVars>>
    \/ UNCHANGED overviewVars /\ MetricsGoOn
    \/ OverviewStep

LEMMA OverviewPart ==
    ASSUME scene \in Scenes, Next \/ UNCHANGED deskVars
    PROVE  /\ place' = place
           /\ ~Has("overview") => UNCHANGED overviewVars
           /\ Has("overview") => PageMoves /\ UNCHANGED <<place, keys, setting>>
<1>1. ASSUME NEW part, part \notin {"metrics", "overview"}, Only(part)
      PROVE  UNCHANGED <<overviewVars, place, keys, setting, metric>>
  BY <1>1 DEF Only, metricsVars
<1>2. CASE \E r \in Requests : Received(r) \/ FundAnswered(r) \/ GivenUp(r)
  BY <1>1, <1>2 DEF Received, FundAnswered, GivenUp, PageMoves, metricsVars
<1>3. CASE Only("metrics") /\ MetricsGoOn
  <2>1. UNCHANGED <<overviewVars, place>>
    BY <1>3 DEF Only
  <2>2. UNCHANGED <<keys, setting>>
    BY <1>3 DEF MetricsGoOn, ReadBalance, ReadPricingCounters, ReadSettings, FetchGasPriceOfApi,
                CheckHealth, CallFails, Asks
  <2>3. QED
    BY <1>3, <2>1, <2>2 DEF PageMoves
<1>4. CASE Only("metrics") /\ Has("metrics")
  <2>1. UNCHANGED <<overviewVars, place>>
    BY <1>4 DEF Only
  <2>2. ~Has("overview")
    BY <1>4, CardsAssumption DEF Has
  <2>3. QED
    BY <2>1, <2>2
<1>5. CASE Has("overview") /\ Only("overview") /\ OverviewStep
  <2>1. place' = place
    BY <1>5 DEF Only
  <2>2. UNCHANGED <<keys, setting>>
    BY <1>5 DEF OverviewStep, PollMetrics, TakeMetrics, AnswerLost, Refused, Logout, Leave,
                ChooseGroup, SignIn, SessionExpires, metricsVars, LoadDashboardConfig, Asks
  <2>3. QED
    BY <1>5, <2>1, <2>2 DEF PageMoves
<1>6. CASE \E part \in {"chain", "panel", "tables", "rows", "caps"} : Only(part)
  BY <1>1, <1>6 DEF PageMoves
<1>7. CASE UNCHANGED deskVars
  BY <1>7 DEF deskVars, metricsVars, PageMoves
<1>8. QED
  BY <1>2, <1>3, <1>4, <1>5, <1>6, <1>7 DEF Next

\* A field of the page changes, and the others do not.
LEMMA PageField ==
    ASSUME OverviewTypeOK
    PROVE  /\ \A d : [page EXCEPT !.due = d]
                        = [view |-> page.view, due |-> d, cards |-> page.cards,
                           group |-> page.group, failed |-> page.failed]
           /\ \A g : [page EXCEPT !.group = g]
                        = [view |-> page.view, due |-> page.due, cards |-> page.cards,
                           group |-> g, failed |-> page.failed]
           /\ Failed = [view |-> "failed", due |-> "none", cards |-> page.cards,
                        group |-> "none", failed |-> page.failed]
<1>1. PICK v, e, c, h, f : page = [view |-> v, due |-> e, cards |-> c, group |-> h, failed |-> f]
  BY DEF OverviewTypeOK
<1>2. page.view = v /\ page.due = e /\ page.cards = c /\ page.group = h /\ page.failed = f
  BY <1>1
<1>3. ASSUME NEW d PROVE [page EXCEPT !.due = d]
                             = [view |-> v, due |-> d, cards |-> c, group |-> h, failed |-> f]
  BY <1>1
<1>4. ASSUME NEW g PROVE [page EXCEPT !.group = g]
                             = [view |-> v, due |-> e, cards |-> c, group |-> g, failed |-> f]
  BY <1>1
<1>5. Failed = [view |-> "failed", due |-> "none", cards |-> c, group |-> "none", failed |-> f]
  <2> DEFINE p == [page EXCEPT !.view = "failed"]
  <2> DEFINE q == [p EXCEPT !.due = "none"]
  <2>1. p = [view |-> "failed", due |-> e, cards |-> c, group |-> h, failed |-> f]
    BY <1>1
  <2> HIDE DEF p
  <2>2. q = [view |-> "failed", due |-> "none", cards |-> c, group |-> h, failed |-> f]
    BY <2>1
  <2> HIDE DEF q
  <2>3. [q EXCEPT !.group = "none"]
            = [view |-> "failed", due |-> "none", cards |-> c, group |-> "none", failed |-> f]
    BY <2>2
  <2>4. QED
    BY <2>3 DEF Failed, p, q
<1>6. QED
  BY <1>2, <1>3, <1>4, <1>5

LEMMA PollPage ==
    ASSUME MetricsInv, OverviewTypeOK, ChosenInv, SoftInv, PollMetrics,
           UNCHANGED <<place, keys, setting>>
    PROVE  OverviewTypeOK' /\ ChosenInv' /\ SoftInv'
<1>1. PICK d \in {"answer", "refusal"} :
          /\ page' = [page EXCEPT !.due = d]
          /\ d = "answer" => LoadDashboardConfig
          /\ d = "refusal" => UNCHANGED metricsVars
  BY DEF PollMetrics
<1>2. page' = [view |-> page.view, due |-> d, cards |-> page.cards,
               group |-> page.group, failed |-> page.failed]
  BY <1>1, PageField
<1>3. /\ page'.view = page.view /\ page'.due = d /\ page'.cards = page.cards
      /\ page'.group = page.group /\ page'.failed = page.failed
  BY <1>2
<1>4. OverviewTypeOK'
  BY <1>2, <1>3 DEF OverviewTypeOK
<1>5. ChosenInv'
  BY <1>3 DEF ChosenInv, PollMetrics
<1>6. FailSoft'
  <2>1. \A card : Unset(card)' <=> Unset(card)
    BY DEF Unset, AddressForMetrics, Prefer, FromApi
  <2>2. QED
    BY <1>3, <2>1 DEF SoftInv, FailSoft, AllSystemsOperational
<1>7. AddressForMetrics' = AddressForMetrics
  BY DEF AddressForMetrics, Prefer, FromApi
<1>8. CASE d = "answer"
  <2>1. CallsInv(metric') /\ (metric'.at # 0 => metric'.of = AddressForMetrics)
    BY <1>1, <1>8, LoadSettles
  <2>2. QED
    BY <1>4, <1>5, <1>6, <1>7, <2>1, SameWorld DEF SoftInv
<1>9. CASE d = "refusal"
  <2>1. metric' = metric
    BY <1>1, <1>9 DEF metricsVars
  <2>2. metric.at # 0 => CallsInv(metric)'
    BY <2>1, SameWorld DEF SoftInv
  <2>3. QED
    BY <1>3, <1>4, <1>5, <1>6, <1>7, <1>9, <2>1, <2>2 DEF SoftInv
<1>10. QED
  BY <1>8, <1>9

LEMMA TakePage ==
    ASSUME OverviewTypeOK, ChosenInv, SoftInv, TakeMetrics, UNCHANGED <<place, keys, setting>>
    PROVE  OverviewTypeOK' /\ ChosenInv' /\ SoftInv'
<1>1. page.due = "answer" /\ metric.at = 0 /\ metric' = metric
  BY DEF TakeMetrics, metricsVars
<1>2. CallsInv(metric)
  BY <1>1 DEF SoftInv
<1>3. ASSUME page'.due = "none", FailSoft' PROVE SoftInv'
  BY <1>1, <1>3 DEF SoftInv
<1>4. CASE metric.threw
  <2>1. page' = Failed /\ chosen' = "none"
    BY <1>4 DEF TakeMetrics
  <2>2. page' = [view |-> "failed", due |-> "none", cards |-> page.cards,
                 group |-> "none", failed |-> page.failed]
    BY <2>1, PageField
  <2>3. OverviewTypeOK' /\ page'.view = "failed" /\ page'.due = "none"
    BY <2>2 DEF OverviewTypeOK
  <2>4. ChosenInv' /\ FailSoft'
    BY <2>1, <2>3 DEF ChosenInv, FailSoft
  <2>5. QED
    BY <1>3, <2>3, <2>4
<1>5. CASE ~metric.threw
  <2>1. /\ page' = [view |-> "shown", due |-> "none", cards |-> metric.answered,
                    group |-> HeroGroup(page.group, metric.answered),
                    failed |-> metric.failed]
        /\ chosen' = IF chosen \in Range(MetricGroups(metric.answered))
                            \/ MetricGroups(metric.answered) = <<>>
                     THEN chosen ELSE "none"
    BY <1>5 DEF TakeMetrics
  <2>2. /\ page'.view = "shown" /\ page'.due = "none" /\ page'.cards = metric.answered
        /\ page'.group = HeroGroup(page.group, metric.answered)
        /\ page'.failed = metric.failed
    BY <2>1
  <2>3. OverviewTypeOK'
    BY <2>1, <2>2 DEF OverviewTypeOK
  <2>4. ChosenInv'
    <3>1. SUFFICES ASSUME chosen' # "none" PROVE page'.group = chosen'
      BY <2>2 DEF ChosenInv
    <3>2. /\ chosen' = chosen /\ chosen # "none"
          /\ \/ chosen \in Range(MetricGroups(metric.answered))
             \/ MetricGroups(metric.answered) = <<>>
      BY <2>1, <3>1
    <3>3. page.group = chosen
      BY <3>2 DEF ChosenInv
    <3>4. HeroGroup(page.group, metric.answered) = page.group
      BY <3>2, <3>3 DEF HeroGroup
    <3>5. QED
      BY <2>2, <3>2, <3>3, <3>4
  <2>5. FailSoft'
    <3>1. SUFFICES ASSUME "config" \notin metric.failed PROVE FailSoft'
      BY <2>2 DEF FailSoft
    <3>2. /\ \A card \in Treasury \cup ChainGas \cup SponsorPricing \cup BundlerWallets :
                 Excused(card, metric.answered, metric.failed)
          /\ {"paymasterApi", "bundler"} \subseteq metric.answered
                 <=> {"apiHealth", "bundlerHealth"} \cap metric.failed = {}
      BY <1>1, <1>2, <1>5, <3>1, AnswerExplained
    <3>3. \A card : Unset(card)' <=> Unset(card)
      BY DEF Unset, AddressForMetrics, Prefer, FromApi
    <3>4. \A card \in Treasury \cup ChainGas \cup SponsorPricing \cup BundlerWallets :
              card \in page'.cards \/ MadeOf(card) \cap page'.failed # {} \/ Unset(card)'
      BY <2>2, <3>2, <3>3 DEF Excused
    <3>5. AllSystemsOperational' <=> {"apiHealth", "bundlerHealth"} \cap page'.failed = {}
      BY <2>2, <3>2 DEF AllSystemsOperational
    <3>6. QED
      BY <3>4, <3>5 DEF FailSoft
  <2>6. QED
    BY <1>3, <2>2, <2>3, <2>4, <2>5
<1>6. QED
  BY <1>4, <1>5

\* The page goes away, or another group is looked at.
LEMMA OtherPage ==
    ASSUME OverviewTypeOK, ChosenInv, SoftInv, UNCHANGED <<place, keys, setting>>,
           \/ AnswerLost \/ Refused \/ Logout \/ SignIn \/ SessionExpires
           \/ \E g \in Range(Groups) : ChooseGroup(g)
    PROVE  OverviewTypeOK' /\ ChosenInv' /\ SoftInv'
<1>1. metric' = metric
  BY DEF AnswerLost, Refused, Logout, Leave, SignIn, SessionExpires, ChooseGroup, metricsVars
<1>2. AddressForMetrics' = AddressForMetrics
  BY DEF AddressForMetrics, Prefer, FromApi
<1>3. ASSUME FailSoft', page'.due = "answer" => page.due = "answer" PROVE SoftInv'
  BY <1>1, <1>2, <1>3, SameWorld DEF SoftInv
<1>4. ASSUME OverviewTypeOK', page'.view # "shown", page'.due = "none", chosen' = "none"
      PROVE  OverviewTypeOK' /\ ChosenInv' /\ SoftInv'
  BY <1>3, <1>4 DEF ChosenInv, FailSoft
<1>5. CASE AnswerLost
  <2>1. page' = [view |-> "failed", due |-> "none", cards |-> page.cards,
                 group |-> "none", failed |-> page.failed]
    BY <1>5, PageField DEF AnswerLost
  <2>2. OverviewTypeOK' /\ page'.view = "failed" /\ page'.due = "none"
    BY <2>1 DEF OverviewTypeOK
  <2>3. QED
    BY <1>4, <1>5, <2>2 DEF AnswerLost
<1>6. CASE Leave
  <2>1. page' = [view |-> "login", due |-> "none", cards |-> {}, group |-> "none", failed |-> {}]
    BY <1>6 DEF Leave, NoPage
  <2>2. OverviewTypeOK' /\ page'.view = "login" /\ page'.due = "none"
    BY <2>1 DEF OverviewTypeOK
  <2>3. QED
    BY <1>4, <1>6, <2>2 DEF Leave
<1>7. CASE SignIn
  <2>1. page' = [view |-> "loading", due |-> "none", cards |-> {}, group |-> "none", failed |-> {}]
    BY <1>7 DEF SignIn, NoPage
  <2>2. OverviewTypeOK' /\ page'.view = "loading" /\ page'.due = "none"
    BY <2>1 DEF OverviewTypeOK
  <2>3. chosen = "none" /\ chosen' = chosen
    BY <1>7 DEF SignIn, ChosenInv
  <2>4. QED
    BY <1>4, <2>2, <2>3
<1>8. CASE SessionExpires
  <2>1. page' = page /\ chosen' = chosen
    BY <1>8 DEF SessionExpires
  <2>2. FailSoft'
    BY <2>1, SoftStays DEF SoftInv
  <2>3. OverviewTypeOK' /\ ChosenInv'
    BY <2>1 DEF OverviewTypeOK, ChosenInv
  <2>4. QED
    BY <1>3, <2>1, <2>2, <2>3
<1>9. ASSUME NEW g, ChooseGroup(g) PROVE OverviewTypeOK' /\ ChosenInv' /\ SoftInv'
  <2>1. page' = [view |-> page.view, due |-> page.due, cards |-> page.cards,
                 group |-> g, failed |-> page.failed]
    BY <1>9, PageField DEF ChooseGroup
  <2>2. /\ page'.view = page.view /\ page'.due = page.due /\ page'.cards = page.cards
        /\ page'.group = g /\ page'.failed = page.failed
    BY <2>1
  <2>3. OverviewTypeOK'
    BY <2>1, <2>2 DEF OverviewTypeOK
  <2>4. ChosenInv'
    BY <1>9, <2>2 DEF ChosenInv, ChooseGroup
  <2>5. FailSoft'
    <3>1. \A card : Unset(card)' <=> Unset(card)
      BY DEF Unset, AddressForMetrics, Prefer, FromApi
    <3>2. QED
      BY <2>2, <3>1 DEF SoftInv, FailSoft, AllSystemsOperational
  <2>6. QED
    BY <1>3, <2>2, <2>3, <2>4, <2>5
<1>10. QED
  BY <1>5, <1>6, <1>7, <1>8, <1>9 DEF Refused, Logout

\* A card that is not on the page is made of a call that failed or is not set up; and
\* the operator keeps looking at the group that was chosen.
THEOREM OverviewCorrect == Spec => []OverviewExplained
<1> DEFINE Inv == scene \in Scenes /\ MetricsInv /\ OverviewInv
<1>1. Init => Inv
  <2> SUFFICES ASSUME Init PROVE Inv
    OBVIOUS
  <2>1. MetricsInv
    BY MetricsInitInv DEF Init
  <2>2. page = [view |-> "loading", due |-> "none", cards |-> {}, group |-> "none", failed |-> {}]
        /\ page = NoPage /\ chosen = "none"
    BY DEF Init, OverviewInit, NoPage
  <2>3. page.view = "loading" /\ page.due = "none"
    BY <2>2
  <2>4. metric.at = 0
    BY DEF Init, MetricsInit, NoMetric
  <2>5. OverviewInv
    BY <2>2, <2>3, <2>4 DEF OverviewInv, OverviewTypeOK, ChosenInv, SoftInv, FailSoft
  <2>6. QED
    BY <2>1, <2>5 DEF Init
<1>2. Inv /\ [Next]_deskVars => Inv'
  <2> SUFFICES ASSUME Inv, [Next]_deskVars PROVE Inv'
    OBVIOUS
  <2>1. MetricsInv' /\ scene' = scene
    BY MetricsPart, MetricsStepKeeps, SceneStays
  <2>2. Has("overview")' <=> Has("overview")
    BY <2>1 DEF Has
  <2>3. CASE ~Has("overview")
    <3>1. UNCHANGED overviewVars
      BY <2>3, OverviewPart
    <3>2. OverviewTypeOK' /\ ChosenInv' /\ page' = NoPage
      BY <2>3, <3>1 DEF overviewVars, OverviewInv, OverviewTypeOK, ChosenInv
    <3>3. QED
      BY <2>1, <2>2, <2>3, <3>2 DEF OverviewInv
  <2>4. CASE Has("overview")
    <3>1. PageMoves /\ UNCHANGED <<place, keys, setting>>
      BY <2>4, OverviewPart
    <3>2. OverviewTypeOK /\ ChosenInv /\ SoftInv
      BY <2>4 DEF OverviewInv
    <3>3. AddressForMetrics' = AddressForMetrics
      BY <3>1 DEF AddressForMetrics, Prefer, FromApi
    <3>4. ASSUME UNCHANGED overviewVars PROVE OverviewTypeOK' /\ ChosenInv' /\ FailSoft'
      BY <3>1, <3>2, <3>4, SoftStays DEF overviewVars, OverviewTypeOK, ChosenInv, SoftInv
    <3>5. CASE UNCHANGED <<metric, overviewVars>>
      <4>1. metric'.at # 0 \/ page'.due = "answer" => CallsInv(metric)'
        BY <3>1, <3>2, <3>5, SameWorld DEF SoftInv, overviewVars
      <4>2. SoftInv'
        BY <3>2, <3>3, <3>4, <3>5, <4>1 DEF SoftInv
      <4>3. QED
        BY <2>1, <2>2, <2>4, <3>4, <3>5, <4>2 DEF OverviewInv
    <3>6. CASE UNCHANGED overviewVars /\ MetricsGoOn
      <4>1. metric.at # 0
        BY <3>6 DEF MetricsGoOn, ReadBalance, ReadPricingCounters, ReadSettings,
                    FetchGasPriceOfApi, CheckHealth, CallFails, At
      <4>2. CallsInv(metric') /\ metric'.of = AddressForMetrics
        BY <3>2, <3>6, <4>1, GoOnSettles, GoOnKeepsOf DEF SoftInv
      <4>3. SoftInv'
        BY <3>1, <3>3, <3>4, <3>6, <4>2, SameWorld DEF SoftInv
      <4>4. QED
        BY <2>1, <2>2, <2>4, <3>4, <3>6, <4>3 DEF OverviewInv
    <3>7. CASE OverviewStep
      <4>1. OverviewTypeOK' /\ ChosenInv' /\ SoftInv'
        BY <3>1, <3>2, <3>7, PollPage, TakePage, OtherPage DEF OverviewStep
      <4>2. QED
        BY <2>1, <2>2, <2>4, <4>1 DEF OverviewInv
    <3>8. QED
      BY <3>1, <3>5, <3>6, <3>7 DEF PageMoves
  <2>5. QED
    BY <2>3, <2>4
<1>3. Inv => OverviewExplained
  <2> SUFFICES ASSUME OverviewInv PROVE FailSoft /\ ChosenGroupStays
    BY DEF OverviewExplained
  <2>1. CASE Has("overview")
    BY <2>1 DEF OverviewInv, SoftInv, ChosenInv, ChosenGroupStays
  <2>2. CASE ~Has("overview")
    <3>1. page.view = "loading"
      BY <2>2 DEF OverviewInv, NoPage
    <3>2. QED
      BY <3>1 DEF FailSoft, ChosenGroupStays
  <2>3. QED
    BY <2>1, <2>2
<1>4. QED
  BY <1>1, <1>2, <1>3, PTL DEF Spec
-----------------------------------------------------------------------------
(* The development chain *)

Stops == {"address", "deposit", "set-funder", "send-deposit", "await-deposit", "native",
          "set-native", "usdc", "api-send", "return", "seed", "account", "borrow", "send",
          "await-transfer", "refill", "next", "op", "send-op", "await-op"}

Whys == {"nothing", "address", "funder", "signer", "whales", "refill", "unsent", "sponsor",
         "fee", "funds", "node"}

ActorRecord == [kind : {"simulation", "smoke", "until-empty", "button"},
                at : Stops \cup {"idle", "done", "failed"}, for : {"seed", "account"},
                whale : WhaleSet, seen : Nat, ops : Int, sent : BOOLEAN, fee : Int, cost : Nat,
                alone : BOOLEAN, why : Whys]

TxRecord == [by : Actors, what : {"deposit", "transfer", "fund-usdc", "op"},
             from : Holders \cup {"funder"}, to : Holders \cup {"deposit"}, amount : Nat]

LocalTypeOK ==
    /\ native \in Nat /\ deposit \in Nat /\ funder \in Nat /\ added \in Nat /\ faults \in Nat
    /\ usdc \in [Holders -> Nat]
    /\ borrowed \in SUBSET WhaleSet
    /\ mempool \in SUBSET TxRecord
    /\ actor \in [Actors -> ActorRecord]

\* USDC is sent to the paymaster or to the account, and never to oneself; and nobody who
\* has not begun has sent anything.
TxInv ==
    \A tx \in mempool :
        /\ actor[tx.by].at # "idle"
        /\ tx.what # "deposit" => /\ tx.from \in Holders /\ tx.to \in {"paymaster", "account"}
                                  /\ tx.from # tx.to

LocalInv == LocalTypeOK /\ TxInv

\* One of them becomes m.
Turns(p, m) == actor' = [actor EXCEPT ![p] = m]

\* What one has from the beginning.
SameSelf(m, o) == m.kind = o.kind /\ m.alone = o.alone

\* What one has measured so far.
SameCount(m, o) == m.sent = o.sent /\ m.fee = o.fee /\ m.cost = o.cost

\* What one is about to borrow and what it has seen.
SameAim(m, o) == m.for = o.for /\ m.whale = o.whale /\ m.seen = o.seen

SameRest(m, o) == SameSelf(m, o) /\ SameCount(m, o) /\ SameAim(m, o)

LEMMA WhalesAre ==
    /\ WhaleSet \subseteq Holders /\ ApiWhale \in WhaleSet
    /\ "paymaster" \in Holders /\ "account" \in Holders
    /\ \A i \in 1..Len(Whales) : Whales[i] \in WhaleSet
    /\ "paymaster" \notin WhaleSet /\ "account" \notin WhaleSet
<1>1. 1 \in 1..Len(Whales)
  BY WhalesAssumption
<1>2. QED
  BY <1>1, LendersAssumption DEF WhaleSet, Holders, ApiWhale

LEMMA ActorIs ==
    ASSUME LocalTypeOK, NEW p \in Actors
    PROVE  /\ actor[p] \in ActorRecord
           /\ \A m \in ActorRecord : Turns(p, m) =>
                  /\ actor' \in [Actors -> ActorRecord]
                  /\ actor'[p] = m
                  /\ \A q \in Actors : q # p => actor'[q] = actor[q]
BY DEF LocalTypeOK, Turns

LEMMA GoesMove ==
    ASSUME LocalTypeOK, NEW p \in Actors, NEW at \in Stops \cup {"done", "failed"}, Goes(p, at)
    PROVE  \E m \in ActorRecord :
               /\ Turns(p, m) /\ m.at = at /\ m.why = actor[p].why /\ m.ops = actor[p].ops
               /\ SameRest(m, actor[p])
<1> DEFINE m == [actor[p] EXCEPT !.at = at]
<1>1. actor[p] \in ActorRecord
  BY ActorIs
<1>2. /\ m \in ActorRecord /\ m.at = at /\ m.why = actor[p].why /\ m.ops = actor[p].ops
      /\ SameRest(m, actor[p])
  BY <1>1 DEF ActorRecord, SameRest, SameSelf, SameCount, SameAim
<1>3. Turns(p, m)
  BY DEF Goes, Turns
<1>4. QED
  BY <1>2, <1>3

\* One comes to a stop, for a reason.
Stopped(p, at, why) == actor' = [actor EXCEPT ![p].at = at, ![p].why = why]

LEMMA AtWhy ==
    ASSUME LocalTypeOK, NEW p \in Actors, NEW at \in Stops \cup {"done", "failed"}, NEW why \in Whys,
           Stopped(p, at, why)
    PROVE  \E m \in ActorRecord :
               /\ Turns(p, m) /\ m.at = at /\ m.why = why /\ m.ops = actor[p].ops
               /\ SameRest(m, actor[p])
<1> DEFINE n == [actor[p] EXCEPT !.at = at]
<1> DEFINE m == [n EXCEPT !.why = why]
<1>1. actor[p] \in ActorRecord
  BY ActorIs
<1>2. Turns(p, m)
  BY DEF Turns, Stopped
<1>3. /\ n \in ActorRecord /\ n.at = at /\ n.ops = actor[p].ops /\ SameRest(n, actor[p])
  BY <1>1 DEF ActorRecord, SameRest, SameSelf, SameCount, SameAim
<1> HIDE DEF n
<1>4. /\ m \in ActorRecord /\ m.at = at /\ m.why = why /\ m.ops = actor[p].ops
      /\ SameRest(m, actor[p])
  BY <1>3 DEF ActorRecord, SameRest, SameSelf, SameCount, SameAim
<1> HIDE DEF m
<1>5. QED
  BY <1>2, <1>4

LEMMA FailsMove ==
    ASSUME LocalTypeOK, NEW p \in Actors, NEW why \in Whys, Fails(p, why)
    PROVE  \E m \in ActorRecord :
               /\ Turns(p, m) /\ m.at = Ended(p) /\ m.why = why /\ m.ops = actor[p].ops
               /\ SameRest(m, actor[p])
<1>1. PICK at \in Stops \cup {"done", "failed"} : at = Ended(p)
  BY DEF Ended
<1>2. Stopped(p, at, why)
  BY <1>1 DEF Fails, Stopped
<1>3. QED
  BY <1>1, <1>2, AtWhy

\* What every step of one at work does: nothing to the others, and to the paymaster's
\* balance only what it has seen there makes of it.
Reads(p) ==
    /\ native' = native /\ added' = added
    /\ actor'[p].at = "set-native" =>
           \/ actor'[p].seen = native
           \/ actor[p].at = "set-native" /\ actor'[p].seen = actor[p].seen

Sets(p) ==
    /\ actor[p].at = "set-native" /\ actor'[p].at # "set-native"
    /\ native' = actor[p].seen + NativeTopup /\ added' = added + 1

Frame(p) ==
    /\ LocalInv'
    /\ p \in AtWork
    /\ \A q \in Actors : q # p => actor'[q] = actor[q]
    /\ SameSelf(actor'[p], actor[p])
    /\ actor'[p].at # "idle"
    /\ \A tx \in mempool' : tx \in mempool \/ tx.by = p
    /\ actor'[p].at \in Stops => actor[p].at \in Stops
    /\ Reads(p) \/ Sets(p)

LEMMA Working ==
    ASSUME NEW p \in Actors, actor[p].at \in Stops
    PROVE  p \in AtWork
BY DEF AtWork, Stops

LEMMA FrameHolds ==
    ASSUME LocalInv, NEW p \in Actors, NEW m \in ActorRecord, Turns(p, m),
           m.at # "idle", SameSelf(m, actor[p]), actor[p].at \in Stops,
           deposit' \in Nat, funder' \in Nat, faults' \in Nat, usdc' \in [Holders -> Nat],
           borrowed' \in SUBSET WhaleSet, mempool' \in SUBSET TxRecord,
           \A tx \in mempool' :
               \/ tx \in mempool
               \/ /\ tx.by = p
                  /\ tx.what # "deposit" => /\ tx.from \in Holders /\ tx.to \in {"paymaster", "account"}
                                            /\ tx.from # tx.to,
           \/ native' = native /\ added' = added /\ (m.at = "set-native" => m.seen = native)
           \/ /\ actor[p].at = "set-native" /\ m.at # "set-native"
              /\ native' = actor[p].seen + NativeTopup /\ added' = added + 1
    PROVE  Frame(p)
<1>1. /\ actor' \in [Actors -> ActorRecord] /\ actor'[p] = m
      /\ \A q \in Actors : q # p => actor'[q] = actor[q]
  BY ActorIs DEF LocalInv
<1>2. actor[p].seen \in Nat /\ native \in Nat /\ added \in Nat
  BY ActorIs DEF LocalInv, LocalTypeOK, ActorRecord
<1>3. native' \in Nat /\ added' \in Nat
  BY <1>2, AmountsAssumption
<1>4. LocalTypeOK'
  BY <1>1, <1>3 DEF LocalTypeOK
<1>5. TxInv'
  <2>1. SUFFICES ASSUME NEW tx \in mempool'
                 PROVE  /\ actor'[tx.by].at # "idle"
                        /\ tx.what # "deposit" =>
                               /\ tx.from \in Holders /\ tx.to \in {"paymaster", "account"}
                               /\ tx.from # tx.to
    BY DEF TxInv
  <2>2. tx.by \in Actors
    BY DEF TxRecord
  <2>3. CASE tx \in mempool
    BY <1>1, <2>2, <2>3 DEF LocalInv, TxInv
  <2>4. CASE tx \notin mempool
    BY <1>1, <2>4
  <2>5. QED
    BY <2>3, <2>4
<1>6. QED
  BY <1>1, <1>4, <1>5, Working DEF Frame, LocalInv, Reads, Sets

\* The usual case: one goes to another stop, and what is on the chain stays in bounds.
LEMMA FrameGoes ==
    ASSUME LocalInv, NEW p \in Actors, actor[p].at \in Stops,
           \/ \E at \in (Stops \ {"set-native"}) \cup {"done", "failed"} : Goes(p, at)
           \/ \E why \in Whys : Fails(p, why),
           native' = native, added' = added, usdc' = usdc,
           deposit' \in Nat, funder' \in Nat, faults' \in Nat,
           borrowed' \in SUBSET WhaleSet,
           \/ mempool' = mempool
           \/ \E what \in {"deposit", "transfer", "fund-usdc", "op"}, from \in Holders \cup {"funder"},
                 to \in {"paymaster", "account", "deposit"}, amount \in Nat :
                  /\ Submit(p, what, from, to, amount)
                  /\ what # "deposit" => from \in Holders /\ to # "deposit" /\ from # to
    PROVE  Frame(p)
<1>1. LocalTypeOK
  BY DEF LocalInv
<1>2. PICK m \in ActorRecord : Turns(p, m) /\ m.at \notin {"idle", "set-native"}
                               /\ SameSelf(m, actor[p])
  <2>1. CASE \E at \in (Stops \ {"set-native"}) \cup {"done", "failed"} : Goes(p, at)
    <3>1. PICK at \in (Stops \ {"set-native"}) \cup {"done", "failed"} : Goes(p, at)
      BY <2>1
    <3>2. at \notin {"idle", "set-native"}
      BY DEF Stops
    <3>3. QED
      BY <1>1, <3>1, <3>2, GoesMove DEF SameRest
  <2>2. CASE \E why \in Whys : Fails(p, why)
    BY <1>1, <2>2, FailsMove DEF SameRest, Ended
  <2>3. QED
    BY <2>1, <2>2
<1>3. mempool' \in SUBSET TxRecord /\ \A tx \in mempool' :
               \/ tx \in mempool
               \/ /\ tx.by = p
                  /\ tx.what # "deposit" => /\ tx.from \in Holders /\ tx.to \in {"paymaster", "account"}
                                            /\ tx.from # tx.to
  <2>1. CASE mempool' = mempool
    BY <1>1, <2>1 DEF LocalTypeOK
  <2>2. CASE mempool' # mempool
    <3>1. PICK what \in {"deposit", "transfer", "fund-usdc", "op"}, from \in Holders \cup {"funder"},
               to \in {"paymaster", "account", "deposit"}, amount \in Nat :
                  /\ Submit(p, what, from, to, amount)
                  /\ what # "deposit" => from \in Holders /\ to # "deposit" /\ from # to
      BY <2>2
    <3> DEFINE new == [by |-> p, what |-> what, from |-> from, to |-> to, amount |-> amount]
    <3>2. new \in TxRecord
      BY WhalesAre DEF TxRecord
    <3>3. new.by = p /\ new.what = what /\ new.from = from /\ new.to = to
      OBVIOUS
    <3>4. mempool' = mempool \cup {new}
      BY <3>1 DEF Submit
    <3> HIDE DEF new
    <3>5. QED
      BY <1>1, <3>1, <3>2, <3>3, <3>4 DEF LocalTypeOK
  <2>3. QED
    BY <2>1, <2>2
<1>4. usdc' \in [Holders -> Nat]
  BY <1>1 DEF LocalTypeOK
<1>5. QED
  BY <1>2, <1>3, <1>4, FrameHolds

LEMMA ClientFrame ==
    ASSUME LocalInv, NEW p \in Clients, ClientStep(p)
    PROVE  Frame(p)
<1>1. p \in Actors /\ LocalTypeOK
  BY DEF Actors, LocalInv
<1>2. deposit \in Nat /\ funder \in Nat /\ faults \in Nat /\ borrowed \in SUBSET WhaleSet
      /\ usdc \in [Holders -> Nat] /\ mempool \in SUBSET TxRecord
  BY <1>1 DEF LocalTypeOK
<1>3. actor[p] \in ActorRecord
  BY <1>1, ActorIs
<1>4. CASE ResolveAddress(p) \/ CheckDeposit(p) \/ AwaitDeposit(p) \/ TriggerRefill(p)
  <2>1. actor[p].at \in Stops /\ UNCHANGED <<chainVars, added, faults>>
    BY <1>4 DEF ResolveAddress, CheckDeposit, AwaitDeposit, TriggerRefill, Stops
  <2>2. \/ \E at \in (Stops \ {"set-native"}) \cup {"done", "failed"} : Goes(p, at)
        \/ \E why \in Whys : Fails(p, why)
    BY <1>4 DEF ResolveAddress, CheckDeposit, AwaitDeposit, TriggerRefill, Stops, AfterDeposit, Whys
  <2>3. QED
    BY <1>1, <1>2, <2>1, <2>2, FrameGoes DEF chainVars
<1>5. CASE SetFunder(p)
  <2>1. Goes(p, "send-deposit") /\ actor[p].at \in Stops
        /\ "send-deposit" \in (Stops \ {"set-native"}) \cup {"done", "failed"}
    BY <1>5 DEF SetFunder, Stops
  <2>2. DepositTopup + 1 \in Nat
    BY AmountsAssumption
  <2>3. QED
    BY <1>1, <1>2, <1>5, <2>1, <2>2, FrameGoes DEF SetFunder
<1>6. CASE SendDeposit(p)
  <2>1. actor[p].at \in Stops
    BY <1>6 DEF SendDeposit, Stops
  <2>2. \/ \E at \in (Stops \ {"set-native"}) \cup {"done", "failed"} : Goes(p, at)
        \/ \E why \in Whys : Fails(p, why)
    BY <1>6 DEF SendDeposit, Stops, Whys
  <2>3. Submit(p, "deposit", "funder", "deposit", DepositTopup) \/ mempool' = mempool
    BY <1>6 DEF SendDeposit
  <2>4. DepositTopup \in Nat
    BY AmountsAssumption
  <2>5. QED
    BY <1>1, <1>2, <1>6, <2>1, <2>2, <2>3, <2>4, FrameGoes DEF SendDeposit
<1>7. CASE CheckUsdc(p)
  <2>1. actor[p].at \in Stops /\ UNCHANGED <<chainVars, added, faults>>
    BY <1>7 DEF CheckUsdc, Stops
  <2> DEFINE for == actor[p].at
  <2> DEFINE need == Purpose[for]
  <2> DEFINE lender == Whales[First(Rich(need.amount))]
  <2>2. for \in {"seed", "account"} /\ need.next \in {"refill", "next"}
    BY <1>7 DEF CheckUsdc, Purpose
  <2>3. CASE Goes(p, need.next) \/ Fails(p, "whales")
    <3>1. \/ \E at \in (Stops \ {"set-native"}) \cup {"done", "failed"} : Goes(p, at)
          \/ \E why \in Whys : Fails(p, why)
      BY <2>2, <2>3 DEF Stops, Whys
    <3>2. QED
      BY <1>1, <1>2, <2>1, <3>1, FrameGoes DEF chainVars
  <2>4. CASE ~(Goes(p, need.next) \/ Fails(p, "whales"))
    <3>1. Rich(need.amount) # {}
          /\ actor' = [actor EXCEPT ![p].at = "borrow", ![p].for = for, ![p].whale = lender]
      BY <1>7, <2>4 DEF CheckUsdc
    <3>2. lender \in WhaleSet
      <4>1. Rich(need.amount) \in SUBSET Nat /\ Rich(need.amount) \subseteq 1..Len(Whales)
        BY DEF Rich
      <4>2. \E i \in Rich(need.amount) : \A j \in Rich(need.amount) : i <= j
        BY <3>1, <4>1, Least
      <4>3. First(Rich(need.amount)) \in Rich(need.amount)
        BY <4>2 DEF First
      <4>4. QED
        BY <4>1, <4>3, WhalesAre
    <3> DEFINE m == [actor[p] EXCEPT !.at = "borrow", !.for = for, !.whale = lender]
    <3> HIDE DEF lender
    <3>3. Turns(p, m)
      BY <3>1 DEF Turns
    <3>4. m \in ActorRecord /\ m.at = "borrow" /\ SameSelf(m, actor[p])
      BY <1>3, <2>2, <3>2 DEF ActorRecord, SameSelf, Stops
    <3> HIDE DEF m
    <3>5. QED
      BY <1>1, <1>2, <2>1, <3>3, <3>4, FrameHolds DEF chainVars
  <2>5. QED
    BY <2>3, <2>4
<1>8. CASE BorrowWhale(p) \/ AwaitTransfer(p)
  <2>1. actor[p].at \in Stops /\ UNCHANGED <<native, deposit, funder, usdc, mempool, added, faults>>
    BY <1>8 DEF BorrowWhale, AwaitTransfer, Stops
  <2>2. Purpose[actor[p].for].next \in {"refill", "next"}
    BY <1>3 DEF Purpose, ActorRecord
  <2>3. \E at \in (Stops \ {"set-native"}) \cup {"done", "failed"} : Goes(p, at)
    BY <1>8, <2>2 DEF BorrowWhale, AwaitTransfer, Stops
  <2>4. borrowed' \in SUBSET WhaleSet
    BY <1>2, <1>3, <1>8 DEF BorrowWhale, AwaitTransfer, ActorRecord
  <2>5. QED
    BY <1>1, <1>2, <2>1, <2>3, <2>4, FrameGoes
<1>9. CASE SendTransfer(p)
  <2> DEFINE need == Purpose[actor[p].for]
  <2>1. actor[p].at \in Stops
    BY <1>9 DEF SendTransfer, Stops
  <2>2. \/ \E at \in (Stops \ {"set-native"}) \cup {"done", "failed"} : Goes(p, at)
        \/ \E why \in Whys : Fails(p, why)
    BY <1>9 DEF SendTransfer, Stops, Whys
  <2>3. Submit(p, "transfer", actor[p].whale, need.holder, need.amount) \/ mempool' = mempool
    BY <1>9 DEF SendTransfer
  <2>4. need.holder \in {"paymaster", "account"} /\ need.amount \in Nat
    BY <1>3, AmountsAssumption DEF Purpose, ActorRecord
  <2>5. actor[p].whale \in Holders /\ actor[p].whale # need.holder
    BY <1>3, <2>4, WhalesAre DEF ActorRecord
  <2> HIDE DEF need
  <2>6. QED
    BY <1>1, <1>2, <1>9, <2>1, <2>2, <2>3, <2>4, <2>5, FrameGoes DEF SendTransfer
<1>10. CASE NextOp(p)
  <2>1. actor[p].at \in Stops /\ UNCHANGED <<chainVars, added, faults>>
    BY <1>10 DEF NextOp, Stops
  <2>2. Goes(p, "op") \/ Goes(p, "done") \/ Fails(p, "unsent")
    BY <1>10 DEF NextOp
  <2>3. \/ \E at \in (Stops \ {"set-native"}) \cup {"done", "failed"} : Goes(p, at)
        \/ \E why \in Whys : Fails(p, why)
    BY <2>2 DEF Stops, Whys
  <2>4. QED
    BY <1>1, <1>2, <2>1, <2>3, FrameGoes DEF chainVars
<1>11. CASE AskTerms(p)
  <2>1. actor[p].at \in Stops /\ UNCHANGED <<chainVars, added, faults>>
    BY <1>11 DEF AskTerms, Stops
  <2>2. CASE Fails(p, "sponsor")
    <3>1. "sponsor" \in Whys
      BY DEF Whys
    <3>2. QED
      BY <1>1, <1>2, <2>1, <2>2, <3>1, FrameGoes DEF chainVars
  <2>3. CASE actor' = [actor EXCEPT ![p].at = "send-op", ![p].seen = usdc["account"]]
    <3> DEFINE m == [actor[p] EXCEPT !.at = "send-op", !.seen = usdc["account"]]
    <3>1. Turns(p, m)
      BY <2>3 DEF Turns
    <3>2. usdc["account"] \in Nat
      BY <1>2, WhalesAre
    <3>3. m \in ActorRecord /\ m.at = "send-op" /\ SameSelf(m, actor[p])
      BY <1>3, <3>2 DEF ActorRecord, SameSelf, Stops
    <3> HIDE DEF m
    <3>4. QED
      BY <1>1, <1>2, <2>1, <3>1, <3>3, FrameHolds DEF chainVars
  <2>4. QED
    BY <1>11, <2>2, <2>3 DEF AskTerms
<1>12. CASE SendOp(p)
  <2>1. PICK cost \in Costs : Submit(p, "op", "account", "paymaster", cost)
    BY <1>12 DEF SendOp
  <2>2. Goes(p, "await-op") /\ actor[p].at \in Stops /\ cost \in Nat
        /\ "await-op" \in (Stops \ {"set-native"}) \cup {"done", "failed"}
    BY <1>12, AmountsAssumption DEF SendOp, Stops
  <2>3. "account" \in Holders /\ "account" # "paymaster"
    BY WhalesAre
  <2>4. QED
    BY <1>1, <1>2, <1>12, <2>1, <2>2, <2>3, FrameGoes DEF SendOp
<1>13. CASE MeasureFee(p)
  <2>1. actor[p].at \in Stops /\ UNCHANGED <<chainVars, added, faults>>
    BY <1>13 DEF MeasureFee, Stops
  <2>2. PICK m \in ActorRecord : /\ Turns(p, m) /\ m.at \in {"next", "failed"}
                                 /\ SameSelf(m, actor[p])
    <3> DEFINE n == [actor[p] EXCEPT !.fee = Fee(p), !.sent = TRUE, !.ops = @ - 1]
    <3> DEFINE a == [n EXCEPT !.at = "failed", !.why = "fee"]
    <3> DEFINE b == [n EXCEPT !.at = "next"]
    <3>1. Turns(p, a) \/ Turns(p, b)
      <4>1. [actor EXCEPT ![p].fee = Fee(p), ![p].sent = TRUE, ![p].ops = @ - 1]
                = [actor EXCEPT ![p] = n]
        OBVIOUS
      <4>2. [actor EXCEPT ![p] = n][p] = n
        BY <1>1 DEF LocalTypeOK
      <4> HIDE DEF n
      <4>3. /\ [[actor EXCEPT ![p] = n] EXCEPT ![p].at = "failed", ![p].why = "fee"]
                    = [actor EXCEPT ![p] = a]
            /\ [[actor EXCEPT ![p] = n] EXCEPT ![p].at = "next"] = [actor EXCEPT ![p] = b]
        BY <1>1, <4>2 DEF LocalTypeOK
      <4>4. QED
        BY <1>13, <4>1, <4>3 DEF MeasureFee, Turns
    <3>2. Fee(p) \in Int
      BY <1>2, <1>3, WhalesAre DEF Fee, ActorRecord
    <3>3. n \in ActorRecord /\ SameSelf(n, actor[p])
      <4> DEFINE k == [actor[p] EXCEPT !.fee = Fee(p)]
      <4> DEFINE l == [k EXCEPT !.sent = TRUE]
      <4>1. k \in ActorRecord /\ SameSelf(k, actor[p]) /\ k.ops = actor[p].ops
        BY <1>3, <3>2 DEF ActorRecord, SameSelf
      <4> HIDE DEF k
      <4>2. l \in ActorRecord /\ SameSelf(l, actor[p]) /\ l.ops = actor[p].ops
        BY <4>1 DEF ActorRecord, SameSelf
      <4> HIDE DEF l
      <4>3. [l EXCEPT !.ops = @ - 1] \in ActorRecord /\ SameSelf([l EXCEPT !.ops = @ - 1], actor[p])
        BY <4>2 DEF ActorRecord, SameSelf
      <4>4. n = [l EXCEPT !.ops = @ - 1]
        BY <4>1, <4>2 DEF l, k
      <4>5. QED
        BY <4>3, <4>4
    <3> HIDE DEF n
    <3>4. /\ a \in ActorRecord /\ a.at = "failed" /\ SameSelf(a, actor[p])
          /\ b \in ActorRecord /\ b.at = "next" /\ SameSelf(b, actor[p])
      <4> DEFINE f == [n EXCEPT !.at = "failed"]
      <4>1. f \in ActorRecord /\ f.at = "failed" /\ SameSelf(f, actor[p])
        BY <3>3 DEF ActorRecord, SameSelf
      <4>2. b \in ActorRecord /\ b.at = "next" /\ SameSelf(b, actor[p])
        BY <3>3 DEF ActorRecord, SameSelf, Stops
      <4>3. a = [f EXCEPT !.why = "fee"]
        OBVIOUS
      <4> HIDE DEF f
      <4>4. [f EXCEPT !.why = "fee"] \in ActorRecord /\ [f EXCEPT !.why = "fee"].at = "failed"
            /\ SameSelf([f EXCEPT !.why = "fee"], actor[p])
        BY <4>1 DEF ActorRecord, SameSelf, Whys
      <4>5. QED
        BY <4>2, <4>3, <4>4
    <3> HIDE DEF a, b
    <3>5. QED
      BY <3>1, <3>4
  <2>3. QED
    BY <1>1, <1>2, <2>1, <2>2, FrameHolds DEF chainVars
<1>14. QED
  BY <1>4, <1>5, <1>6, <1>7, <1>8, <1>9, <1>10, <1>11, <1>12, <1>13 DEF ClientStep

LEMMA RouteFrame ==
    ASSUME LocalInv, NEW p \in Actors, RouteStep(p) \/ NodeFails(p)
    PROVE  Frame(p)
<1>1. LocalTypeOK
  BY DEF LocalInv
<1>2. deposit \in Nat /\ funder \in Nat /\ faults \in Nat /\ borrowed \in SUBSET WhaleSet
      /\ usdc \in [Holders -> Nat] /\ mempool \in SUBSET TxRecord /\ native \in Nat
  BY <1>1 DEF LocalTypeOK
<1>3. actor[p] \in ActorRecord
  BY <1>1, ActorIs
<1>4. CASE ReadNative(p)
  <2> DEFINE m == [actor[p] EXCEPT !.at = "set-native", !.seen = native]
  <2>1. Turns(p, m)
    BY <1>4 DEF ReadNative, Turns
  <2>2. m \in ActorRecord /\ m.at = "set-native" /\ m.seen = native /\ SameSelf(m, actor[p])
    BY <1>2, <1>3 DEF ActorRecord, SameSelf, Stops
  <2> HIDE DEF m
  <2>3. actor[p].at \in Stops /\ UNCHANGED <<chainVars, added, faults>>
    BY <1>4 DEF ReadNative, Stops
  <2>4. QED
    BY <1>2, <2>1, <2>2, <2>3, FrameHolds DEF chainVars
<1>5. CASE SetNative(p)
  <2>1. Answered(p, "usdc") \in {"done", "usdc"}
    BY DEF Answered
  <2>2. PICK m \in ActorRecord : Turns(p, m) /\ m.at \in {"done", "usdc"} /\ SameSelf(m, actor[p])
    <3>1. Answered(p, "usdc") \in Stops \cup {"done", "failed"} /\ Goes(p, Answered(p, "usdc"))
      BY <1>5, <2>1 DEF SetNative, Stops
    <3>2. QED
      BY <1>1, <2>1, <3>1, GoesMove DEF SameRest
  <2>3. actor[p].at \in Stops
    BY <1>5 DEF SetNative, Stops
  <2>4. /\ native' = actor[p].seen + NativeTopup /\ added' = added + 1
        /\ UNCHANGED <<deposit, funder, usdc, borrowed, mempool, faults>>
        /\ actor[p].at = "set-native"
    BY <1>5 DEF SetNative
  <2>5. QED
    BY <1>2, <2>2, <2>3, <2>4, FrameHolds
<1>6. CASE BorrowForApi(p) \/ ReturnWhale(p)
  <2>1. actor[p].at \in Stops /\ UNCHANGED <<native, deposit, funder, usdc, mempool, added, faults>>
    BY <1>6 DEF BorrowForApi, ReturnWhale, Stops
  <2>2. \E at \in (Stops \ {"set-native"}) \cup {"done", "failed"} : Goes(p, at)
    BY <1>6 DEF BorrowForApi, ReturnWhale, Answered, Stops
  <2>3. borrowed' \in SUBSET WhaleSet
    BY <1>2, <1>6, WhalesAre DEF BorrowForApi, ReturnWhale
  <2>4. QED
    BY <1>2, <2>1, <2>2, <2>3, FrameGoes
<1>7. CASE SendUsdc(p)
  <2>1. actor[p].at \in Stops /\ UNCHANGED <<native, deposit, funder, usdc, borrowed, added, faults>>
    BY <1>7 DEF SendUsdc, Stops
  <2>2. CASE ApiWhale \in borrowed
    <3>1. Submit(p, "fund-usdc", ApiWhale, "paymaster", ApiAmount) /\ Goes(p, "return")
      BY <1>7, <2>2 DEF SendUsdc
    <3>2. ApiAmount \in Nat /\ ApiWhale \in Holders /\ ApiWhale # "paymaster"
          /\ "return" \in (Stops \ {"set-native"}) \cup {"done", "failed"}
      BY AmountsAssumption, WhalesAre DEF Stops
    <3>3. QED
      BY <1>2, <2>1, <3>1, <3>2, FrameGoes
  <2>3. CASE ApiWhale \notin borrowed
    <3>1. Stopped(p, "return", "signer")
          /\ "return" \in Stops \cup {"done", "failed"} /\ "signer" \in Whys
      BY <1>7, <2>3 DEF SendUsdc, Stopped, Stops, Whys
    <3>2. PICK m \in ActorRecord : Turns(p, m) /\ m.at = "return" /\ SameSelf(m, actor[p])
      BY <1>1, <3>1, AtWhy DEF SameRest
    <3>3. QED
      BY <1>2, <1>7, <2>1, <2>3, <3>2, FrameHolds DEF SendUsdc
  <2>4. QED
    BY <2>2, <2>3
<1>8. CASE NodeFails(p)
  <2>1. actor[p].at \in Stops /\ UNCHANGED <<chainVars, added>> /\ faults' \in Nat
    BY <1>2, <1>3, <1>8 DEF NodeFails, ActorRecord
  <2>2. CASE Fails(p, "node")
    <3>1. "node" \in Whys
      BY DEF Whys
    <3>2. QED
      BY <1>2, <2>1, <2>2, <3>1, FrameGoes DEF chainVars
  <2>3. CASE actor' = [actor EXCEPT ![p].at = "return", ![p].why = "node"]
    <3>1. Stopped(p, "return", "node")
          /\ "return" \in Stops \cup {"done", "failed"} /\ "node" \in Whys
      BY <2>3 DEF Stopped, Stops, Whys
    <3>2. PICK m \in ActorRecord : Turns(p, m) /\ m.at = "return" /\ SameSelf(m, actor[p])
      BY <1>1, <3>1, AtWhy DEF SameRest
    <3>3. QED
      BY <1>2, <2>1, <3>2, FrameHolds DEF chainVars
  <2>4. QED
    BY <1>8, <2>2, <2>3 DEF NodeFails
<1>9. QED
  BY <1>4, <1>5, <1>6, <1>7, <1>8 DEF RouteStep

\* A block takes this transaction.
Takes(tx) ==
    /\ mempool' = mempool \ {tx}
    /\ IF tx.what = "deposit" /\ Covers(tx)
       THEN deposit' = deposit + tx.amount /\ funder' = funder - tx.amount
       ELSE UNCHANGED <<deposit, funder>>
    /\ usdc' = IF tx.what # "deposit" /\ Covers(tx)
               THEN [usdc EXCEPT ![tx.from] = @ - tx.amount, ![tx.to] = @ + tx.amount]
               ELSE usdc
    /\ actor' = CASE tx.what = "op" /\ Covers(tx) -> [actor EXCEPT ![tx.by].cost = tx.amount]
                  [] tx.what = "op" /\ ~Covers(tx) /\ actor[tx.by].at = "await-op" ->
                         [actor EXCEPT ![tx.by].at = Ended(tx.by), ![tx.by].why = "funds"]
                  [] tx.what = "deposit" /\ ~Covers(tx) ->
                         [actor EXCEPT ![tx.by].at = "failed", ![tx.by].why = "funder"]
                  [] OTHER -> actor
    /\ UNCHANGED <<native, borrowed, added, faults>>

\* Money moves if it is there, and nothing is lost.
LEMMA MoneyMoves ==
    ASSUME LocalInv, NEW tx \in mempool, Takes(tx)
    PROVE  /\ deposit' \in Nat /\ funder' \in Nat /\ usdc' \in [Holders -> Nat]
           /\ tx.what = "deposit" => usdc' = usdc
           /\ tx.what # "deposit" =>
                  IF usdc[tx.from] >= tx.amount
                  THEN /\ usdc'[tx.from] = usdc[tx.from] - tx.amount
                       /\ usdc'[tx.to] = usdc[tx.to] + tx.amount
                       /\ \A h \in Holders \ {tx.from, tx.to} : usdc'[h] = usdc[h]
                  ELSE usdc' = usdc
<1>1. /\ tx.amount \in Nat /\ deposit \in Nat /\ funder \in Nat /\ usdc \in [Holders -> Nat]
  BY DEF LocalInv, LocalTypeOK, TxRecord
<1>2. deposit' \in Nat /\ funder' \in Nat
  BY <1>1 DEF Takes, Covers
<1>3. CASE tx.what = "deposit"
  BY <1>1, <1>2, <1>3 DEF Takes
<1>4. CASE tx.what # "deposit"
  <2>1. tx.from \in Holders /\ tx.to \in Holders /\ tx.from # tx.to
    BY <1>4, WhalesAre DEF LocalInv, TxInv
  <2>2. CASE usdc[tx.from] >= tx.amount
    <3> DEFINE paid == [usdc EXCEPT ![tx.from] = @ - tx.amount]
    <3>1. usdc' = [paid EXCEPT ![tx.to] = @ + tx.amount]
      <4>1. Covers(tx)
        BY <1>4, <2>2 DEF Covers
      <4>2. usdc' = [usdc EXCEPT ![tx.from] = @ - tx.amount, ![tx.to] = @ + tx.amount]
        BY <1>4, <4>1 DEF Takes
      <4>3. QED
        BY <1>1, <2>1, <4>2
    <3>2. paid \in [Holders -> Nat] /\ paid[tx.from] = usdc[tx.from] - tx.amount
          /\ \A h \in Holders \ {tx.from} : paid[h] = usdc[h]
      BY <1>1, <2>1, <2>2
    <3> HIDE DEF paid
    <3>3. QED
      BY <1>1, <1>2, <1>4, <2>1, <2>2, <3>1, <3>2
  <2>3. CASE ~(usdc[tx.from] >= tx.amount)
    BY <1>1, <1>2, <1>4, <2>3 DEF Takes, Covers
  <2>4. QED
    BY <2>2, <2>3
<1>5. QED
  BY <1>3, <1>4

\* What becomes of the one who sent it.
LEMMA SenderMove ==
    ASSUME LocalInv, NEW tx \in mempool, Takes(tx)
    PROVE  \E m \in ActorRecord :
               /\ Turns(tx.by, m)
               /\ SameSelf(m, actor[tx.by]) /\ SameAim(m, actor[tx.by])
               /\ m.sent = actor[tx.by].sent /\ m.fee = actor[tx.by].fee
               /\ IF tx.what = "op" /\ Covers(tx)
                  THEN m.at = actor[tx.by].at /\ m.why = actor[tx.by].why /\ m.cost = tx.amount
                  ELSE /\ m.cost = actor[tx.by].cost
                       /\ CASE tx.what = "op" /\ ~Covers(tx) /\ actor[tx.by].at = "await-op" ->
                                   m.at = Ended(tx.by) /\ m.why = "funds"
                            [] tx.what = "deposit" /\ ~Covers(tx) ->
                                   m.at = "failed" /\ m.why = "funder"
                            [] OTHER -> m.at = actor[tx.by].at /\ m.why = actor[tx.by].why
<1>0. PICK p \in Actors : p = tx.by
  BY DEF LocalInv, LocalTypeOK, TxRecord
<1> DEFINE o == actor[p]
<1>1. tx.amount \in Nat /\ o \in ActorRecord /\ Ended(p) \in {"done", "failed"}
  BY ActorIs DEF LocalInv, LocalTypeOK, TxRecord, Ended
<1>2. CASE tx.what = "op" /\ Covers(tx)
  <2> DEFINE m == [o EXCEPT !.cost = tx.amount]
  <2>1. actor' = [actor EXCEPT ![p].cost = tx.amount]
    BY <1>0, <1>2 DEF Takes
  <2>2. Turns(p, m)
    BY <2>1 DEF Turns
  <2> HIDE DEF o
  <2>3. m \in ActorRecord /\ m.at = o.at /\ m.why = o.why /\ m.cost = tx.amount
        /\ SameSelf(m, o) /\ SameAim(m, o) /\ m.sent = o.sent /\ m.fee = o.fee
    BY <1>1 DEF ActorRecord, SameSelf, SameAim
  <2> HIDE DEF m
  <2>4. QED
    BY <1>0, <1>2, <2>2, <2>3 DEF o
<1>3. ASSUME NEW at \in {"done", "failed"}, NEW why \in Whys,
             Stopped(p, at, why)
      PROVE  \E m \in ActorRecord :
                 /\ Turns(p, m) /\ m.at = at /\ m.why = why /\ m.cost = o.cost
                 /\ SameSelf(m, o) /\ SameAim(m, o) /\ m.sent = o.sent /\ m.fee = o.fee
  <2>1. PICK m \in ActorRecord : Turns(p, m) /\ m.at = at /\ m.why = why /\ SameRest(m, actor[p])
    BY <1>3, AtWhy DEF LocalInv
  <2>2. QED
    BY <2>1 DEF SameRest, SameCount
<1>4. CASE tx.what = "op" /\ ~Covers(tx) /\ o.at = "await-op"
  <2>1. PICK at \in {"done", "failed"} : at = Ended(p)
    BY <1>1
  <2>2. actor' = [actor EXCEPT ![p].at = Ended(p), ![p].why = "funds"] /\ "funds" \in Whys
    BY <1>0, <1>4 DEF Takes, Whys
  <2>3. Stopped(p, at, "funds")
    BY <2>1, <2>2 DEF Stopped
  <2>4. PICK m \in ActorRecord :
                 /\ Turns(p, m) /\ m.at = at /\ m.why = "funds" /\ m.cost = o.cost
                 /\ SameSelf(m, o) /\ SameAim(m, o) /\ m.sent = o.sent /\ m.fee = o.fee
    BY <1>3, <2>2, <2>3
  <2>5. QED
    BY <1>0, <1>4, <2>1, <2>4
<1>5. CASE tx.what = "deposit" /\ ~Covers(tx)
  <2>1. Stopped(p, "failed", "funder") /\ "funder" \in Whys
    BY <1>0, <1>5 DEF Takes, Whys, Stopped
  <2>2. PICK m \in ActorRecord :
                 /\ Turns(p, m) /\ m.at = "failed" /\ m.why = "funder" /\ m.cost = o.cost
                 /\ SameSelf(m, o) /\ SameAim(m, o) /\ m.sent = o.sent /\ m.fee = o.fee
    BY <1>3, <2>1
  <2>3. QED
    BY <1>0, <1>5, <2>2
<1>6. CASE /\ ~(tx.what = "op" /\ Covers(tx))
           /\ ~(tx.what = "op" /\ ~Covers(tx) /\ o.at = "await-op")
           /\ ~(tx.what = "deposit" /\ ~Covers(tx))
  <2>1. actor' = actor
    BY <1>0, <1>6 DEF Takes
  <2>2. Turns(p, o)
    BY <2>1 DEF Turns, LocalInv, LocalTypeOK
  <2>3. SameSelf(o, o) /\ SameAim(o, o)
    BY DEF SameSelf, SameAim
  <2>4. QED
    BY <1>0, <1>1, <1>6, <2>2, <2>3
<1>7. QED
  BY <1>2, <1>4, <1>5, <1>6

LEMMA MineFrame ==
    ASSUME LocalInv, NEW tx \in mempool, Takes(tx)
    PROVE  Frame(tx.by)
<1> DEFINE p == tx.by
<1>1. p \in Actors /\ actor[p] \in ActorRecord /\ LocalTypeOK /\ actor[p].at # "idle"
  BY ActorIs DEF LocalInv, LocalTypeOK, TxRecord, TxInv
<1>2. PICK m \in ActorRecord :
          /\ Turns(p, m) /\ SameSelf(m, actor[p]) /\ SameAim(m, actor[p])
          /\ m.at \in {"done", "failed", actor[p].at}
  BY SenderMove DEF Ended
<1>3. /\ actor' \in [Actors -> ActorRecord] /\ actor'[p] = m
      /\ \A q \in Actors : q # p => actor'[q] = actor[q]
  BY <1>1, <1>2, ActorIs
<1>4. deposit' \in Nat /\ funder' \in Nat /\ usdc' \in [Holders -> Nat]
      /\ UNCHANGED <<native, borrowed, added, faults>> /\ mempool' = mempool \ {tx}
  BY MoneyMoves DEF Takes
<1>5. LocalTypeOK'
  BY <1>1, <1>3, <1>4 DEF LocalTypeOK
<1>6. m.at # "idle" /\ (m.at \in Stops => actor[p].at \in Stops)
      /\ (m.at = "set-native" => m.at = actor[p].at /\ m.seen = actor[p].seen)
  BY <1>1, <1>2 DEF Stops, SameAim
<1>7. TxInv'
  <2>1. \A t \in mempool' : t \in mempool /\ t.by \in Actors
    BY <1>1, <1>4 DEF LocalTypeOK, TxRecord
  <2>2. \A q \in Actors : actor[q].at # "idle" => actor'[q].at # "idle"
    BY <1>3, <1>6
  <2>3. QED
    BY <2>1, <2>2 DEF LocalInv, TxInv
<1>8. p \in AtWork
  BY <1>1 DEF AtWork
<1>9. QED
  BY <1>2, <1>3, <1>4, <1>5, <1>6, <1>7, <1>8 DEF Frame, Reads, LocalInv

\* Someone begins.
LEMMA BeginFrame ==
    ASSUME LocalInv, NEW p \in Actors, NEW at \in Stops, Begin(p, at)
    PROVE  /\ LocalInv' /\ UNCHANGED <<chainVars, added, faults>>
           /\ actor[p].at = "idle" /\ actor'[p].at = at
           /\ actor'[p].alone = (AtWork = {})
           /\ actor'[p].why = actor[p].why /\ actor'[p].kind = actor[p].kind
           /\ SameCount(actor'[p], actor[p]) /\ SameAim(actor'[p], actor[p])
           /\ \A q \in Actors : q # p =>
                  /\ actor'[q].at = actor[q].at /\ actor'[q].why = actor[q].why
                  /\ actor'[q].kind = actor[q].kind
                  /\ actor'[q].alone = (actor[q].alone /\ q \notin AtWork)
                  /\ SameCount(actor'[q], actor[q]) /\ SameAim(actor'[q], actor[q])
<1>1. LocalTypeOK
  BY DEF LocalInv
<1>2. /\ actor[p].at = "idle" /\ UNCHANGED <<chainVars, added, faults>>
      /\ actor' = [q \in Actors |-> Joined(q, p, at)]
  BY DEF Begin
<1>3. actor'[p] \in ActorRecord /\ actor'[p].at = at /\ actor'[p].alone = (AtWork = {})
      /\ actor'[p].why = actor[p].why /\ actor'[p].kind = actor[p].kind
      /\ SameCount(actor'[p], actor[p]) /\ SameAim(actor'[p], actor[p])
  <2>1. PICK lone \in BOOLEAN : lone = (AtWork = {})
    OBVIOUS
  <2> DEFINE n == [actor[p] EXCEPT !.at = at]
  <2> DEFINE m == [n EXCEPT !.alone = lone]
  <2>2. actor'[p] = Joined(p, p, at)
    BY <1>2
  <2>3. Joined(p, p, at) = m
    BY <2>1 DEF Joined
  <2>4. n \in ActorRecord /\ n.at = at /\ n.why = actor[p].why /\ n.kind = actor[p].kind
        /\ SameCount(n, actor[p]) /\ SameAim(n, actor[p])
    BY <1>1, ActorIs DEF ActorRecord, SameCount, SameAim
  <2> HIDE DEF n
  <2>5. m \in ActorRecord /\ m.at = at /\ m.alone = lone /\ m.why = actor[p].why
        /\ m.kind = actor[p].kind /\ SameCount(m, actor[p]) /\ SameAim(m, actor[p])
    BY <2>4 DEF ActorRecord, SameCount, SameAim
  <2> HIDE DEF m
  <2>6. QED
    BY <2>1, <2>2, <2>3, <2>5
<1>4. ASSUME NEW q \in Actors, q # p
      PROVE  /\ actor'[q] \in ActorRecord
             /\ actor'[q].at = actor[q].at /\ actor'[q].why = actor[q].why
             /\ actor'[q].kind = actor[q].kind
             /\ actor'[q].alone = (actor[q].alone /\ q \notin AtWork)
             /\ SameCount(actor'[q], actor[q]) /\ SameAim(actor'[q], actor[q])
  <2>1. PICK lone \in BOOLEAN : lone = (actor[q].alone /\ q \notin AtWork)
    OBVIOUS
  <2> DEFINE n == [actor[q] EXCEPT !.at = @]
  <2> DEFINE m == [n EXCEPT !.alone = lone]
  <2>2. actor'[q] = Joined(q, p, at)
    BY <1>2
  <2>3. Joined(q, p, at) = m
    BY <1>4, <2>1 DEF Joined
  <2>4. n \in ActorRecord /\ n.at = actor[q].at /\ n.why = actor[q].why /\ n.kind = actor[q].kind
        /\ SameCount(n, actor[q]) /\ SameAim(n, actor[q])
    BY <1>1, ActorIs DEF ActorRecord, SameCount, SameAim
  <2> HIDE DEF n
  <2>5. m \in ActorRecord /\ m.at = actor[q].at /\ m.alone = lone /\ m.why = actor[q].why
        /\ m.kind = actor[q].kind /\ SameCount(m, actor[q]) /\ SameAim(m, actor[q])
    BY <2>4 DEF ActorRecord, SameCount, SameAim
  <2> HIDE DEF m
  <2>6. QED
    BY <2>1, <2>2, <2>3, <2>5
<1>5. actor' \in [Actors -> ActorRecord]
  BY <1>2, <1>3, <1>4
<1>6. LocalTypeOK'
  BY <1>1, <1>2, <1>5 DEF LocalTypeOK, chainVars
<1>7. TxInv'
  <2>1. mempool' = mempool /\ \A tx \in mempool : tx.by \in Actors
    BY <1>1, <1>2 DEF chainVars, LocalTypeOK, TxRecord
  <2>2. \A q \in Actors : actor[q].at # "idle" => actor'[q].at # "idle"
    BY <1>3, <1>4 DEF Stops
  <2>3. QED
    BY <2>1, <2>2 DEF LocalInv, TxInv
<1>8. QED
  BY <1>2, <1>3, <1>4, <1>6, <1>7 DEF LocalInv

\* Who works alone is the only one at work.
LoneInv ==
    \A p \in Actors : /\ actor[p].at = "idle" => actor[p].alone
                      /\ actor[p].alone /\ p \in AtWork => AtWork = {p}

LEMMA IdleRests ==
    ASSUME LocalInv, NEW p \in AtWork
    PROVE  p \in Actors /\ actor[p].at # "idle"
BY DEF LocalInv, TxInv, AtWork

LEMMA LoneBegin ==
    ASSUME LocalInv, LoneInv, NEW p \in Actors, NEW at \in Stops, Begin(p, at)
    PROVE  LoneInv'
<1>1. /\ mempool' = mempool /\ actor[p].at = "idle" /\ actor'[p].at = at
      /\ actor'[p].alone = (AtWork = {})
      /\ \A q \in Actors : q # p => /\ actor'[q].at = actor[q].at
                                    /\ actor'[q].alone = (actor[q].alone /\ q \notin AtWork)
  BY BeginFrame DEF chainVars
<1>2. AtWork' = AtWork \cup {p}
  BY <1>1 DEF AtWork, Stops
<1>3. p \notin AtWork
  BY <1>1, IdleRests
<1>4. ASSUME NEW q \in Actors, q # p
      PROVE  /\ actor'[q].at = "idle" => actor'[q].alone
             /\ actor'[q].alone /\ q \in AtWork' => AtWork' = {q}
  BY <1>1, <1>2, <1>4, IdleRests DEF LoneInv
<1>5. /\ actor'[p].at = "idle" => actor'[p].alone
      /\ actor'[p].alone /\ p \in AtWork' => AtWork' = {p}
  BY <1>1, <1>2, <1>3 DEF Stops
<1>6. QED
  BY <1>4, <1>5 DEF LoneInv

LEMMA LoneFrame ==
    ASSUME LocalInv, LoneInv, NEW p \in Actors, Frame(p)
    PROVE  LoneInv' /\ AtWork' \subseteq AtWork
<1>1. /\ \A q \in Actors : q # p => actor'[q] = actor[q]
      /\ SameSelf(actor'[p], actor[p]) /\ actor'[p].at # "idle" /\ p \in AtWork
      /\ \A tx \in mempool' : tx \in mempool \/ tx.by = p
  BY DEF Frame
<1>2. AtWork' \subseteq AtWork
  BY <1>1 DEF AtWork
<1>3. ASSUME NEW q \in Actors
      PROVE  /\ actor'[q].at = "idle" => actor'[q].alone
             /\ actor'[q].alone /\ q \in AtWork' => AtWork' = {q}
  <2>1. actor'[q].alone = actor[q].alone
    BY <1>1 DEF SameSelf
  <2>2. actor'[q].at = "idle" => actor[q].at = "idle"
    BY <1>1
  <2>3. QED
    BY <1>2, <2>1, <2>2 DEF LoneInv
<1>4. QED
  BY <1>2, <1>3 DEF LoneInv

\* The work on a button is that of its request, until it is given up.
ButtonInv ==
    ~abandoned => \A r \in Requests : actor[r].at \in Stops => request[r].at = "served" /\ Funding(r)

Quiet == ~abandoned /\ \A p \in Clients \cup Others : actor[p].alone

\* While nobody is disturbed all additions are in the balance, and who is about to add
\* to it has seen it as it is.
SeenInv ==
    Quiet => /\ native = added * NativeTopup
             /\ \A p \in Actors : actor[p].at = "set-native" => actor[p].seen = native

LEMMA OneAtWork ==
    ASSUME Quiet, LoneInv, ButtonInv, FundInv,
           NEW p \in Actors, NEW q \in Actors, actor[p].at \in Stops, actor[q].at \in Stops
    PROVE  p = q
<1>1. p \in AtWork /\ q \in AtWork
  BY Working
<1>2. CASE p \in Clients \cup Others \/ q \in Clients \cup Others
  BY <1>1, <1>2 DEF Quiet, LoneInv
<1>3. CASE p \in Requests /\ q \in Requests
  <2>1. /\ p \in Requests /\ request[p].at = "served" /\ Funding(p)
        /\ q \in Requests /\ request[q].at = "served" /\ Funding(q)
    BY <1>3 DEF Quiet, ButtonInv
  <2>2. QED
    BY <2>1 DEF FundInv, InFlight, Funding
<1>4. QED
  BY <1>2, <1>3, ButtonsAssumption DEF Actors

\* What a request for money sees of the panel's other steps: nothing.
ServedStays ==
    \A r \in Requests : request[r].at = "served" /\ Funding(r) => request'[r] = request[r]

\* A step of the desk, as the chain and its users see it.
ChainMoves ==
    \/ UNCHANGED <<localVars, abandoned>> /\ ServedStays
    \/ /\ UNCHANGED <<request, abandoned>>
       /\ \/ LocalStep
          \/ \E c \in Clients : Begin(c, "address")
          \/ \E b \in Others, at \in {"native", "usdc"} : Begin(b, at)
    \/ \E r \in Requests : Received(r) \/ FundAnswered(r) \/ GivenUp(r)

LEMMA PanelServed ==
    ASSUME PanelTypeOK, NEW kinds \in SUBSET Buttoned, NEW last, NEW answers,
           PanelStep(last, kinds, answers) \/ SaveElsewhere
    PROVE  ServedStays
<1>1. request \in [Requests -> RequestRecord]
  BY DEF PanelTypeOK
<1>2. ASSUME NEW q \in Requests, NEW v, request' = [request EXCEPT ![q] = v],
             request[q].at # "served" \/ ~Funding(q)
      PROVE  ServedStays
  BY <1>1, <1>2 DEF ServedStays
<1>3. ASSUME NEW q \in Requests,
             \/ ServePolicy(q) \/ ServeRefill(q) \/ Forward(q) \/ BeginEstimate(q)
             \/ SnapshotForEstimate(q) \/ QuoteEstimate(q)
             \/ Loaded(q) \/ Saved(q) \/ Estimated(q) \/ StatusKnown(q, answers)
             \/ \E kind \in kinds : Press(q, kind)
      PROVE  ServedStays
  <2>1. request[q].at # "served" \/ ~Funding(q)
    BY <1>3 DEF ServePolicy, ServeRefill, Forward, BeginEstimate, SnapshotForEstimate,
                QuoteEstimate, Loaded, Saved, Estimated, StatusKnown, Press, Unsent, Funding
  <2>2. \A r \in Requests : r # q => request'[r] = request[r]
    BY <1>1, <1>3 DEF ServePolicy, ServeRefill, Forward, BeginEstimate, SnapshotForEstimate,
                QuoteEstimate, Loaded, Saved, Estimated, StatusKnown, Press, Served, Over
  <2>3. QED
    BY <2>1, <2>2 DEF ServedStays
<1>4. ASSUME NEW q \in Requests, NEW next \in Requests, Refilled(q, next)
      PROVE  ServedStays
  <2>1. request[q].kind = "refill" /\ request[next].at = "unsent"
    BY <1>4 DEF Refilled, Unsent
  <2>2. request' = [request EXCEPT ![q].at = "over",
                                   ![next] = [at |-> "asked", saw |-> 0, kind |-> "estimate"]]
    BY <1>4 DEF Refilled, Refresh
  <2>3. \A r \in Requests : r \notin {q, next} => request'[r] = request[r]
    BY <1>1, <2>2
  <2>4. QED
    BY <2>1, <2>3 DEF ServedStays, Funding
<1>5. CASE SaveElsewhere
  BY <1>5 DEF SaveElsewhere, ServedStays
<1>6. QED
  BY <1>3, <1>4, <1>5 DEF PanelStep

LEMMA ChainPart ==
    ASSUME scene \in Scenes, PanelTypeOK, Next \/ UNCHANGED deskVars
    PROVE  ChainMoves
<1>1. ASSUME NEW part, part \notin {"chain", "panel"}, Only(part)
      PROVE  UNCHANGED <<localVars, request, abandoned>>
  BY <1>1 DEF Only, panelVars
<1>2. CASE \E r \in Requests : Received(r) \/ FundAnswered(r) \/ GivenUp(r)
  BY <1>2 DEF ChainMoves
<1>3. CASE Only("chain") /\ LocalStep
  <2>1. UNCHANGED <<request, abandoned>>
    BY <1>3 DEF Only, panelVars
  <2>2. QED
    BY <1>3, <2>1 DEF ChainMoves
<1>4. CASE Only("chain") /\ \E c \in scene.clients : Begin(c, "address")
  <2>1. UNCHANGED <<request, abandoned>>
    BY <1>4 DEF Only, panelVars
  <2>2. scene.clients \subseteq Clients
    BY WorldAssumption
  <2>3. QED
    BY <1>4, <2>1, <2>2 DEF ChainMoves
<1>5. CASE Only("chain") /\ \E b \in Others, kind \in {"native", "usdc"} : FundElsewhere(b, kind)
  <2>1. UNCHANGED <<request, abandoned>>
    BY <1>5 DEF Only, panelVars
  <2>2. QED
    BY <1>5, <2>1 DEF ChainMoves, FundElsewhere
<1>6. CASE Has("panel") /\ Only("panel") /\ PanelStep(scene.last, scene.kinds, StatusAnswers(scene.tools))
  <2>1. UNCHANGED <<localVars, abandoned>>
    BY <1>6 DEF Only
  <2>2. scene.kinds \in SUBSET Buttoned
    BY <1>6, KindsAssumption DEF Has, Buttoned
  <2>3. ServedStays
    BY <1>6, <2>2, PanelServed
  <2>4. QED
    BY <2>1, <2>3 DEF ChainMoves
<1>7. CASE Only("panel") /\ SaveElsewhere
  <2>1. UNCHANGED <<localVars, abandoned>> /\ ServedStays
    BY <1>7 DEF Only, SaveElsewhere, ServedStays
  <2>2. QED
    BY <2>1 DEF ChainMoves
<1>8. CASE \E part \in {"tables", "rows", "metrics", "overview", "caps"} : Only(part)
  <2>1. UNCHANGED <<localVars, request, abandoned>>
    BY <1>1, <1>8
  <2>2. QED
    BY <2>1 DEF ChainMoves, ServedStays
<1>9. CASE UNCHANGED deskVars
  BY <1>9 DEF deskVars, panelVars, ChainMoves, ServedStays
<1>10. QED
  BY <1>2, <1>3, <1>4, <1>5, <1>6, <1>7, <1>8, <1>9 DEF Next

LEMMA StepHasFrame ==
    ASSUME LocalInv, LocalStep
    PROVE  \E p \in Actors : Frame(p)
<1>1. CASE \E p \in Clients : ClientStep(p)
  BY <1>1, ClientFrame DEF Actors
<1>2. CASE \E p \in Actors : RouteStep(p) \/ NodeFails(p)
  BY <1>2, RouteFrame
<1>3. CASE Mine
  <2>1. PICK tx \in mempool : Takes(tx)
    BY <1>3 DEF Mine, Takes
  <2>2. tx.by \in Actors
    BY DEF LocalInv, LocalTypeOK, TxRecord
  <2>3. QED
    BY <2>1, <2>2, MineFrame
<1>4. QED
  BY <1>1, <1>2, <1>3 DEF LocalStep

DeskInv == LocalInv /\ LoneInv /\ ButtonInv /\ SeenInv

LEMMA DeskFrame ==
    ASSUME DeskInv, FundInv, UNCHANGED <<request, abandoned>>, NEW p \in Actors, Frame(p)
    PROVE  DeskInv'
<1>1. LocalInv' /\ LoneInv'
  BY LoneFrame DEF DeskInv, Frame
<1>2. /\ \A q \in Actors : q # p => actor'[q] = actor[q]
      /\ actor'[p].alone = actor[p].alone
      /\ actor'[p].at \in Stops => actor[p].at \in Stops
      /\ Reads(p) \/ Sets(p)
  BY DEF Frame, SameSelf
<1>3. ButtonInv'
  <2>1. \A r \in Requests : actor'[r].at \in Stops => actor[r].at \in Stops
    BY <1>2, ButtonsAssumption DEF Actors
  <2>2. QED
    BY <2>1 DEF DeskInv, ButtonInv, Funding
<1>4. SeenInv'
  <2>1. SUFFICES ASSUME Quiet'
                 PROVE  /\ native' = added' * NativeTopup
                        /\ \A q \in Actors : actor'[q].at = "set-native" => actor'[q].seen = native'
    BY DEF SeenInv
  <2>2. Quiet
    BY <1>2, <2>1, ButtonsAssumption DEF Quiet, Actors
  <2>3. /\ native = added * NativeTopup
        /\ \A q \in Actors : actor[q].at = "set-native" => actor[q].seen = native
    BY <2>2 DEF DeskInv, SeenInv
  <2>4. CASE Reads(p)
    BY <1>2, <2>3, <2>4 DEF Reads
  <2>5. CASE Sets(p)
    <3>1. \A q \in Actors : actor[q].at = "set-native" => q = p
      <4>1. "set-native" \in Stops /\ actor[p].at = "set-native"
        BY <2>5 DEF Sets, Stops
      <4>2. QED
        BY <2>2, <4>1, OneAtWork DEF DeskInv
    <3>2. native' = native + NativeTopup /\ added' = added + 1 /\ actor'[p].at # "set-native"
      BY <2>3, <2>5 DEF Sets
    <3>3. native' = added' * NativeTopup
      <4>1. PICK a \in Nat, t \in Nat : a = added /\ t = NativeTopup
        BY AmountsAssumption DEF DeskInv, LocalInv, LocalTypeOK
      <4>2. a * t + t = (a + 1) * t
        OBVIOUS
      <4>3. QED
        BY <2>3, <3>2, <4>1, <4>2
    <3>4. QED
      BY <1>2, <3>1, <3>2, <3>3
  <2>6. QED
    BY <1>2, <2>4, <2>5
<1>5. QED
  BY <1>1, <1>3, <1>4 DEF DeskInv

LEMMA DeskBegin ==
    ASSUME DeskInv, NEW p \in Actors, NEW at \in Stops \ {"set-native"}, Begin(p, at), abandoned' = abandoned,
           \A r \in Requests : r # p => request'[r] = request[r],
           p \in Requests => request'[p].at = "served" /\ Funding(p)'
    PROVE  DeskInv'
<1>1. LocalInv' /\ LoneInv'
  BY BeginFrame, LoneBegin DEF DeskInv
<1>2. /\ native' = native /\ added' = added /\ actor[p].at = "idle" /\ actor'[p].at = at
      /\ \A q \in Actors : q # p =>
             /\ actor'[q].at = actor[q].at
             /\ actor'[q].alone = (actor[q].alone /\ q \notin AtWork)
             /\ SameAim(actor'[q], actor[q])
  BY BeginFrame DEF DeskInv, chainVars
<1>3. ButtonInv'
  <2>1. \A r \in Requests : r # p /\ actor'[r].at \in Stops => actor[r].at \in Stops
    BY <1>2, ButtonsAssumption DEF Actors
  <2>2. QED
    BY <2>1 DEF DeskInv, ButtonInv, Funding
<1>4. SeenInv'
  <2>1. Quiet' => Quiet
    BY <1>2, ButtonsAssumption DEF Quiet, Actors, DeskInv, LoneInv
  <2>2. QED
    BY <1>2, <2>1 DEF DeskInv, SeenInv, SameAim
<1>5. QED
  BY <1>1, <1>3, <1>4 DEF DeskInv

LEMMA DeskKeeps ==
    ASSUME DeskInv, PanelInv, ChainMoves
    PROVE  DeskInv'
<1>1. request \in [Requests -> RequestRecord] /\ FundInv
  BY DEF PanelInv, PanelTypeOK
<1>2. ASSUME UNCHANGED localVars, abandoned' = abandoned,
             \A r \in Requests : actor[r].at \in Stops /\ ~abandoned =>
                 request'[r].at = "served" /\ request'[r].kind \in {"native", "usdc"}
      PROVE  DeskInv'
  <2>1. LocalInv' /\ LoneInv' /\ SeenInv'
    BY <1>2 DEF DeskInv, localVars, chainVars, LocalInv, LocalTypeOK, TxInv, LoneInv, AtWork,
                SeenInv, Quiet
  <2>2. ButtonInv'
    BY <1>2 DEF localVars, ButtonInv, Funding
  <2>3. QED
    BY <2>1, <2>2 DEF DeskInv
<1>3. CASE UNCHANGED <<localVars, abandoned>> /\ ServedStays
  BY <1>2, <1>3 DEF ServedStays, DeskInv, ButtonInv, Funding
<1>4. CASE UNCHANGED <<request, abandoned>> /\ LocalStep
  BY <1>1, <1>4, StepHasFrame, DeskFrame DEF DeskInv
<1>5. CASE UNCHANGED <<request, abandoned>> /\ \E c \in Clients : Begin(c, "address")
  <2>1. PICK c \in Clients : Begin(c, "address")
    BY <1>5
  <2>2. c \in Actors /\ c \notin Requests /\ "address" \in Stops \ {"set-native"}
    BY ActorsAssumption, ButtonsAssumption DEF Actors, Stops
  <2>3. QED
    BY <1>5, <2>1, <2>2, DeskBegin
<1>6. CASE /\ UNCHANGED <<request, abandoned>>
            /\ \E b \in Others, at \in {"native", "usdc"} : Begin(b, at)
  <2>1. PICK b \in Others, at \in {"native", "usdc"} : Begin(b, at)
    BY <1>6
  <2>2. b \in Actors /\ b \notin Requests /\ at \in Stops \ {"set-native"}
    BY ButtonsAssumption DEF Actors, Stops
  <2>3. QED
    BY <1>6, <2>1, <2>2, DeskBegin
<1>7. ASSUME NEW r \in Requests, Received(r) PROVE DeskInv'
  <2>1. /\ Funding(r) /\ request' = [request EXCEPT ![r].at = "served", ![r].saw = 0]
        /\ Begin(r, request[r].kind) /\ abandoned' = abandoned
    BY <1>7 DEF Received, Served
  <2>2. request'[r].at = "served" /\ request'[r].kind = request[r].kind
        /\ \A q \in Requests : q # r => request'[q] = request[q]
    <3>1. request[r] \in RequestRecord
      BY <1>1
    <3> DEFINE a == [request[r] EXCEPT !.at = "served"]
    <3> DEFINE b == [a EXCEPT !.saw = 0]
    <3>2. request' = [request EXCEPT ![r] = b]
      BY <2>1
    <3>3. a \in RequestRecord /\ a.at = "served" /\ a.kind = request[r].kind
      BY <3>1 DEF RequestRecord, Stages
    <3> HIDE DEF a
    <3>4. b.at = "served" /\ b.kind = request[r].kind
      BY <3>3 DEF RequestRecord
    <3> HIDE DEF b
    <3>5. QED
      BY <1>1, <3>2, <3>4
  <2>3. Funding(r)'
    BY <2>1, <2>2 DEF Funding
  <2>4. r \in Actors /\ request[r].kind \in Stops \ {"set-native"}
    BY <2>1, ButtonsAssumption DEF Actors, Funding, Stops
  <2>5. QED
    BY <2>1, <2>2, <2>3, <2>4, DeskBegin
<1>8. ASSUME NEW r \in Requests, FundAnswered(r) PROVE DeskInv'
  <2>1. /\ UNCHANGED localVars /\ abandoned' = abandoned
        /\ request[r].at = "asked" \/ actor[r].at \in {"done", "failed"}
        /\ request' = [request EXCEPT ![r].at = "over"]
    BY <1>8 DEF FundAnswered, Only, Funded, Over
  <2>2. \A q \in Requests : q # r => request'[q] = request[q]
    BY <1>1, <2>1
  <2>3. ~abandoned => actor[r].at \notin Stops
    BY <2>1 DEF DeskInv, ButtonInv, Stops
  <2>4. QED
    BY <1>2, <2>1, <2>2, <2>3 DEF DeskInv, ButtonInv, Funding
<1>9. ASSUME NEW r \in Requests, GivenUp(r) PROVE DeskInv'
  <2>1. UNCHANGED localVars /\ abandoned'
    BY <1>9 DEF GivenUp
  <2>2. LocalInv' /\ LoneInv'
    BY <2>1 DEF DeskInv, localVars, chainVars, LocalInv, LocalTypeOK, TxInv, LoneInv, AtWork
  <2>3. QED
    BY <2>1, <2>2 DEF DeskInv, ButtonInv, SeenInv, Quiet
<1>10. QED
  BY <1>3, <1>4, <1>5, <1>6, <1>7, <1>8, <1>9 DEF ChainMoves

LEMMA LocalInitInv ==
    ASSUME NEW world \in Worlds, LocalInit(world)
    PROVE  /\ LocalInv /\ LoneInv
           /\ native = 0 /\ added = 0
           /\ \A p \in Actors : /\ actor[p].at = "idle" /\ actor[p].why = "nothing"
                                /\ actor[p].cost = 0 /\ actor[p].fee = 0 /\ ~actor[p].sent
<1>1. world.usdc \in [Holders -> Nat] /\ world.ops \in Nat /\ world.faults \in Nat
      /\ world.kinds \in [Clients -> {"simulation", "smoke", "until-empty"}]
  BY DEF Worlds
<1> DEFINE Begun(p) ==
           [kind |-> IF p \in Clients THEN world.kinds[p] ELSE "button", at |-> "idle",
            for |-> "seed", whale |-> ApiWhale, seen |-> 0, ops |-> world.ops, sent |-> FALSE,
            fee |-> 0, cost |-> 0, alone |-> TRUE, why |-> "nothing"]
<1>2. /\ native = 0 /\ deposit = 0 /\ funder = 0 /\ added = 0
      /\ usdc = world.usdc /\ faults = world.faults /\ borrowed = {} /\ mempool = {}
      /\ actor = [p \in Actors |-> Begun(p)]
  BY DEF LocalInit
<1>3. ASSUME NEW p \in Actors
      PROVE  /\ Begun(p) \in ActorRecord /\ Begun(p).at = "idle" /\ Begun(p).why = "nothing"
             /\ Begun(p).cost = 0 /\ Begun(p).fee = 0 /\ Begun(p).sent = FALSE
             /\ Begun(p).alone = TRUE
  <2>1. PICK kind \in {"simulation", "smoke", "until-empty", "button"} :
            kind = IF p \in Clients THEN world.kinds[p] ELSE "button"
    BY <1>1
  <2>2. ApiWhale \in WhaleSet /\ "nothing" \in Whys
    BY WhalesAre DEF Whys
  <2>3. QED
    BY <1>1, <2>1, <2>2 DEF ActorRecord
<1> HIDE DEF Begun
<1>4. actor \in [Actors -> ActorRecord] /\ \A p \in Actors : actor[p] = Begun(p)
  BY <1>2, <1>3
<1>5. LocalInv
  BY <1>1, <1>2, <1>4 DEF LocalInv, LocalTypeOK, TxInv
<1>6. AtWork = {}
  BY <1>2, <1>3, <1>4 DEF AtWork
<1>7. LoneInv
  BY <1>3, <1>4, <1>6 DEF LoneInv
<1>8. QED
  BY <1>2, <1>3, <1>4, <1>5, <1>7

\* Every addition to the paymaster's balance that was confirmed is in it, unless a
\* request was given up in the middle, or a simulation or a request from another tab
\* was at work at the same time as somebody else: the api has no lock, and only the
\* two buttons of the one panel are kept apart, by the panel.
THEOREM AdditionsCorrect == Spec => [](LocalTypeOK /\ AdditionsKept)
<1> DEFINE Inv == scene \in Scenes /\ PanelInv /\ DeskInv
<1>1. Init => Inv
  <2> SUFFICES ASSUME Init PROVE Inv
    OBVIOUS
  <2>1. scene.world \in Worlds /\ PanelInv
    BY PanelInitInv, WorldAssumption DEF Init
  <2>2. /\ LocalInv /\ LoneInv /\ native = 0 /\ added = 0
        /\ \A p \in Actors : actor[p].at = "idle"
    BY <2>1, LocalInitInv DEF Init
  <2>3. \A p \in Actors : actor[p].at \notin Stops /\ actor[p].at # "set-native"
    BY <2>2 DEF Stops
  <2>4. ButtonInv
    BY <2>3, ButtonsAssumption DEF ButtonInv, Actors
  <2>5. 0 = 0 * NativeTopup
    BY AmountsAssumption
  <2>6. QED
    BY <2>1, <2>2, <2>3, <2>4, <2>5 DEF Init, DeskInv, SeenInv
<1>2. Inv /\ [Next]_deskVars => Inv'
  <2> SUFFICES ASSUME Inv, [Next]_deskVars PROVE Inv'
    OBVIOUS
  <2>1. PanelInv' /\ scene' \in Scenes
    <3>1. PanelMoves
      BY PanelPart DEF PanelMoves, deskVars
    <3>2. QED
      BY <3>1, PanelStepKeeps, SceneStays
  <2>2. ChainMoves
    BY ChainPart DEF PanelInv
  <2>3. QED
    BY <2>1, <2>2, DeskKeeps
<1>3. Inv => LocalTypeOK /\ AdditionsKept
  BY DEF DeskInv, LocalInv, SeenInv, Quiet, AdditionsKept
<1>4. QED
  BY <1>1, <1>2, <1>3, PTL DEF Spec
-----------------------------------------------------------------------------
(* A client that nobody disturbs *)

\* What of the configuration its success rests on: as much is paid as is needed.
Sensible ==
    DepositMin <= DepositTopup /\ AccountMin <= AccountFund /\ MinToContinue <= AccountMin

\* Where money goes: an operation pays the paymaster from the account, lenders pay for
\* the rest, and only clients wait for what they borrow.
MoneyInv ==
    \A tx \in mempool :
        /\ tx.what = "op" => tx.from = "account" /\ tx.to = "paymaster" /\ tx.amount > 0
        /\ tx.what \in {"transfer", "fund-usdc"} => tx.from \in WhaleSet
        /\ tx.what = "fund-usdc" => tx.to = "paymaster"
        /\ tx.what = "transfer" => tx.by \in Clients

\* Before the deposit is there; before the first operation.
BeforeDeposit == {"address", "deposit", "set-funder", "send-deposit", "await-deposit"}
BeforeOps == BeforeDeposit \cup {"native", "set-native", "usdc", "api-send", "return", "seed",
                                 "account", "borrow", "send", "await-transfer", "refill"}

Excuses == {"nothing", "node", "address", "sponsor", "refill", "funds"}

\* There is no reason to fail but these.
WhyInv(c) ==
    /\ actor[c].why \in Excuses \/ LenderRunsDry
    /\ actor[c].at \in (Stops \ {"return"}) \cup {"idle"} => actor[c].why = "nothing"
    /\ actor[c].at = "return" => actor[c].why \in {"nothing", "node"}

\* It may still wait for what it has sent only where it waits, or if it has failed.
Waits(c, what, at) ==
    \A tx \in mempool : tx.by = c /\ tx.what = what =>
        \/ actor[c].at = at
        \/ actor[c].at \in {"failed", "done"} /\ actor[c].why # "nothing"

Single(c, what) ==
    \A t, u \in mempool : t.by = c /\ u.by = c /\ t.what = what /\ u.what = what => t = u

\* The account that pays the deposit has the money, and once the transaction is
\* executed the deposit is enough.
DepositInv(c) ==
    /\ Waits(c, "deposit", "await-deposit") /\ Single(c, "deposit")
    /\ actor[c].at = "send-deposit" => funder >= DepositTopup
    /\ \A tx \in mempool : tx.by = c /\ tx.what = "deposit" =>
           tx.amount = DepositTopup /\ funder >= DepositTopup
    /\ \/ actor[c].at \in Stops \ BeforeDeposit
       \/ actor[c].at = "await-deposit" /\ ~Pending(c, "deposit")
       => deposit >= DepositMin

\* The lender is borrowed until the transfer is sent, and once that is executed who was
\* to have it has enough.
TransferInv(c) ==
    /\ Waits(c, "transfer", "await-transfer")
    /\ actor[c].at = "api-send" => ApiWhale \in borrowed
    /\ actor[c].at = "send" => actor[c].whale \in borrowed
    /\ \A tx \in mempool : tx.by = c /\ tx.what = "transfer" /\ actor[c].at = "await-transfer" =>
           /\ tx.to = Purpose[actor[c].for].holder
           /\ tx.amount = Purpose[actor[c].for].amount
    /\ actor[c].at = "await-transfer" /\ ~Pending(c, "transfer") =>
           \/ usdc[Purpose[actor[c].for].holder] >= Purpose[actor[c].for].least
           \/ LenderRunsDry
    /\ actor[c].at = "refill" => usdc["paymaster"] >= SeedMin \/ LenderRunsDry

\* What an operation costs is the difference of the balances.
OpInv(c) ==
    /\ Waits(c, "op", "await-op") /\ Single(c, "op")
    /\ \/ actor[c].at = "send-op"
       \/ actor[c].at = "await-op" /\ Pending(c, "op")
       => actor[c].seen = usdc["account"]
    /\ actor[c].at = "await-op" /\ ~Pending(c, "op") =>
           actor[c].seen - usdc["account"] = actor[c].cost /\ actor[c].cost > 0

\* What it has measured of the last operation, and what it has left for the next.
FeeInv(c) ==
    /\ actor[c].at \in BeforeOps \cup {"idle"} => actor[c].cost = 0 /\ actor[c].fee = 0
    /\ \/ actor[c].at \in {"next", "op"}
       \/ actor[c].at = "done" /\ actor[c].why = "nothing"
       => actor[c].fee = actor[c].cost
    /\ actor[c].at \in {"next", "op"} =>
           \/ actor[c].cost # 0 /\ actor[c].sent
           \/ actor[c].cost = 0 /\ (usdc["account"] >= AccountMin \/ LenderRunsDry)
    /\ actor[c].at = "done" /\ actor[c].kind = "until-empty" /\ actor[c].why = "nothing" =>
           /\ actor[c].sent
           /\ usdc["account"] < MinToContinue \/ \E q \in Clients \ {c} : actor[q].at # "idle"

Lone(c) == WhyInv(c) /\ DepositInv(c) /\ TransferInv(c) /\ OpInv(c) /\ FeeInv(c)

ClientsInv == MoneyInv /\ \A c \in Clients : actor[c].alone => Lone(c)

LEMMA GoneTo ==
    ASSUME LocalTypeOK, NEW p \in Actors, NEW at \in Stops \cup {"done", "failed"}, Goes(p, at)
    PROVE  actor'[p].at = at /\ actor'[p].why = actor[p].why /\ SameRest(actor'[p], actor[p])
<1>1. PICK m \in ActorRecord :
               /\ Turns(p, m) /\ m.at = at /\ m.why = actor[p].why /\ SameRest(m, actor[p])
  BY GoesMove
<1>2. QED
  BY <1>1, ActorIs

LEMMA FailedFor ==
    ASSUME LocalTypeOK, NEW p \in Actors, NEW why \in Whys, Fails(p, why)
    PROVE  actor'[p].at \in {"done", "failed"} /\ actor'[p].why = why /\ SameRest(actor'[p], actor[p])
<1>1. PICK m \in ActorRecord :
               /\ Turns(p, m) /\ m.at = Ended(p) /\ m.why = why /\ SameRest(m, actor[p])
  BY FailsMove
<1>2. QED
  BY <1>1, ActorIs DEF Ended

\* Lenders only lend, and nobody but the account loses.
LEMMA LendersLend ==
    ASSUME LocalInv, MoneyInv, NEW tx \in mempool, Takes(tx)
    PROVE  /\ LenderRunsDry => LenderRunsDry'
           /\ usdc'["paymaster"] >= usdc["paymaster"]
           /\ tx.what # "transfer" => usdc'["account"] <= usdc["account"]
           /\ tx.what \notin {"transfer", "op"} => usdc'["account"] = usdc["account"]
           /\ deposit' >= deposit
<1>1. /\ usdc \in [Holders -> Nat] /\ tx.amount \in Nat /\ deposit \in Nat
      /\ tx.what \in {"deposit", "transfer", "fund-usdc", "op"}
      /\ tx.what # "deposit" => tx.from \in Holders /\ tx.to \in {"paymaster", "account"} /\ tx.from # tx.to
  BY DEF LocalInv, LocalTypeOK, TxRecord, TxInv
<1>2. deposit' >= deposit
  BY <1>1 DEF Takes
<1>3. CASE usdc' = usdc
  BY <1>1, <1>2, <1>3, WhalesAre DEF LenderRunsDry
<1>4. CASE usdc' # usdc
  <2>1. /\ tx.what # "deposit"
        /\ usdc'[tx.from] = usdc[tx.from] - tx.amount
        /\ usdc'[tx.to] = usdc[tx.to] + tx.amount
        /\ \A h \in Holders \ {tx.from, tx.to} : usdc'[h] = usdc[h]
        /\ usdc' \in [Holders -> Nat]
    BY <1>4, MoneyMoves
  <2>2. /\ tx.what = "op" => tx.from = "account" /\ tx.to = "paymaster"
        /\ tx.what \in {"transfer", "fund-usdc"} => tx.from \in WhaleSet
        /\ tx.what = "fund-usdc" => tx.to = "paymaster"
    BY DEF MoneyInv
  <2>3. ASSUME NEW w \in WhaleSet
        PROVE  usdc'[w] <= usdc[w] /\ usdc[w] \in Nat /\ usdc'[w] \in Nat
    <3>1. w \in Holders /\ w # tx.to
      BY <1>1, <2>1, WhalesAre
    <3>2. usdc[w] \in Nat /\ usdc'[w] \in Nat
      BY <1>1, <2>1, <3>1
    <3>3. CASE w = tx.from
      BY <1>1, <2>1, <3>2, <3>3
    <3>4. CASE w # tx.from
      BY <2>1, <3>1, <3>2, <3>4
    <3>5. QED
      BY <3>2, <3>3, <3>4
  <2>4. LenderRunsDry => LenderRunsDry'
    <3>1. SeedMin \in Nat /\ AccountFund \in Nat
      BY AmountsAssumption
    <3>2. QED
      BY <2>3, <3>1 DEF LenderRunsDry
  <2>5. usdc'["paymaster"] >= usdc["paymaster"]
    BY <1>1, <2>1, <2>2, WhalesAre
  <2>6. tx.what # "transfer" => usdc'["account"] <= usdc["account"]
    BY <1>1, <2>1, <2>2, WhalesAre
  <2>7. tx.what \notin {"transfer", "op"} => usdc'["account"] = usdc["account"]
    BY <1>1, <2>1, <2>2, WhalesAre
  <2>8. QED
    BY <1>2, <2>4, <2>5, <2>6, <2>7
<1>5. QED
  BY <1>3, <1>4

\* It sends nothing of the kind.
SendsNo(c, what) == \A tx \in mempool' : tx.by = c /\ tx.what = what => tx \in mempool

\* It has failed, and what is still on its way changes nothing.
LEMMA LoneStops ==
    ASSUME NEW c \in Actors, Lone(c), UNCHANGED <<deposit, funder, usdc>>, mempool' \subseteq mempool,
           actor'[c].at \in {"failed", "done"}, actor'[c].why # "nothing",
           actor'[c].why \in Excuses \/ LenderRunsDry
    PROVE  Lone(c)'
<1>1. WhyInv(c)'
  BY DEF WhyInv, LenderRunsDry, Stops
<1>2. DepositInv(c)'
  BY DEF Lone, DepositInv, Waits, Single, Stops
<1>3. TransferInv(c)'
  BY DEF Lone, TransferInv, Waits
<1>4. OpInv(c)'
  BY DEF Lone, OpInv, Waits, Single
<1>5. FeeInv(c)'
  BY DEF FeeInv, BeforeOps, BeforeDeposit
<1>6. QED
  BY <1>1, <1>2, <1>3, <1>4, <1>5 DEF Lone

LEMMA WhyStays ==
    ASSUME NEW c \in Actors, Lone(c), actor[c].at \in Stops \ {"return"},
           actor'[c].why = actor[c].why
    PROVE  WhyInv(c)'
BY DEF Lone, WhyInv, Excuses

LEMMA DepositStays ==
    ASSUME NEW c \in Actors, Lone(c), deposit \in Nat, deposit' = deposit,
           SendsNo(c, "deposit"),
           actor[c].at \in Stops \ BeforeDeposit, actor'[c].at \in (Stops \ BeforeDeposit) \cup {"done"}
    PROVE  DepositInv(c)'
<1>1. \A tx \in mempool' : tx.by = c => tx.what # "deposit"
  BY DEF SendsNo, Lone, DepositInv, Waits, Stops, BeforeDeposit
<1>2. deposit' >= DepositMin
  BY DEF Lone, DepositInv
<1>3. actor'[c].at # "send-deposit"
  BY DEF Stops, BeforeDeposit
<1>4. QED
  BY <1>1, <1>2, <1>3 DEF DepositInv, Waits, Single

LEMMA TransferStays ==
    ASSUME NEW c \in Actors, Lone(c), SendsNo(c, "transfer"),
           actor[c].at \in Stops \ {"await-transfer"},
           actor'[c].at \notin {"api-send", "send", "await-transfer", "refill"}
    PROVE  TransferInv(c)'
<1>1. \A tx \in mempool' : tx.by = c => tx.what # "transfer"
  BY DEF SendsNo, Lone, TransferInv, Waits, Stops
<1>2. QED
  BY <1>1 DEF TransferInv, Waits

LEMMA OpStays ==
    ASSUME NEW c \in Actors, Lone(c), SendsNo(c, "op"), actor[c].at \in Stops \ {"await-op"},
           actor'[c].at \notin {"send-op", "await-op"}
    PROVE  OpInv(c)'
<1>1. \A tx \in mempool' : tx.by = c => tx.what # "op"
  BY DEF SendsNo, Lone, OpInv, Waits, Stops
<1>2. QED
  BY <1>1 DEF OpInv, Waits, Single

LEMMA FeeStays ==
    ASSUME NEW c \in Actors, Lone(c), actor[c].at \in BeforeOps, actor'[c].at \in BeforeOps,
           SameRest(actor'[c], actor[c])
    PROVE  FeeInv(c)'
BY DEF Lone, FeeInv, BeforeOps, BeforeDeposit, SameRest, SameCount
LEMMA DepositLone ==
    ASSUME Sensible, LocalInv, NEW c \in Clients, Lone(c),
           \/ ResolveAddress(c) \/ CheckDeposit(c) \/ SetFunder(c) \/ SendDeposit(c) \/ AwaitDeposit(c)
    PROVE  Lone(c)'
<1>1. c \in Actors /\ LocalTypeOK /\ deposit \in Nat /\ funder \in Nat /\ DepositTopup \in Nat
      /\ DepositMin \in Nat
  BY AmountsAssumption DEF Actors, LocalInv, LocalTypeOK
<1>2. actor[c].at \in BeforeDeposit /\ actor[c].at \in BeforeOps /\ actor[c].at \in Stops
      /\ actor[c].at \notin {"return", "await-transfer", "await-op"}
  BY DEF ResolveAddress, CheckDeposit, SetFunder, SendDeposit, AwaitDeposit, BeforeDeposit,
         BeforeOps, Stops
<1>3. UNCHANGED <<usdc, deposit>> /\ SendsNo(c, "transfer") /\ SendsNo(c, "op")
  BY DEF ResolveAddress, CheckDeposit, SetFunder, SendDeposit, AwaitDeposit, chainVars, SendsNo,
         Submit
<1>4. ASSUME NEW at \in BeforeDeposit \cup {"native", "account"}, Goes(c, at)
      PROVE  /\ actor'[c].at = at /\ actor'[c].why = actor[c].why /\ SameRest(actor'[c], actor[c])
             /\ WhyInv(c)' /\ TransferInv(c)' /\ OpInv(c)' /\ FeeInv(c)'
  <2>1. at \in Stops /\ at \in BeforeOps
    BY DEF Stops, BeforeOps, BeforeDeposit
  <2>2. actor'[c].at = at /\ actor'[c].why = actor[c].why /\ SameRest(actor'[c], actor[c])
    BY <1>1, <1>4, <2>1, GoneTo
  <2>3. at \notin {"api-send", "send", "await-transfer", "refill", "send-op", "await-op"}
    BY DEF BeforeDeposit
  <2>4. QED
    BY <1>1, <1>2, <1>3, <2>1, <2>2, <2>3, WhyStays, TransferStays, OpStays, FeeStays
<1>5. AfterDeposit(c) \in {"native", "account"}
  BY DEF AfterDeposit
<1>6. CASE ResolveAddress(c) /\ Fails(c, "address")
  <2>1. "address" \in Whys /\ "address" \in Excuses /\ UNCHANGED <<deposit, funder, usdc, mempool>>
    BY <1>6 DEF Whys, Excuses, ResolveAddress, chainVars
  <2>2. actor'[c].at \in {"done", "failed"} /\ actor'[c].why = "address"
    BY <1>1, <1>6, <2>1, FailedFor
  <2>3. QED
    BY <1>1, <2>1, <2>2, LoneStops
<1>7. CASE ResolveAddress(c) /\ Goes(c, "deposit")
  <2>1. UNCHANGED <<deposit, funder, usdc, mempool>> /\ actor[c].at = "address"
        /\ "deposit" \in BeforeDeposit
    BY <1>7 DEF ResolveAddress, chainVars, BeforeDeposit
  <2>2. actor'[c].at = "deposit" /\ WhyInv(c)' /\ TransferInv(c)' /\ OpInv(c)' /\ FeeInv(c)'
    BY <1>4, <1>7, <2>1
  <2>3. DepositInv(c)'
    BY <2>1, <2>2 DEF Lone, DepositInv, Waits, Single, BeforeDeposit
  <2>4. QED
    BY <2>2, <2>3 DEF Lone
<1>8. CASE CheckDeposit(c)
  <2>1. UNCHANGED <<deposit, funder, usdc, mempool>> /\ actor[c].at = "deposit"
    BY <1>8 DEF CheckDeposit, chainVars
  <2>2. PICK at \in BeforeDeposit \cup {"native", "account"} :
            /\ Goes(c, at)
            /\ \/ at \in {"native", "account"} /\ deposit >= DepositMin
               \/ at = "set-funder"
    BY <1>5, <1>8 DEF CheckDeposit, BeforeDeposit
  <2>3. actor'[c].at = at /\ WhyInv(c)' /\ TransferInv(c)' /\ OpInv(c)' /\ FeeInv(c)'
    BY <1>4, <2>2
  <2>4. DepositInv(c)'
    BY <2>1, <2>2, <2>3 DEF Lone, DepositInv, Waits, Single, BeforeDeposit
  <2>5. QED
    BY <2>3, <2>4 DEF Lone
<1>9. CASE SetFunder(c)
  <2>1. UNCHANGED <<deposit, usdc, mempool>> /\ actor[c].at = "set-funder"
        /\ funder' = DepositTopup + 1 /\ "send-deposit" \in BeforeDeposit /\ Goes(c, "send-deposit")
    BY <1>9 DEF SetFunder, BeforeDeposit
  <2>2. actor'[c].at = "send-deposit" /\ WhyInv(c)' /\ TransferInv(c)' /\ OpInv(c)' /\ FeeInv(c)'
    BY <1>4, <2>1
  <2>3. \A tx \in mempool' : tx.by = c => tx.what # "deposit"
    BY <2>1 DEF Lone, DepositInv, Waits
  <2>4. funder' >= DepositTopup
    BY <1>1, <2>1
  <2>5. DepositInv(c)'
    BY <2>2, <2>3, <2>4 DEF DepositInv, Waits, Single, BeforeDeposit
  <2>6. QED
    BY <2>2, <2>5 DEF Lone
<1>10. CASE SendDeposit(c)
  <2>1. /\ UNCHANGED <<deposit, usdc, funder>> /\ actor[c].at = "send-deposit"
        /\ funder >= DepositTopup /\ "await-deposit" \in BeforeDeposit
        /\ Submit(c, "deposit", "funder", "deposit", DepositTopup) /\ Goes(c, "await-deposit")
    BY <1>10 DEF SendDeposit, BeforeDeposit, Lone, DepositInv
  <2>2. actor'[c].at = "await-deposit" /\ WhyInv(c)' /\ TransferInv(c)' /\ OpInv(c)' /\ FeeInv(c)'
    BY <1>4, <2>1
  <2> DEFINE new == [by |-> c, what |-> "deposit", from |-> "funder", to |-> "deposit",
                     amount |-> DepositTopup]
  <2>3. mempool' = mempool \cup {new}
    BY <2>1 DEF Submit
  <2>4. new.by = c /\ new.what = "deposit" /\ new.amount = DepositTopup
    OBVIOUS
  <2> HIDE DEF new
  <2>5. \A tx \in mempool' : tx.by = c /\ tx.what = "deposit" => tx = new
    BY <2>1, <2>3 DEF Lone, DepositInv, Waits
  <2>6. Pending(c, "deposit")'
    BY <2>3, <2>4 DEF Pending
  <2>7. DepositInv(c)'
    BY <2>1, <2>2, <2>4, <2>5, <2>6 DEF DepositInv, Waits, Single, BeforeDeposit
  <2>8. QED
    BY <2>2, <2>7 DEF Lone
<1>11. CASE AwaitDeposit(c)
  <2>1. UNCHANGED <<deposit, funder, usdc, mempool>> /\ actor[c].at = "await-deposit"
        /\ ~Pending(c, "deposit") /\ Goes(c, AfterDeposit(c))
    BY <1>11 DEF AwaitDeposit, chainVars
  <2>2. PICK at \in {"native", "account"} : at = AfterDeposit(c)
    BY <1>5
  <2>3. actor'[c].at = at /\ WhyInv(c)' /\ TransferInv(c)' /\ OpInv(c)' /\ FeeInv(c)'
    BY <1>4, <2>1, <2>2
  <2>4. deposit' >= DepositMin
    BY <2>1 DEF Lone, DepositInv
  <2>5. \A tx \in mempool' : tx.by = c => tx.what # "deposit"
    BY <2>1 DEF Pending
  <2>6. DepositInv(c)'
    BY <2>2, <2>3, <2>4, <2>5 DEF DepositInv, Waits, Single
  <2>7. QED
    BY <2>3, <2>6 DEF Lone
<1>12. QED
  BY <1>6, <1>7, <1>8, <1>9, <1>10, <1>11 DEF ResolveAddress

\* The funding routes, for a simulation.
LEMMA RouteLone ==
    ASSUME LocalInv, NEW c \in Clients, Lone(c), RouteStep(c)
    PROVE  Lone(c)'
<1>1. c \in Actors /\ LocalTypeOK /\ deposit \in Nat /\ c \notin Buttons
  BY ActorsAssumption DEF Actors, LocalInv, LocalTypeOK
<1>2. /\ actor[c].at \in {"native", "set-native", "usdc", "api-send", "return"}
      /\ UNCHANGED <<deposit, funder, usdc>>
  BY DEF RouteStep, ReadNative, SetNative, BorrowForApi, SendUsdc, ReturnWhale, chainVars
<1>3. /\ actor[c].at \in BeforeOps /\ actor[c].at \in Stops \ BeforeDeposit
      /\ actor[c].at \notin {"await-transfer", "await-op"}
  BY <1>2 DEF Stops, BeforeOps, BeforeDeposit
<1>4. SendsNo(c, "deposit") /\ SendsNo(c, "transfer") /\ SendsNo(c, "op")
  BY DEF RouteStep, ReadNative, SetNative, BorrowForApi, SendUsdc, ReturnWhale, chainVars, SendsNo,
         Submit
<1>5. ASSUME actor'[c].at \in {"set-native", "usdc", "api-send", "return", "seed"},
             SameRest(actor'[c], actor[c])
      PROVE  DepositInv(c)' /\ OpInv(c)' /\ FeeInv(c)'
  <2>1. /\ actor'[c].at \in BeforeOps /\ actor'[c].at \in Stops \ BeforeDeposit
        /\ actor'[c].at \notin {"send-op", "await-op"}
    BY <1>5 DEF Stops, BeforeOps, BeforeDeposit
  <2>2. QED
    BY <1>1, <1>2, <1>3, <1>4, <1>5, <2>1, DepositStays, OpStays, FeeStays
<1>6. CASE ReadNative(c)
  <2> DEFINE m == [actor[c] EXCEPT !.at = "set-native", !.seen = native]
  <2>1. Turns(c, m) /\ actor[c].at = "native"
    BY <1>6 DEF ReadNative, Turns
  <2>2. actor'[c].at = "set-native" /\ actor'[c].why = actor[c].why
        /\ SameCount(actor'[c], actor[c])
    <3>1. actor[c] \in ActorRecord
      BY <1>1, ActorIs
    <3>2. actor'[c] = m
      BY <1>1, <2>1 DEF Turns, LocalTypeOK
    <3>3. m.at = "set-native" /\ m.why = actor[c].why /\ SameCount(m, actor[c])
      BY <3>1 DEF ActorRecord, SameCount
    <3>4. QED
      BY <3>2, <3>3
  <2>3. actor[c].at \in Stops \ {"return"} /\ actor'[c].at \in (Stops \ BeforeDeposit) \cup {"done"}
    BY <2>1, <2>2 DEF Stops, BeforeDeposit
  <2>4. FeeInv(c)'
    BY <1>3, <2>2 DEF Lone, FeeInv, SameCount, BeforeOps, BeforeDeposit
  <2>5. QED
    BY <1>1, <1>2, <1>3, <1>4, <2>2, <2>3, <2>4, WhyStays, DepositStays, TransferStays, OpStays DEF Lone
<1>7. CASE SetNative(c)
  <2>1. Goes(c, "usdc") /\ "usdc" \in Stops /\ actor[c].at \in Stops \ {"return"}
    BY <1>1, <1>7 DEF SetNative, Answered, Stops
  <2>2. actor'[c].at = "usdc" /\ actor'[c].why = actor[c].why /\ SameRest(actor'[c], actor[c])
    BY <1>1, <2>1, GoneTo
  <2>3. QED
    BY <1>1, <1>3, <1>4, <1>5, <2>1, <2>2, WhyStays, TransferStays DEF Lone
<1>8. CASE BorrowForApi(c)
  <2>1. Goes(c, "api-send") /\ "api-send" \in Stops /\ actor[c].at \in Stops \ {"return"}
        /\ ApiWhale \in borrowed' /\ mempool' = mempool /\ actor[c].at = "usdc"
    BY <1>8 DEF BorrowForApi, Stops
  <2>2. actor'[c].at = "api-send" /\ actor'[c].why = actor[c].why /\ SameRest(actor'[c], actor[c])
    BY <1>1, <2>1, GoneTo
  <2>3. TransferInv(c)'
    BY <2>1, <2>2 DEF Lone, TransferInv, Waits
  <2>4. QED
    BY <1>1, <1>5, <2>1, <2>2, <2>3, WhyStays DEF Lone
<1>9. CASE SendUsdc(c)
  <2>1. ApiWhale \in borrowed /\ Goes(c, "return") /\ "return" \in Stops
        /\ actor[c].at = "api-send" /\ actor[c].at \in Stops \ {"return"}
    BY <1>9 DEF SendUsdc, Stops, Lone, TransferInv
  <2>2. actor'[c].at = "return" /\ actor'[c].why = actor[c].why /\ SameRest(actor'[c], actor[c])
    BY <1>1, <2>1, GoneTo
  <2>3. QED
    BY <1>1, <1>3, <1>4, <1>5, <2>1, <2>2, WhyStays, TransferStays DEF Lone
<1>10. CASE ReturnWhale(c)
  <2>1. actor[c].at = "return" /\ mempool' = mempool /\ actor[c].why \in {"nothing", "node"}
    BY <1>10 DEF ReturnWhale, Lone, WhyInv
  <2>2. CASE actor[c].why = "nothing"
    <3>1. Goes(c, "seed") /\ "seed" \in Stops
      BY <1>1, <1>10, <2>2 DEF ReturnWhale, Answered, Stops
    <3>2. actor'[c].at = "seed" /\ actor'[c].why = "nothing" /\ SameRest(actor'[c], actor[c])
      BY <1>1, <2>2, <3>1, GoneTo
    <3>3. WhyInv(c)'
      BY <3>2 DEF WhyInv, Excuses
    <3>4. QED
      BY <1>1, <1>3, <1>4, <1>5, <3>2, <3>3, TransferStays DEF Lone
  <2>3. CASE actor[c].why = "node"
    <3>1. Goes(c, "failed")
      BY <1>10, <2>3 DEF ReturnWhale
    <3>2. actor'[c].at = "failed" /\ actor'[c].why = "node"
      BY <1>1, <2>3, <3>1, GoneTo
    <3>3. QED
      BY <1>1, <1>2, <2>1, <3>2, LoneStops DEF Excuses
  <2>4. QED
    BY <2>1, <2>2, <2>3
<1>11. QED
  BY <1>6, <1>7, <1>8, <1>9, <1>10 DEF RouteStep

LEMMA NodeLone ==
    ASSUME LocalInv, NEW c \in Clients, Lone(c), NodeFails(c)
    PROVE  Lone(c)'
<1>1. c \in Actors /\ LocalTypeOK /\ deposit \in Nat /\ "node" \in Whys /\ "node" \in Excuses
  BY DEF Actors, LocalInv, LocalTypeOK, Whys, Excuses
<1>2. UNCHANGED <<deposit, funder, usdc, mempool, borrowed>>
  BY DEF NodeFails, chainVars
<1>3. CASE Fails(c, "node")
  <2>1. actor'[c].at \in {"done", "failed"} /\ actor'[c].why = "node"
    BY <1>1, <1>3, FailedFor
  <2>2. QED
    BY <1>1, <1>2, <2>1, LoneStops
<1>4. CASE actor[c].at = "api-send" /\ actor' = [actor EXCEPT ![c].at = "return", ![c].why = "node"]
  <2>1. Stopped(c, "return", "node") /\ "return" \in Stops
    BY <1>4 DEF Stopped, Stops
  <2>2. actor'[c].at = "return" /\ actor'[c].why = "node" /\ SameRest(actor'[c], actor[c])
    BY <1>1, <2>1, AtWhy, ActorIs
  <2>3. /\ actor[c].at \in BeforeOps /\ actor'[c].at \in BeforeOps
        /\ actor[c].at \in Stops \ BeforeDeposit /\ actor'[c].at \in Stops \ BeforeDeposit
    BY <1>4, <2>2 DEF BeforeOps, BeforeDeposit, Stops
  <2>4. SendsNo(c, "deposit") /\ SendsNo(c, "transfer") /\ SendsNo(c, "op")
    BY <1>2 DEF SendsNo
  <2>5. WhyInv(c)'
    BY <2>2 DEF WhyInv, Excuses
  <2>6. QED
    BY <1>1, <1>2, <1>4, <2>2, <2>3, <2>4, <2>5, DepositStays, TransferStays, OpStays, FeeStays DEF Lone
<1>5. QED
  BY <1>3, <1>4 DEF NodeFails
\* Borrowing for the paymaster and for its account, and the first refill.
LEMMA BorrowLone ==
    ASSUME Sensible, LocalInv, NEW c \in Clients, Lone(c),
           \/ CheckUsdc(c) \/ BorrowWhale(c) \/ SendTransfer(c) \/ AwaitTransfer(c) \/ TriggerRefill(c)
    PROVE  Lone(c)'
<1>1. c \in Actors /\ LocalTypeOK /\ deposit \in Nat
  BY DEF Actors, LocalInv, LocalTypeOK
<1>2. /\ actor[c].at \in {"seed", "account", "borrow", "send", "await-transfer", "refill"}
      /\ UNCHANGED <<deposit, funder, usdc>>
  BY DEF CheckUsdc, BorrowWhale, SendTransfer, AwaitTransfer, TriggerRefill, chainVars
<1>3. /\ actor[c].at \in BeforeOps /\ actor[c].at \in Stops \ BeforeDeposit
      /\ actor[c].at \in Stops \ {"return"} /\ actor[c].at # "await-op"
  BY <1>2 DEF Stops, BeforeOps, BeforeDeposit
<1>4. SendsNo(c, "deposit") /\ SendsNo(c, "op")
  BY DEF CheckUsdc, BorrowWhale, SendTransfer, AwaitTransfer, TriggerRefill, chainVars, SendsNo,
         Submit
<1>5. ASSUME actor'[c].at \in {"account", "borrow", "send", "await-transfer", "refill", "next"},
             actor'[c].why = actor[c].why
      PROVE  WhyInv(c)' /\ DepositInv(c)' /\ OpInv(c)'
  <2>1. /\ actor'[c].at \in (Stops \ BeforeDeposit) \cup {"done"}
        /\ actor'[c].at \notin {"send-op", "await-op"}
    BY <1>5 DEF Stops, BeforeDeposit
  <2>2. QED
    BY <1>1, <1>2, <1>3, <1>4, <1>5, <2>1, WhyStays, DepositStays, OpStays
<1>6. ASSUME actor'[c].at \in {"account", "borrow", "send", "await-transfer", "refill"},
             SameCount(actor'[c], actor[c])
      PROVE  FeeInv(c)'
  BY <1>3, <1>6 DEF Lone, FeeInv, SameCount, BeforeOps, BeforeDeposit
<1>7. ASSUME actor'[c].at = "next", SameCount(actor'[c], actor[c]),
             usdc["account"] >= AccountMin \/ LenderRunsDry
      PROVE  FeeInv(c)'
  <2>1. LenderRunsDry => LenderRunsDry'
    BY <1>2 DEF LenderRunsDry
  <2>2. "next" \notin BeforeOps \cup {"idle"}
    BY DEF BeforeOps, BeforeDeposit
  <2>3. QED
    BY <1>2, <1>3, <1>7, <2>1, <2>2 DEF Lone, FeeInv, SameCount
<1>8. ASSUME NEW at \in Stops, Goes(c, at)
      PROVE  /\ actor'[c].at = at /\ actor'[c].why = actor[c].why /\ SameRest(actor'[c], actor[c])
             /\ SameCount(actor'[c], actor[c])
  BY <1>1, <1>8, GoneTo DEF SameRest
<1>9. /\ Purpose["seed"] = [holder |-> "paymaster", least |-> SeedMin, amount |-> SeedMin,
                            next |-> "refill"]
      /\ Purpose["account"] = [holder |-> "account", least |-> AccountMin, amount |-> AccountFund,
                               next |-> "next"]
      /\ actor[c].for \in {"seed", "account"}
  <2>1. actor[c] \in ActorRecord
    BY <1>1, ActorIs
  <2>2. QED
    BY <2>1 DEF Purpose, ActorRecord
<1>10. CASE CheckUsdc(c)
  <2> DEFINE need == Purpose[actor[c].at]
  <2>1. UNCHANGED <<mempool, borrowed>> /\ actor[c].at \in {"seed", "account"}
        /\ SendsNo(c, "transfer")
    BY <1>10 DEF CheckUsdc, chainVars, SendsNo
  <2>2. need.amount \in {SeedMin, AccountFund}
    BY <1>9, <2>1
  <2>3. CASE usdc[need.holder] >= need.least
    <3>1. Goes(c, need.next)
      BY <1>10, <2>3 DEF CheckUsdc
    <3>2. CASE actor[c].at = "seed"
      <4>1. Goes(c, "refill") /\ "refill" \in Stops /\ usdc["paymaster"] >= SeedMin
        BY <1>9, <2>3, <3>1, <3>2 DEF Stops
      <4>2. /\ actor'[c].at = "refill" /\ actor'[c].why = actor[c].why
            /\ SameCount(actor'[c], actor[c])
        BY <1>8, <4>1
      <4>3. TransferInv(c)'
        BY <1>2, <2>1, <3>2, <4>1, <4>2 DEF Lone, TransferInv, Waits
      <4>4. QED
        BY <1>5, <1>6, <4>2, <4>3 DEF Lone
    <3>3. CASE actor[c].at = "account"
      <4>1. Goes(c, "next") /\ "next" \in Stops /\ usdc["account"] >= AccountMin
        BY <1>9, <2>3, <3>1, <3>3 DEF Stops
      <4>2. /\ actor'[c].at = "next" /\ actor'[c].why = actor[c].why
            /\ SameCount(actor'[c], actor[c])
        BY <1>8, <4>1
      <4>3. TransferInv(c)'
        BY <1>2, <2>1, <3>3, <4>2 DEF Lone, TransferInv, Waits
      <4>4. QED
        BY <1>5, <1>7, <4>1, <4>2, <4>3 DEF Lone
    <3>4. QED
      BY <2>1, <3>2, <3>3
  <2>4. CASE ~(usdc[need.holder] >= need.least) /\ Rich(need.amount) = {}
    <3>1. Fails(c, "whales") /\ "whales" \in Whys
      BY <1>10, <2>4 DEF CheckUsdc, Whys
    <3>2. actor'[c].at \in {"done", "failed"} /\ actor'[c].why = "whales"
      BY <1>1, <3>1, FailedFor
    <3>3. LenderRunsDry
      <4>1. 1 \in 1..Len(Whales)
        BY WhalesAssumption
      <4>2. ApiWhale \in WhaleSet /\ ~(usdc[ApiWhale] >= need.amount)
        BY <2>4, <4>1, WhalesAre DEF Rich, ApiWhale
      <4>3. usdc[ApiWhale] \in Nat /\ need.amount \in Nat
        BY <1>1, <2>2, <4>2, WhalesAre, AmountsAssumption DEF LocalTypeOK
      <4>4. QED
        BY <2>2, <4>2, <4>3 DEF LenderRunsDry
    <3>4. QED
      BY <1>1, <1>2, <2>1, <3>2, <3>3, LoneStops
  <2>5. CASE ~(usdc[need.holder] >= need.least) /\ Rich(need.amount) # {}
    <3> DEFINE for == actor[c].at
               lender == Whales[First(Rich(need.amount))]
               m == [actor[c] EXCEPT !.at = "borrow", !.for = for, !.whale = lender]
    <3>1. Turns(c, m)
      BY <1>10, <2>5 DEF CheckUsdc, Turns
    <3> HIDE DEF lender
    <3>2. actor[c] \in ActorRecord
      BY <1>1, ActorIs
    <3>3. m.at = "borrow" /\ m.why = actor[c].why /\ SameCount(m, actor[c])
      BY <3>2 DEF ActorRecord, SameCount
    <3>4. actor'[c] = m
      BY <1>1, <3>1 DEF Turns, LocalTypeOK
    <3> HIDE DEF m
    <3>5. TransferInv(c)'
      BY <2>1, <3>3, <3>4 DEF Lone, TransferInv, Waits
    <3>6. QED
      BY <1>5, <1>6, <3>3, <3>4, <3>5 DEF Lone
  <2>6. QED
    BY <2>3, <2>4, <2>5
<1>11. CASE BorrowWhale(c)
  <2>1. /\ Goes(c, "send") /\ "send" \in Stops /\ actor[c].at = "borrow" /\ mempool' = mempool
        /\ actor[c].whale \in borrowed'
    BY <1>11 DEF BorrowWhale, Stops
  <2>2. /\ actor'[c].at = "send" /\ actor'[c].why = actor[c].why
        /\ SameCount(actor'[c], actor[c]) /\ actor'[c].whale = actor[c].whale
    BY <1>8, <2>1 DEF SameRest, SameAim
  <2>3. TransferInv(c)'
    BY <2>1, <2>2 DEF Lone, TransferInv, Waits
  <2>4. QED
    BY <1>5, <1>6, <2>2, <2>3 DEF Lone
<1>12. CASE SendTransfer(c)
  <2> DEFINE need == Purpose[actor[c].for]
             new == [by |-> c, what |-> "transfer", from |-> actor[c].whale, to |-> need.holder,
                     amount |-> need.amount]
  <2>1. /\ Goes(c, "await-transfer") /\ "await-transfer" \in Stops /\ actor[c].at = "send"
        /\ Submit(c, "transfer", actor[c].whale, need.holder, need.amount)
    BY <1>12 DEF SendTransfer, Stops, Lone, TransferInv
  <2>2. /\ actor'[c].at = "await-transfer" /\ actor'[c].why = actor[c].why
        /\ SameCount(actor'[c], actor[c]) /\ actor'[c].for = actor[c].for
    BY <1>8, <2>1 DEF SameRest, SameAim
  <2>3. mempool' = mempool \cup {new}
    BY <2>1 DEF Submit
  <2>4. new.by = c /\ new.what = "transfer" /\ new.to = need.holder /\ new.amount = need.amount
    OBVIOUS
  <2> HIDE DEF new
  <2>5. \A tx \in mempool' : tx.by = c /\ tx.what = "transfer" => tx = new
    BY <2>1, <2>3 DEF Lone, TransferInv, Waits
  <2>6. Pending(c, "transfer")'
    BY <2>3, <2>4 DEF Pending
  <2>7. TransferInv(c)'
    BY <2>2, <2>4, <2>5, <2>6 DEF TransferInv, Waits
  <2>8. QED
    BY <1>5, <1>6, <2>2, <2>7 DEF Lone
<1>13. CASE AwaitTransfer(c)
  <2> DEFINE need == Purpose[actor[c].for]
  <2>1. /\ Goes(c, need.next) /\ actor[c].at = "await-transfer" /\ mempool' = mempool
        /\ ~Pending(c, "transfer")
    BY <1>13 DEF AwaitTransfer
  <2>2. usdc[need.holder] >= need.least \/ LenderRunsDry
    BY <2>1 DEF Lone, TransferInv
  <2>3. \A tx \in mempool' : tx.by = c => tx.what # "transfer"
    BY <2>1 DEF Pending
  <2>4. LenderRunsDry => LenderRunsDry'
    BY <1>2 DEF LenderRunsDry
  <2>5. CASE actor[c].for = "seed"
    <3>1. Goes(c, "refill") /\ "refill" \in Stops
      BY <1>9, <2>1, <2>5 DEF Stops
    <3>2. actor'[c].at = "refill" /\ actor'[c].why = actor[c].why /\ SameCount(actor'[c], actor[c])
      BY <1>8, <3>1
    <3>3. usdc'["paymaster"] >= SeedMin \/ LenderRunsDry'
      BY <1>2, <1>9, <2>2, <2>4, <2>5
    <3>4. TransferInv(c)'
      BY <2>3, <3>2, <3>3 DEF TransferInv, Waits
    <3>5. QED
      BY <1>5, <1>6, <3>2, <3>4 DEF Lone
  <2>6. CASE actor[c].for = "account"
    <3>1. Goes(c, "next") /\ "next" \in Stops
      BY <1>9, <2>1, <2>6 DEF Stops
    <3>2. actor'[c].at = "next" /\ actor'[c].why = actor[c].why /\ SameCount(actor'[c], actor[c])
      BY <1>8, <3>1
    <3>3. usdc["account"] >= AccountMin \/ LenderRunsDry
      BY <1>9, <2>2, <2>6
    <3>4. TransferInv(c)'
      BY <2>3, <3>2 DEF TransferInv, Waits
    <3>5. QED
      BY <1>5, <1>7, <3>2, <3>3, <3>4 DEF Lone
  <2>7. QED
    BY <1>9, <2>5, <2>6
<1>14. CASE TriggerRefill(c)
  <2>1. actor[c].at = "refill" /\ mempool' = mempool
    BY <1>14 DEF TriggerRefill, chainVars
  <2>2. CASE Goes(c, "account")
    <3>1. actor'[c].at = "account" /\ actor'[c].why = actor[c].why /\ SameCount(actor'[c], actor[c])
      BY <1>8, <2>2 DEF Stops
    <3>2. TransferInv(c)'
      BY <2>1, <3>1 DEF Lone, TransferInv, Waits
    <3>3. QED
      BY <1>5, <1>6, <3>1, <3>2 DEF Lone
  <2>3. CASE Fails(c, "refill")
    <3>1. "refill" \in Whys /\ "refill" \in Excuses
      BY DEF Whys, Excuses
    <3>2. actor'[c].at \in {"done", "failed"} /\ actor'[c].why = "refill"
      BY <1>1, <2>3, <3>1, FailedFor
    <3>3. QED
      BY <1>1, <1>2, <2>1, <3>1, <3>2, LoneStops
  <2>4. QED
    BY <1>14, <2>2, <2>3 DEF TriggerRefill
<1>15. QED
  BY <1>10, <1>11, <1>12, <1>13, <1>14
\* One operation after the other.
LEMMA OpsLone ==
    ASSUME Sensible, LocalInv, NEW c \in Clients, Lone(c),
           NextOp(c) \/ AskTerms(c) \/ SendOp(c) \/ MeasureFee(c)
    PROVE  Lone(c)'
<1>1. /\ c \in Actors /\ LocalTypeOK /\ deposit \in Nat /\ usdc["account"] \in Nat
      /\ actor[c] \in ActorRecord /\ AccountMin \in Nat /\ MinToContinue \in Nat
  BY ActorIs, WhalesAre, AmountsAssumption DEF Actors, LocalInv, LocalTypeOK
<1>2. /\ actor[c].at \in {"next", "op", "send-op", "await-op"}
      /\ UNCHANGED <<deposit, funder, usdc, borrowed>>
  BY DEF NextOp, AskTerms, SendOp, MeasureFee, chainVars
<1>3. /\ actor[c].at \in Stops \ BeforeDeposit /\ actor[c].at \in Stops \ {"return"}
      /\ actor[c].at \in Stops \ {"await-transfer"}
  BY <1>2 DEF Stops, BeforeDeposit
<1>4. SendsNo(c, "deposit") /\ SendsNo(c, "transfer")
  BY DEF NextOp, AskTerms, SendOp, MeasureFee, chainVars, SendsNo, Submit
<1>5. ASSUME actor'[c].at \in {"next", "op", "send-op", "await-op", "done"},
             actor'[c].why = actor[c].why
      PROVE  WhyInv(c)' /\ DepositInv(c)' /\ TransferInv(c)' /\ actor'[c].at \notin BeforeOps \cup {"idle"}
  <2>1. /\ actor'[c].at \in (Stops \ BeforeDeposit) \cup {"done"}
        /\ actor'[c].at \notin {"api-send", "send", "await-transfer", "refill"}
        /\ actor'[c].at \notin BeforeOps \cup {"idle"}
    BY <1>5 DEF Stops, BeforeDeposit, BeforeOps
  <2>2. QED
    BY <1>1, <1>2, <1>3, <1>4, <1>5, <2>1, WhyStays, DepositStays, TransferStays
<1>6. LenderRunsDry => LenderRunsDry'
  BY <1>2 DEF LenderRunsDry
<1>7. CASE NextOp(c)
  <2>1. actor[c].at = "next" /\ mempool' = mempool /\ SendsNo(c, "op") /\ actor[c].why = "nothing"
    BY <1>7 DEF NextOp, chainVars, SendsNo, Lone, WhyInv, Stops
  <2>2. CASE Goes(c, "op")
    <3>1. /\ actor'[c].at = "op" /\ actor'[c].why = actor[c].why
          /\ SameCount(actor'[c], actor[c])
      BY <1>1, <2>2, GoneTo DEF SameRest, Stops
    <3>2. WhyInv(c)' /\ DepositInv(c)' /\ TransferInv(c)' /\ actor'[c].at \notin BeforeOps \cup {"idle"}
      BY <1>5, <3>1
    <3>3. FeeInv(c)'
      BY <1>2, <1>6, <2>1, <3>1, <3>2 DEF Lone, FeeInv, SameCount
    <3>4. QED
      BY <1>1, <1>3, <2>1, <3>1, <3>2, <3>3, OpStays DEF Lone
  <2>3. CASE /\ actor[c].kind = "until-empty" /\ usdc["account"] < MinToContinue /\ ~actor[c].sent
             /\ Fails(c, "unsent")
    <3>1. actor'[c].at \in {"done", "failed"} /\ actor'[c].why = "unsent"
      BY <1>1, <2>3, FailedFor DEF Whys
    <3>2. LenderRunsDry
      BY <1>1, <2>1, <2>3 DEF Lone, FeeInv, Sensible
    <3>3. QED
      BY <1>1, <1>2, <2>1, <3>1, <3>2, LoneStops
  <2>4. CASE /\ actor[c].kind = "until-empty" => usdc["account"] < MinToContinue /\ actor[c].sent
             /\ Goes(c, "done")
    <3>1. /\ actor'[c].at = "done" /\ actor'[c].why = actor[c].why
          /\ SameCount(actor'[c], actor[c]) /\ actor'[c].kind = actor[c].kind
      BY <1>1, <2>4, GoneTo DEF SameRest, SameSelf
    <3>2. WhyInv(c)' /\ DepositInv(c)' /\ TransferInv(c)' /\ actor'[c].at \notin BeforeOps \cup {"idle"}
      BY <1>5, <3>1
    <3>3. FeeInv(c)'
      BY <1>2, <2>1, <2>4, <3>1, <3>2 DEF Lone, FeeInv, SameCount
    <3>4. QED
      BY <1>1, <1>3, <2>1, <3>1, <3>2, <3>3, OpStays DEF Lone
  <2>5. QED
    BY <1>1, <1>7, <2>2, <2>3, <2>4 DEF NextOp
<1>8. CASE AskTerms(c)
  <2>1. actor[c].at = "op" /\ mempool' = mempool
    BY <1>8 DEF AskTerms, chainVars
  <2>2. CASE Fails(c, "sponsor")
    <3>1. "sponsor" \in Whys /\ "sponsor" \in Excuses
      BY DEF Whys, Excuses
    <3>2. actor'[c].at \in {"done", "failed"} /\ actor'[c].why = "sponsor"
      BY <1>1, <2>2, <3>1, FailedFor
    <3>3. QED
      BY <1>1, <1>2, <2>1, <3>1, <3>2, LoneStops
  <2>3. CASE actor' = [actor EXCEPT ![c].at = "send-op", ![c].seen = usdc["account"]]
    <3> DEFINE m == [actor[c] EXCEPT !.at = "send-op", !.seen = usdc["account"]]
    <3>1. actor'[c] = m
      BY <1>1, <2>3 DEF LocalTypeOK
    <3>2. m.at = "send-op" /\ m.seen = usdc["account"] /\ m.why = actor[c].why
      BY <1>1 DEF ActorRecord
    <3> HIDE DEF m
    <3>3. WhyInv(c)' /\ DepositInv(c)' /\ TransferInv(c)' /\ actor'[c].at \notin BeforeOps \cup {"idle"}
      BY <1>5, <3>1, <3>2
    <3>4. OpInv(c)'
      BY <1>2, <2>1, <3>1, <3>2 DEF Lone, OpInv, Waits, Single
    <3>5. FeeInv(c)'
      BY <3>1, <3>2, <3>3 DEF FeeInv
    <3>6. QED
      BY <3>3, <3>4, <3>5 DEF Lone
  <2>4. QED
    BY <1>8, <2>2, <2>3 DEF AskTerms
<1>9. CASE SendOp(c)
  <2>1. actor[c].at = "send-op" /\ Goes(c, "await-op") /\ actor[c].seen = usdc["account"]
    BY <1>9 DEF SendOp, Lone, OpInv
  <2>2. PICK cost \in Costs : Submit(c, "op", "account", "paymaster", cost)
    BY <1>9 DEF SendOp
  <2> DEFINE new == [by |-> c, what |-> "op", from |-> "account", to |-> "paymaster", amount |-> cost]
  <2>3. mempool' = mempool \cup {new}
    BY <2>2 DEF Submit
  <2>4. new.by = c /\ new.what = "op"
    OBVIOUS
  <2> HIDE DEF new
  <2>5. actor'[c].at = "await-op" /\ actor'[c].why = actor[c].why /\ actor'[c].seen = actor[c].seen
    BY <1>1, <2>1, GoneTo DEF SameRest, SameAim, Stops
  <2>6. WhyInv(c)' /\ DepositInv(c)' /\ TransferInv(c)' /\ actor'[c].at \notin BeforeOps \cup {"idle"}
    BY <1>5, <2>5
  <2>7. \A tx \in mempool' : tx.by = c /\ tx.what = "op" => tx = new
    BY <2>1, <2>3 DEF Lone, OpInv, Waits
  <2>8. Pending(c, "op")'
    BY <2>3, <2>4 DEF Pending
  <2>9. OpInv(c)'
    BY <1>2, <2>1, <2>5, <2>7, <2>8 DEF OpInv, Waits, Single
  <2>10. FeeInv(c)'
    BY <2>5, <2>6 DEF FeeInv
  <2>11. QED
    BY <2>6, <2>9, <2>10 DEF Lone
<1>10. CASE MeasureFee(c)
  <2>1. /\ actor[c].at = "await-op" /\ mempool' = mempool /\ ~Pending(c, "op")
        /\ Fee(c) = actor[c].cost /\ actor[c].cost > 0
    BY <1>10 DEF MeasureFee, chainVars, Fee, Lone, OpInv
  <2> DEFINE n == [actor[c] EXCEPT !.fee = Fee(c), !.sent = TRUE, !.ops = @ - 1]
             b == [n EXCEPT !.at = "next"]
  <2>2. actor'[c] = b
    <3>1. [actor EXCEPT ![c].fee = Fee(c), ![c].sent = TRUE, ![c].ops = @ - 1]
              = [actor EXCEPT ![c] = n]
      OBVIOUS
    <3>2. [actor EXCEPT ![c] = n][c] = n
      BY <1>1 DEF LocalTypeOK
    <3>3. ~(Fee(c) <= 0)
      BY <1>1, <2>1 DEF ActorRecord
    <3> HIDE DEF n
    <3>4. actor' = [[actor EXCEPT ![c] = n] EXCEPT ![c].at = "next"]
      BY <1>10, <3>1, <3>3 DEF MeasureFee
    <3>5. QED
      BY <1>1, <3>2, <3>4 DEF LocalTypeOK
  <2>3. b.at = "next" /\ b.why = actor[c].why /\ b.fee = actor[c].cost /\ b.sent = TRUE
        /\ b.cost = actor[c].cost
    <3> DEFINE k == [actor[c] EXCEPT !.fee = Fee(c)]
               l == [k EXCEPT !.sent = TRUE]
               o == [l EXCEPT !.ops = @ - 1]
    <3>1. Fee(c) \in Int
      BY <1>1 DEF Fee, ActorRecord
    <3>2. k \in ActorRecord /\ k.fee = Fee(c) /\ k.why = actor[c].why /\ k.cost = actor[c].cost
          /\ k.ops = actor[c].ops
      BY <1>1, <3>1 DEF ActorRecord
    <3>3. n = o
      BY <3>2 DEF k, l, o
    <3> HIDE DEF k, n
    <3>4. l \in ActorRecord /\ l.fee = Fee(c) /\ l.why = actor[c].why /\ l.cost = actor[c].cost
          /\ l.sent = TRUE
      BY <3>2 DEF ActorRecord
    <3> HIDE DEF l
    <3>5. o \in ActorRecord /\ o.fee = Fee(c) /\ o.why = actor[c].why /\ o.cost = actor[c].cost
          /\ o.sent = TRUE
      BY <3>4 DEF ActorRecord
    <3> HIDE DEF o
    <3>6. QED
      BY <2>1, <3>3, <3>5 DEF ActorRecord, b
  <2> HIDE DEF n, b
  <2>4. WhyInv(c)' /\ DepositInv(c)' /\ TransferInv(c)' /\ actor'[c].at \notin BeforeOps \cup {"idle"}
    BY <1>5, <2>2, <2>3
  <2>5. OpInv(c)'
    BY <2>1, <2>2, <2>3 DEF OpInv, Waits, Single, Pending
  <2>6. FeeInv(c)'
    BY <1>1, <2>1, <2>2, <2>3, <2>4 DEF FeeInv, ActorRecord
  <2>7. QED
    BY <2>4, <2>5, <2>6 DEF Lone
<1>11. QED
  BY <1>7, <1>8, <1>9, <1>10
\* A block takes what it has sent.
LEMMA MineLone ==
    ASSUME Sensible, LocalInv, MoneyInv, NEW c \in Clients, Lone(c),
           NEW tx \in mempool, tx.by = c, Takes(tx)
    PROVE  Lone(c)'
<1>1. /\ c \in Actors /\ LocalTypeOK /\ actor[c] \in ActorRecord /\ usdc \in [Holders -> Nat]
      /\ deposit \in Nat /\ funder \in Nat /\ tx.amount \in Nat
      /\ tx.what \in {"deposit", "transfer", "fund-usdc", "op"}
      /\ {SeedMin, AccountMin, AccountFund, DepositMin, DepositTopup} \subseteq Nat
  BY ActorIs, AmountsAssumption DEF Actors, LocalInv, LocalTypeOK, TxRecord
<1>2. /\ LenderRunsDry => LenderRunsDry'
      /\ usdc'["paymaster"] >= usdc["paymaster"]
      /\ tx.what # "transfer" => usdc'["account"] <= usdc["account"]
      /\ tx.what \notin {"transfer", "op"} => usdc'["account"] = usdc["account"]
      /\ deposit' >= deposit
  BY LendersLend
<1>3. /\ mempool' = mempool \ {tx} /\ borrowed' = borrowed
      /\ deposit' \in Nat /\ funder' \in Nat /\ usdc' \in [Holders -> Nat]
      /\ usdc'["account"] \in Nat /\ usdc["account"] \in Nat
      /\ usdc'["paymaster"] \in Nat /\ usdc["paymaster"] \in Nat
  BY <1>1, MoneyMoves, WhalesAre DEF Takes
<1>4. /\ tx.what = "deposit" => Covers(tx) /\ tx.amount = DepositTopup
      /\ tx.what # "deposit" => UNCHANGED <<deposit, funder>>
      /\ tx.what = "deposit" => deposit' = deposit + DepositTopup
  BY DEF Lone, DepositInv, Covers, Takes
<1>5. PICK m \in ActorRecord :
          /\ Turns(c, m) /\ SameSelf(m, actor[c]) /\ SameAim(m, actor[c])
          /\ m.sent = actor[c].sent /\ m.fee = actor[c].fee
          /\ tx.what = "op" /\ Covers(tx) =>
                 m.at = actor[c].at /\ m.why = actor[c].why /\ m.cost = tx.amount
          /\ tx.what = "op" /\ ~Covers(tx) /\ actor[c].at = "await-op" =>
                 m.at = Ended(c) /\ m.why = "funds"
          /\ tx.what = "op" /\ ~Covers(tx) => m.cost = actor[c].cost
          /\ tx.what = "op" /\ ~Covers(tx) /\ actor[c].at # "await-op" =>
                 m.at = actor[c].at /\ m.why = actor[c].why
          /\ tx.what # "op" => m.at = actor[c].at /\ m.why = actor[c].why /\ m.cost = actor[c].cost
  BY <1>4, SenderMove
<1>6. actor'[c] = m /\ \A q \in Actors : q # c => actor'[q] = actor[q]
  BY <1>1, <1>5, ActorIs
<1>7. CASE tx.what = "op" /\ ~Covers(tx) /\ actor[c].at = "await-op"
  <2>1. usdc' = usdc
    BY <1>7 DEF Takes
  <2>2. actor'[c].at \in {"failed", "done"} /\ actor'[c].why = "funds" /\ "funds" \in Excuses
    BY <1>5, <1>6, <1>7 DEF Ended, Excuses
  <2>3. QED
    BY <1>1, <1>3, <1>4, <1>7, <2>1, <2>2, LoneStops
<1>8. CASE ~(tx.what = "op" /\ ~Covers(tx) /\ actor[c].at = "await-op")
  <2>1. /\ actor'[c].at = actor[c].at /\ actor'[c].why = actor[c].why
        /\ actor'[c].kind = actor[c].kind /\ actor'[c].for = actor[c].for
        /\ actor'[c].whale = actor[c].whale /\ actor'[c].seen = actor[c].seen
        /\ actor'[c].sent = actor[c].sent /\ actor'[c].fee = actor[c].fee
        /\ actor'[c].cost = IF tx.what = "op" /\ Covers(tx) THEN tx.amount ELSE actor[c].cost
    BY <1>1, <1>5, <1>6, <1>8 DEF SameSelf, SameAim
  <2>2. WhyInv(c)'
    BY <1>2, <2>1 DEF Lone, WhyInv
  <2>3. \A what : /\ Waits(c, what, "await-deposit") => Waits(c, what, "await-deposit")'
                  /\ Waits(c, what, "await-transfer") => Waits(c, what, "await-transfer")'
                  /\ Waits(c, what, "await-op") => Waits(c, what, "await-op")'
                  /\ Single(c, what) => Single(c, what)'
    BY <1>3, <2>1 DEF Waits, Single
  <2>4. ASSUME NEW what, tx.what # what
        PROVE  Pending(c, what)' <=> Pending(c, what)
    BY <1>3, <2>4 DEF Pending
  <2>5. DepositInv(c)'
    <3>1. CASE tx.what = "deposit"
      <4>1. ~Pending(c, "deposit")' /\ \A t \in mempool' : t.by = c => t.what # "deposit"
        BY <1>3, <3>1 DEF Lone, DepositInv, Single, Pending
      <4>2. deposit' >= DepositMin
        BY <1>1, <1>4, <3>1 DEF Sensible
      <4>3. actor'[c].at # "send-deposit"
        BY <2>1, <3>1 DEF Lone, DepositInv, Waits
      <4>4. QED
        BY <2>3, <4>1, <4>2, <4>3 DEF Lone, DepositInv
    <3>2. CASE tx.what # "deposit"
      <4>1. UNCHANGED <<deposit, funder>> /\ (Pending(c, "deposit")' <=> Pending(c, "deposit"))
        BY <1>4, <2>4, <3>2
      <4>2. QED
        BY <1>3, <2>1, <2>3, <4>1 DEF Lone, DepositInv
    <3>3. QED
      BY <3>1, <3>2
  <2>6. TransferInv(c)'
    <3> DEFINE need == Purpose[actor[c].for]
    <3>1. need.holder \in {"paymaster", "account"} /\ need.least <= need.amount
          /\ need.amount \in {SeedMin, AccountFund} /\ need.least \in Nat
      BY <1>1 DEF Purpose, ActorRecord, Sensible
    <3>2. ASSUME actor'[c].at = "await-transfer", ~Pending(c, "transfer")'
          PROVE  usdc'[need.holder] >= need.least \/ LenderRunsDry'
      <4>1. CASE tx.what # "transfer"
        <5>1. usdc[need.holder] >= need.least \/ LenderRunsDry
          BY <2>1, <2>4, <3>2, <4>1 DEF Lone, TransferInv
        <5>2. tx.what # "op"
          BY <2>1, <3>2 DEF Lone, OpInv, Waits
        <5>3. PICK had \in Nat, has \in Nat, least \in Nat :
                  had = usdc[need.holder] /\ has = usdc'[need.holder] /\ least = need.least
          BY <1>3, <3>1
        <5>4. has >= had
          BY <1>2, <1>3, <3>1, <4>1, <5>2, <5>3
        <5>5. had >= least => has >= least
          BY <5>4
        <5>6. QED
          BY <1>2, <5>1, <5>3, <5>5
      <4>2. CASE tx.what = "transfer"
        <5>1. tx.to = need.holder /\ tx.amount = need.amount
          BY <2>1, <3>2, <4>2 DEF Lone, TransferInv
        <5>2. tx.from \in WhaleSet /\ tx.from \in Holders /\ tx.to \in Holders
          BY <4>2, <3>1, <5>1, WhalesAre DEF MoneyInv
        <5>3. CASE usdc[tx.from] >= tx.amount
          <6>1. usdc'[tx.to] = usdc[tx.to] + tx.amount
            BY <4>2, <5>3, MoneyMoves
          <6>2. usdc'[need.holder] >= need.least
            <7>1. PICK had \in Nat, least \in Nat, amount \in Nat :
                      had = usdc[need.holder] /\ least = need.least /\ amount = need.amount
              BY <1>1, <3>1, <5>1, <5>2
            <7>2. usdc'[need.holder] = had + amount /\ least <= amount
              BY <3>1, <5>1, <6>1, <7>1
            <7>3. QED
              BY <7>1, <7>2
          <6>3. QED
            BY <6>2
        <5>4. CASE ~(usdc[tx.from] >= tx.amount)
          <6>1. LenderRunsDry
            BY <1>1, <3>1, <5>1, <5>2, <5>4 DEF LenderRunsDry
          <6>2. QED
            BY <1>2, <6>1
        <5>5. QED
          BY <5>3, <5>4
      <4>3. QED
        BY <4>1, <4>2
    <3>3. actor'[c].at = "refill" => usdc'["paymaster"] >= SeedMin \/ LenderRunsDry'
      <4>1. SeedMin \in Nat
        BY AmountsAssumption
      <4>2. usdc["paymaster"] >= SeedMin => usdc'["paymaster"] >= SeedMin
        BY <1>2, <1>3, <4>1
      <4>3. QED
        BY <1>2, <2>1, <4>2 DEF Lone, TransferInv
    <3>4. \A t \in mempool' : t.by = c /\ t.what = "transfer" /\ actor'[c].at = "await-transfer" =>
              t.to = need.holder /\ t.amount = need.amount
      BY <1>3, <2>1 DEF Lone, TransferInv
    <3>5. /\ actor'[c].at = "api-send" => ApiWhale \in borrowed'
          /\ actor'[c].at = "send" => actor'[c].whale \in borrowed'
          /\ Waits(c, "transfer", "await-transfer")'
      BY <1>3, <2>1, <2>3 DEF Lone, TransferInv
    <3>6. actor'[c].for = actor[c].for
      BY <2>1
    <3>7. QED
      BY <3>2, <3>3, <3>4, <3>5, <3>6 DEF TransferInv
  <2>7. OpInv(c)'
    <3>1. CASE tx.what = "op"
      <4>1. ~Pending(c, "op")'
        BY <1>3, <3>1 DEF Lone, OpInv, Single, Pending
      <4>2. ASSUME actor'[c].at = "await-op"
            PROVE  actor'[c].seen - usdc'["account"] = actor'[c].cost /\ actor'[c].cost > 0
        <5>1. Covers(tx) /\ tx.from = "account" /\ tx.amount > 0 /\ actor[c].seen = usdc["account"]
          BY <1>8, <2>1, <3>1, <4>2 DEF MoneyInv, Lone, OpInv, Pending
        <5>2. usdc'["account"] = usdc["account"] - tx.amount
          BY <3>1, <5>1, MoneyMoves DEF Covers
        <5>3. QED
          BY <1>1, <1>3, <2>1, <3>1, <5>1, <5>2
      <4>3. actor'[c].at # "send-op"
        BY <2>1, <3>1 DEF Lone, OpInv, Waits
      <4>4. QED
        BY <2>3, <4>1, <4>2, <4>3 DEF Lone, OpInv
    <3>2. CASE tx.what # "op"
      <4>1. Pending(c, "op")' <=> Pending(c, "op")
        BY <2>4, <3>2
      <4>2. actor[c].at \in {"send-op", "await-op"} => tx.what # "transfer"
        BY DEF Lone, TransferInv, Waits
      <4>3. actor[c].at \in {"send-op", "await-op"} => usdc'["account"] = usdc["account"]
        BY <1>2, <3>2, <4>2
      <4>4. QED
        BY <2>1, <2>3, <3>2, <4>1, <4>3 DEF Lone, OpInv
    <3>3. QED
      BY <3>1, <3>2
  <2>8. FeeInv(c)'
    <3>1. /\ tx.what = "op" => \/ actor[c].at = "await-op"
                               \/ actor[c].at \in {"failed", "done"} /\ actor[c].why # "nothing"
          /\ tx.what = "transfer" => \/ actor[c].at = "await-transfer"
                                     \/ actor[c].at \in {"failed", "done"} /\ actor[c].why # "nothing"
      BY DEF Lone, OpInv, TransferInv, Waits
    <3>2. /\ actor[c].at \in BeforeOps \cup {"idle", "next", "op"} => actor'[c].cost = actor[c].cost
          /\ actor[c].at = "done" /\ actor[c].why = "nothing" =>
                 actor'[c].cost = actor[c].cost /\ usdc'["account"] <= usdc["account"]
          /\ actor[c].at \in {"next", "op"} => usdc'["account"] = usdc["account"]
      BY <1>2, <2>1, <3>1 DEF BeforeOps, BeforeDeposit
    <3>3. \A q \in Clients \ {c} : actor'[q].at = actor[q].at
      BY <1>6 DEF Actors
    <3>4. /\ actor'[c].at \in BeforeOps \cup {"idle"} => actor'[c].cost = 0 /\ actor'[c].fee = 0
          /\ \/ actor'[c].at \in {"next", "op"}
             \/ actor'[c].at = "done" /\ actor'[c].why = "nothing"
             => actor'[c].fee = actor'[c].cost
      BY <2>1, <3>2 DEF Lone, FeeInv
    <3>5. actor'[c].at \in {"next", "op"} =>
              \/ actor'[c].cost # 0 /\ actor'[c].sent
              \/ actor'[c].cost = 0 /\ (usdc'["account"] >= AccountMin \/ LenderRunsDry')
      BY <1>2, <2>1, <3>2 DEF Lone, FeeInv
    <3>6. actor'[c].at = "done" /\ actor'[c].kind = "until-empty" /\ actor'[c].why = "nothing" =>
              /\ actor'[c].sent
              /\ usdc'["account"] < MinToContinue \/ \E q \in Clients \ {c} : actor'[q].at # "idle"
      <4>1. MinToContinue \in Nat
        BY AmountsAssumption
      <4>2. QED
        BY <1>3, <2>1, <3>2, <3>3, <4>1 DEF Lone, FeeInv
    <3>7. QED
      BY <3>4, <3>5, <3>6 DEF FeeInv
  <2>9. QED
    BY <2>2, <2>5, <2>6, <2>7, <2>8 DEF Lone
<1>9. QED
  BY <1>7, <1>8
LEMMA MoneyStays ==
    ASSUME LocalInv, MoneyInv, LocalStep
    PROVE  MoneyInv'
<1>1. LocalTypeOK
  BY DEF LocalInv
<1>2. CASE mempool' \subseteq mempool
  BY <1>2 DEF MoneyInv
<1>3. ASSUME NEW p \in Actors, NEW what, NEW from, NEW to, NEW amount,
             Submit(p, what, from, to, amount),
             /\ what = "op" => from = "account" /\ to = "paymaster" /\ amount > 0
             /\ what \in {"transfer", "fund-usdc"} => from \in WhaleSet
             /\ what = "fund-usdc" => to = "paymaster"
             /\ what = "transfer" => p \in Clients
      PROVE  MoneyInv'
  <2> DEFINE new == [by |-> p, what |-> what, from |-> from, to |-> to, amount |-> amount]
  <2>1. mempool' = mempool \cup {new}
    BY <1>3 DEF Submit
  <2>2. new.by = p /\ new.what = what /\ new.from = from /\ new.to = to /\ new.amount = amount
    OBVIOUS
  <2> HIDE DEF new
  <2>3. QED
    BY <1>3, <2>1, <2>2 DEF MoneyInv
<1>4. ASSUME NEW p \in Clients, SendDeposit(p) PROVE MoneyInv'
  <2>1. mempool' = mempool \/ Submit(p, "deposit", "funder", "deposit", DepositTopup)
    BY <1>4 DEF SendDeposit
  <2>2. p \in Actors
    BY DEF Actors
  <2>3. CASE Submit(p, "deposit", "funder", "deposit", DepositTopup)
    BY <1>3, <2>2, <2>3
  <2>4. QED
    BY <1>2, <2>1, <2>3
<1>5. ASSUME NEW p \in Clients, SendTransfer(p) PROVE MoneyInv'
  <2>1. p \in Actors
    BY DEF Actors
  <2>2. PICK from \in WhaleSet : from = actor[p].whale
    BY <1>1, <2>1, ActorIs DEF ActorRecord
  <2>3. PICK to, amount : mempool' = mempool \/ Submit(p, "transfer", from, to, amount)
    BY <1>5, <2>2 DEF SendTransfer
  <2>4. CASE Submit(p, "transfer", from, to, amount)
    BY <1>3, <2>1, <2>4
  <2>5. QED
    BY <1>2, <2>3, <2>4
<1>6. ASSUME NEW p \in Clients, SendOp(p) PROVE MoneyInv'
  <2>1. p \in Actors
    BY DEF Actors
  <2>2. PICK cost \in Costs : Submit(p, "op", "account", "paymaster", cost)
    BY <1>6 DEF SendOp
  <2>3. cost > 0
    BY AmountsAssumption
  <2>4. QED
    BY <1>3, <2>1, <2>2, <2>3
<1>7. ASSUME NEW p \in Actors, SendUsdc(p) PROVE MoneyInv'
  <2>1. mempool' = mempool \/ Submit(p, "fund-usdc", ApiWhale, "paymaster", ApiAmount)
    BY <1>7 DEF SendUsdc
  <2>2. CASE Submit(p, "fund-usdc", ApiWhale, "paymaster", ApiAmount)
    BY <1>3, <2>2, WhalesAre
  <2>3. QED
    BY <1>2, <2>1, <2>2
<1>8. ASSUME NEW p \in Clients, ClientStep(p) PROVE MoneyInv'
  <2>1. CASE ~(SendDeposit(p) \/ SendTransfer(p) \/ SendOp(p))
    <3>1. mempool' = mempool
      BY <1>8, <2>1 DEF ClientStep, ResolveAddress, CheckDeposit, SetFunder, AwaitDeposit, CheckUsdc,
                        BorrowWhale, AwaitTransfer, TriggerRefill, NextOp, AskTerms, MeasureFee,
                        chainVars
    <3>2. QED
      BY <1>2, <3>1
  <2>2. QED
    BY <1>4, <1>5, <1>6, <2>1
<1>9. ASSUME NEW p \in Actors, RouteStep(p) \/ NodeFails(p) PROVE MoneyInv'
  <2>1. CASE ~SendUsdc(p)
    <3>1. mempool' = mempool
      BY <1>9, <2>1 DEF RouteStep, ReadNative, SetNative, BorrowForApi, ReturnWhale, NodeFails,
                        chainVars
    <3>2. QED
      BY <1>2, <3>1
  <2>2. QED
    BY <1>7, <2>1
<1>10. CASE Mine
  <2>1. mempool' \subseteq mempool
    BY <1>10 DEF Mine
  <2>2. QED
    BY <1>2, <2>1
<1>11. QED
  BY <1>8, <1>9, <1>10 DEF LocalStep

\* A step of somebody else, when it is not at work.
LEMMA OthersLone ==
    ASSUME LocalInv, LoneInv, NEW c \in Clients, actor[c].alone, Lone(c),
           NEW p \in Actors, p # c, Frame(p),
           LenderRunsDry => LenderRunsDry',
           p \notin Clients => usdc'["account"] <= usdc["account"]
    PROVE  Lone(c)'
<1>1. /\ c \in Actors /\ c \notin AtWork /\ actor'[c] = actor[c]
      /\ usdc["account"] \in Nat /\ usdc'["account"] \in Nat /\ MinToContinue \in Nat
      /\ actor[c] \in ActorRecord
  <2>1. c \in Actors /\ LocalTypeOK /\ LocalTypeOK' /\ actor'[c] = actor[c]
    BY DEF Actors, Frame, LocalInv
  <2>2. c \notin AtWork
    BY <2>1 DEF LoneInv, Frame
  <2>3. QED
    BY <2>1, <2>2, ActorIs, WhalesAre, AmountsAssumption DEF LocalTypeOK
<1>2. /\ actor[c].at \in {"idle", "done", "failed"}
      /\ \A tx \in mempool : tx.by # c
  BY <1>1 DEF AtWork
<1>3. actor[c].at \notin Stops
  BY <1>2 DEF Stops
<1>4. \A tx \in mempool' : tx.by # c
  BY <1>2 DEF Frame
<1>5. WhyInv(c)'
  BY <1>1 DEF Lone, WhyInv
<1>6. DepositInv(c)'
  BY <1>1, <1>2, <1>3, <1>4 DEF DepositInv, Waits, Single
<1>7. TransferInv(c)' /\ OpInv(c)'
  BY <1>1, <1>2, <1>4 DEF TransferInv, OpInv, Waits, Single
<1>8. FeeInv(c)'
  <2>1. \A q \in Clients \ {c} : actor[q].at # "idle" => actor'[q].at # "idle"
    BY DEF Frame, Actors
  <2>2. p \in Clients => \E q \in Clients \ {c} : actor'[q].at # "idle"
    BY DEF Frame
  <2>3. actor[c].at = "done" /\ actor[c].kind = "until-empty" /\ actor[c].why = "nothing" =>
           /\ actor[c].sent
           /\ usdc'["account"] < MinToContinue \/ \E q \in Clients \ {c} : actor'[q].at # "idle"
    BY <1>1, <2>1, <2>2 DEF Lone, FeeInv
  <2>4. QED
    BY <1>1, <1>2, <2>3 DEF Lone, FeeInv
<1>9. QED
  BY <1>5, <1>6, <1>7, <1>8 DEF Lone

\* Somebody begins.
LEMMA BeginLone ==
    ASSUME LocalInv, LoneInv, ClientsInv, NEW p \in Actors, NEW at \in Stops, Begin(p, at),
           p \in Clients => at = "address"
    PROVE  ClientsInv'
<1>1. /\ LocalInv' /\ UNCHANGED <<deposit, funder, usdc, borrowed, mempool>>
      /\ actor[p].at = "idle" /\ actor'[p].at = at
      /\ actor'[p].why = actor[p].why /\ actor'[p].kind = actor[p].kind
      /\ SameCount(actor'[p], actor[p]) /\ SameAim(actor'[p], actor[p])
      /\ \A q \in Actors : q # p =>
             /\ actor'[q].at = actor[q].at /\ actor'[q].why = actor[q].why
             /\ actor'[q].kind = actor[q].kind
             /\ actor'[q].alone = (actor[q].alone /\ q \notin AtWork)
             /\ SameCount(actor'[q], actor[q]) /\ SameAim(actor'[q], actor[q])
  BY BeginFrame DEF chainVars
<1>2. MoneyInv' /\ (LenderRunsDry => LenderRunsDry')
  BY <1>1 DEF ClientsInv, MoneyInv, LenderRunsDry
<1>3. ASSUME NEW c \in Clients, actor'[c].alone, c # p
      PROVE  Lone(c)'
  <2>1. /\ c \in Actors /\ Lone(c)
        /\ actor'[c].at = actor[c].at /\ actor'[c].why = actor[c].why
        /\ actor'[c].kind = actor[c].kind
        /\ actor'[c].sent = actor[c].sent /\ actor'[c].fee = actor[c].fee
        /\ actor'[c].cost = actor[c].cost
        /\ actor'[c].for = actor[c].for /\ actor'[c].whale = actor[c].whale
        /\ actor'[c].seen = actor[c].seen
    BY <1>1, <1>3 DEF Actors, ClientsInv, SameCount, SameAim
  <2>2. WhyInv(c)' /\ DepositInv(c)'
    BY <1>1, <1>2, <2>1 DEF Lone, WhyInv, DepositInv, Waits, Single, Pending
  <2>3. TransferInv(c)'
    BY <1>1, <1>2, <2>1 DEF Lone, TransferInv, Waits, Pending
  <2>4. OpInv(c)'
    BY <1>1, <2>1 DEF Lone, OpInv, Waits, Single, Pending
  <2>5. FeeInv(c)'
    <3>1. \A q \in Clients \ {c} : actor[q].at # "idle" => actor'[q].at # "idle"
      BY <1>1 DEF Actors
    <3>2. QED
      BY <1>1, <1>2, <2>1, <3>1 DEF Lone, FeeInv
  <2>6. QED
    BY <2>2, <2>3, <2>4, <2>5 DEF Lone
<1>4. ASSUME p \in Clients
      PROVE  Lone(p)'
  <2>1. Lone(p) /\ at = "address"
    BY <1>1, <1>4 DEF ClientsInv, LoneInv
  <2>2. \A tx \in mempool' : tx.by # p
    BY <1>1 DEF LocalInv, TxInv
  <2>3. WhyInv(p)'
    BY <1>1, <2>1 DEF Lone, WhyInv, Excuses
  <2>4. DepositInv(p)' /\ TransferInv(p)' /\ OpInv(p)'
    BY <1>1, <2>1, <2>2 DEF DepositInv, TransferInv, OpInv, Waits, Single, BeforeDeposit
  <2>5. FeeInv(p)'
    BY <1>1, <2>1 DEF Lone, FeeInv, SameCount
  <2>6. QED
    BY <2>3, <2>4, <2>5 DEF Lone
<1>5. QED
  BY <1>2, <1>3, <1>4 DEF ClientsInv

LEMMA ClientsKeep ==
    ASSUME Sensible, LocalInv, LoneInv, ClientsInv, LocalStep
    PROVE  ClientsInv'
<1>1. MoneyInv /\ MoneyInv'
  BY MoneyStays DEF ClientsInv
<1>2. SUFFICES ASSUME NEW c \in Clients, actor'[c].alone PROVE Lone(c)'
  BY <1>1 DEF ClientsInv
<1>3. c \in Actors
  BY DEF Actors
<1>4. ASSUME NEW p \in Actors, Frame(p)
      PROVE  Lone(c) /\ actor[c].alone
  BY <1>2, <1>3, <1>4 DEF Frame, SameSelf, ClientsInv
<1>5. ASSUME NEW p \in Actors, Frame(p), p # c, UNCHANGED usdc
      PROVE  Lone(c)'
  <2>1. LenderRunsDry => LenderRunsDry'
    BY <1>5 DEF LenderRunsDry
  <2>2. usdc["account"] \in Nat
    BY WhalesAre DEF LocalInv, LocalTypeOK
  <2>3. usdc'["account"] <= usdc["account"]
    BY <1>5, <2>2
  <2>4. QED
    BY <1>4, <1>5, <2>1, <2>3, OthersLone
<1>6. ASSUME NEW p \in Clients, ClientStep(p) PROVE Lone(c)'
  <2>1. Frame(p) /\ p \in Actors
    BY <1>6, ClientFrame DEF Actors
  <2>2. UNCHANGED usdc
    BY <1>6 DEF ClientStep, ResolveAddress, CheckDeposit, SetFunder, SendDeposit, AwaitDeposit,
                CheckUsdc, BorrowWhale, SendTransfer, AwaitTransfer, TriggerRefill, NextOp, AskTerms,
                SendOp, MeasureFee, chainVars
  <2>3. CASE p = c
    BY <1>4, <1>6, <2>1, <2>3, DepositLone, BorrowLone, OpsLone DEF ClientStep
  <2>4. QED
    BY <1>5, <2>1, <2>2, <2>3
<1>7. ASSUME NEW p \in Actors, RouteStep(p) \/ NodeFails(p) PROVE Lone(c)'
  <2>1. Frame(p)
    BY <1>7, RouteFrame
  <2>2. UNCHANGED usdc
    BY <1>7 DEF RouteStep, ReadNative, SetNative, BorrowForApi, SendUsdc, ReturnWhale, NodeFails,
                chainVars
  <2>3. CASE p = c
    BY <1>4, <1>7, <2>1, <2>3, RouteLone, NodeLone
  <2>4. QED
    BY <1>5, <2>1, <2>2, <2>3
<1>8. ASSUME NEW tx \in mempool, Takes(tx) PROVE Lone(c)'
  <2>1. PICK p \in Actors : p = tx.by
    BY DEF LocalInv, LocalTypeOK, TxRecord
  <2>2. Frame(p)
    BY <1>8, <2>1, MineFrame
  <2>3. Lone(c) /\ actor[c].alone
    BY <1>4, <2>2
  <2>4. CASE p = c
    BY <1>1, <1>8, <2>1, <2>3, <2>4, MineLone
  <2>5. CASE p # c
    <3>1. /\ LenderRunsDry => LenderRunsDry'
          /\ tx.what # "transfer" => usdc'["account"] <= usdc["account"]
          /\ tx.what = "transfer" => p \in Clients
      BY <1>1, <1>8, <2>1, LendersLend DEF MoneyInv
    <3>2. QED
      BY <2>2, <2>3, <2>5, <3>1, OthersLone
  <2>6. QED
    BY <2>4, <2>5
<1>9. CASE Mine
  <2>1. PICK tx \in mempool : Takes(tx)
    BY <1>9 DEF Mine, Takes
  <2>2. QED
    BY <1>8, <2>1
<1>10. QED
  BY <1>6, <1>7, <1>9 DEF LocalStep

\* A client that nobody disturbs, on a node that answers, gets what it needs, and
\* measures what its operations cost; for any number of clients, of requests of the
\* panel and of other tabs, any lenders and any amounts of which as much is paid as is needed.
THEOREM LoneClientCorrect ==
    ASSUME Sensible
    PROVE  Spec => []LoneClientSucceeds
<1> DEFINE Inv == scene \in Scenes /\ PanelInv /\ DeskInv /\ ClientsInv
<1>1. Init => Inv
  <2> SUFFICES ASSUME Init PROVE Inv
    OBVIOUS
  <2>1. scene.world \in Worlds /\ PanelInv
    BY PanelInitInv, WorldAssumption DEF Init
  <2>2. /\ LocalInv /\ LoneInv /\ native = 0 /\ added = 0 /\ mempool = {}
        /\ \A p \in Actors : /\ actor[p].at = "idle" /\ actor[p].why = "nothing"
                             /\ actor[p].cost = 0 /\ actor[p].fee = 0
    BY <2>1, LocalInitInv DEF Init, LocalInit
  <2>3. \A p \in Actors : actor[p].at \notin Stops /\ actor[p].at # "set-native"
    BY <2>2 DEF Stops
  <2>4. ButtonInv
    BY <2>3, ButtonsAssumption DEF ButtonInv, Actors
  <2>5. 0 = 0 * NativeTopup
    BY AmountsAssumption
  <2>6. DeskInv
    BY <2>1, <2>2, <2>3, <2>4, <2>5 DEF DeskInv, SeenInv
  <2>7. ASSUME NEW c \in Clients PROVE Lone(c)
    <3>1. c \in Actors
      BY DEF Actors
    <3>2. actor[c].at = "idle" /\ actor[c].why = "nothing" /\ actor[c].cost = 0 /\ actor[c].fee = 0
      BY <2>2, <3>1
    <3>3. WhyInv(c) /\ FeeInv(c)
      BY <3>2 DEF WhyInv, FeeInv, Excuses
    <3>4. DepositInv(c) /\ TransferInv(c) /\ OpInv(c)
      BY <2>2, <3>2 DEF DepositInv, TransferInv, OpInv, Waits, Single, Stops
    <3>5. QED
      BY <3>3, <3>4 DEF Lone
  <2>8. ClientsInv
    BY <2>2, <2>7 DEF ClientsInv, MoneyInv
  <2>9. QED
    BY <2>1, <2>6, <2>8 DEF Init
<1>2. Inv /\ [Next]_deskVars => Inv'
  <2> SUFFICES ASSUME Inv, [Next]_deskVars PROVE Inv'
    OBVIOUS
  <2>1. PanelInv' /\ scene' \in Scenes
    <3>1. PanelMoves
      BY PanelPart DEF PanelMoves, deskVars
    <3>2. QED
      BY <3>1, PanelStepKeeps, SceneStays
  <2>2. ChainMoves
    BY ChainPart DEF PanelInv
  <2>3. DeskInv'
    BY <2>2, DeskKeeps
  <2>4. LocalInv /\ LoneInv
    BY DEF DeskInv
  <2>5. ClientsInv'
    <3>1. CASE UNCHANGED localVars
      BY <3>1 DEF localVars, chainVars, ClientsInv, MoneyInv, Lone, WhyInv, DepositInv, TransferInv,
                  OpInv, FeeInv, Waits, Single, Pending, LenderRunsDry
    <3>2. CASE LocalStep
      BY <2>4, <3>2, ClientsKeep
    <3>3. CASE \E c \in Clients : Begin(c, "address")
      <4>1. PICK c \in Clients : Begin(c, "address")
        BY <3>3
      <4>2. c \in Actors /\ "address" \in Stops
        BY DEF Actors, Stops
      <4>3. QED
        BY <2>4, <4>1, <4>2, BeginLone
    <3>4. CASE \E b \in Others, at \in {"native", "usdc"} : Begin(b, at)
      <4>1. PICK b \in Others, at \in {"native", "usdc"} : Begin(b, at)
        BY <3>4
      <4>2. b \in Actors /\ b \notin Clients /\ at \in Stops
        BY ActorsAssumption, ButtonsAssumption DEF Actors, Stops
      <4>3. QED
        BY <2>4, <4>1, <4>2, BeginLone
    <3>5. ASSUME NEW r \in Requests, Received(r) PROVE ClientsInv'
      <4>1. PICK at \in {"native", "usdc"} : at = request[r].kind
        BY <3>5 DEF Received, Funding
      <4>2. r \in Actors /\ r \notin Clients /\ at \in Stops /\ Begin(r, at)
        BY <3>5, <4>1, ActorsAssumption, ButtonsAssumption DEF Received, Actors, Stops
      <4>3. QED
        BY <2>4, <4>2, BeginLone
    <3>6. ASSUME NEW r \in Requests, FundAnswered(r) \/ GivenUp(r) PROVE UNCHANGED localVars
      BY <3>6 DEF FundAnswered, Only, GivenUp
    <3>7. QED
      BY <2>2, <3>1, <3>2, <3>3, <3>5, <3>6, <3>4 DEF ChainMoves
  <2>6. QED
    BY <2>1, <2>3, <2>5
<1>3. Inv => LoneClientSucceeds
  <2> SUFFICES ASSUME Inv, NEW c \in Clients, actor[c].alone
               PROVE  /\ actor[c].why \in {"nothing", "node", "address", "sponsor", "refill", "funds"}
                            \/ LenderRunsDry
                      /\ actor[c].at = "refill" => usdc["paymaster"] >= SeedMin \/ LenderRunsDry
                      /\ actor[c].at = "op" /\ actor[c].cost = 0 =>
                             /\ deposit >= DepositMin
                             /\ usdc["account"] >= AccountMin \/ LenderRunsDry
                      /\ actor[c].at \in {"next", "op", "done"} /\ actor[c].why = "nothing" =>
                             actor[c].fee = actor[c].cost
                      /\ actor[c].at = "done" /\ actor[c].kind = "until-empty"
                            /\ actor[c].why = "nothing" =>
                             /\ actor[c].sent
                             /\ usdc["account"] < MinToContinue
                                   \/ \E q \in Clients \ {c} : actor[q].at # "idle"
    BY DEF LoneClientSucceeds
  <2>1. Lone(c)
    BY DEF ClientsInv
  <2>2. "op" \in Stops \ BeforeDeposit
    BY DEF Stops, BeforeDeposit
  <2>3. QED
    BY <2>1, <2>2 DEF Lone, WhyInv, Excuses, DepositInv, TransferInv, FeeInv
<1>4. QED
  BY <1>1, <1>2, <1>3, PTL DEF Spec
-----------------------------------------------------------------------------
(* The tool for gas caps *)

\* Of finitely many numbers one is the highest: fewest exceed it.
LEMMA Highest ==
    ASSUME NEW D, IsFiniteSet(D), D # {}, NEW f \in [D -> Nat]
    PROVE  \E j \in D : \A k \in D : f[k] <= f[j]
<1> DEFINE Above(j) == {k \in D : f[k] > f[j]}
           Counts == {Cardinality(Above(j)) : j \in D}
<1>1. ASSUME NEW j \in D
      PROVE  IsFiniteSet(Above(j)) /\ Cardinality(Above(j)) \in Nat
  BY FS_Subset, FS_CardinalityType
<1>2. Counts \in SUBSET Nat /\ Counts # {}
  BY <1>1
<1>3. PICK n \in Counts : \A k \in Counts : n <= k
  BY <1>2, Least
<1>4. PICK j \in D : n = Cardinality(Above(j))
  BY <1>3
<1>5. ASSUME NEW k \in D, ~(f[k] <= f[j])
      PROVE  FALSE
  <2>1. f[k] \in Nat /\ f[j] \in Nat /\ f[k] > f[j]
    BY <1>5
  <2>2. Above(k) \in SUBSET Above(j) /\ k \in Above(j) /\ k \notin Above(k)
    BY <2>1
  <2>3. Cardinality(Above(k)) <= Cardinality(Above(j)) /\ Cardinality(Above(k)) # Cardinality(Above(j))
    BY <1>1, <2>2, FS_Subset
  <2>4. n <= Cardinality(Above(k))
    BY <1>3
  <2>5. PICK a \in Nat, b \in Nat : a = Cardinality(Above(j)) /\ b = Cardinality(Above(k))
    BY <1>1
  <2> HIDE DEF Above
  <2>6. QED
    BY <1>4, <2>3, <2>4, <2>5
<1>6. QED
  BY <1>5

\* There is a value of every rank.
LEMMA RankedIs ==
    ASSUME NEW D, IsFiniteSet(D), NEW values \in [D -> Nat], NEW rank \in Nat \ {0},
           rank <= Cardinality(D)
    PROVE  /\ Ranked(values, rank) \in {values[j] : j \in D}
           /\ Cardinality({j \in D : values[j] <= Ranked(values, rank)}) >= rank
<1> DEFINE V == {values[j] : j \in D}
           UpTo(v) == {j \in D : values[j] <= v}
           Below(v) == {j \in D : values[j] < v}
           S == {v \in V : Cardinality(UpTo(v)) >= rank}
<1>1. Cardinality(D) \in Nat /\ V \in SUBSET Nat /\ DOMAIN values = D
  BY FS_CardinalityType
<1>2. ASSUME NEW v
      PROVE  /\ IsFiniteSet(UpTo(v)) /\ Cardinality(UpTo(v)) \in Nat
             /\ IsFiniteSet(Below(v)) /\ Cardinality(Below(v)) \in Nat
  BY FS_Subset, FS_CardinalityType
<1>3. S # {}
  <2>1. D # {}
    BY <1>1, FS_EmptySet
  <2>2. PICK j \in D : \A k \in D : values[k] <= values[j]
    BY <2>1, Highest
  <2>3. UpTo(values[j]) = D
    BY <2>2
  <2>4. QED
    BY <2>3
<1>4. PICK v \in S : \A w \in S : v <= w
  BY <1>1, <1>3, Least
<1>5. Cardinality(Below(v)) < rank
  <2>1. SUFFICES ASSUME Cardinality(Below(v)) >= rank PROVE FALSE
    BY <1>2
  <2>2. Below(v) # {}
    BY <2>1, FS_EmptySet
  <2> DEFINE f == [j \in Below(v) |-> values[j]]
  <2>3. f \in [Below(v) -> Nat]
    OBVIOUS
  <2>4. PICK j \in Below(v) : \A k \in Below(v) : f[k] <= f[j]
    BY <1>2, <2>2, <2>3, Highest
  <2>5. values[j] < v /\ \A k \in Below(v) : values[k] <= values[j]
    BY <2>4
  <2>6. values[j] \in Nat /\ v \in Nat /\ \A k \in D : values[k] \in Nat
    BY <1>1
  <2>7. UpTo(values[j]) = Below(v)
    BY <2>5, <2>6
  <2>8. values[j] \in S
    BY <2>1, <2>7
  <2>9. QED
    BY <1>4, <2>5, <2>6, <2>8
<1>6. \E w \in {values[j] : j \in DOMAIN values} :
          /\ Cardinality({j \in DOMAIN values : values[j] < w}) < rank
          /\ Cardinality({j \in DOMAIN values : values[j] <= w}) >= rank
  BY <1>1, <1>4, <1>5
<1>7. /\ Ranked(values, rank) \in {values[j] : j \in DOMAIN values}
      /\ Cardinality({j \in DOMAIN values : values[j] <= Ranked(values, rank)}) >= rank
  BY <1>6 DEF Ranked
<1>8. QED
  BY <1>1, <1>7

\* Who is not exceeded by rank of them is exceeded by the others at most.
LEMMA ExceededBy ==
    ASSUME NEW D, IsFiniteSet(D), NEW values \in [D -> Nat], NEW v \in Nat, NEW rank \in Nat,
           Cardinality({j \in D : values[j] <= v}) >= rank
    PROVE  Exceeding(values, v) \in Nat /\ Exceeding(values, v) + rank <= Cardinality(D)
<1> DEFINE UpTo == {j \in D : values[j] <= v}
           Rest == {j \in D : values[j] > v}
<1>1. /\ IsFiniteSet(UpTo) /\ Cardinality(UpTo) \in Nat
      /\ IsFiniteSet(Rest) /\ Cardinality(Rest) \in Nat /\ Cardinality(D) \in Nat
  BY FS_Subset, FS_CardinalityType
<1>2. UpTo \cup Rest = D /\ UpTo \cap Rest = {}
  OBVIOUS
<1>3. Cardinality(D) = Cardinality(UpTo) + Cardinality(Rest)
  <2>1. Cardinality(UpTo \cup Rest) = Cardinality(UpTo) + Cardinality(Rest) - Cardinality(UpTo \cap Rest)
    BY <1>1, FS_Union
  <2>2. Cardinality(UpTo \cap Rest) = 0
    BY <1>2, FS_EmptySet
  <2>3. PICK m \in Nat, n \in Nat : m = Cardinality(UpTo) /\ n = Cardinality(Rest)
    BY <1>1
  <2>4. Cardinality(D) = m + n - 0
    BY <1>2, <2>1, <2>2, <2>3
  <2>5. QED
    BY <2>3, <2>4
<1>4. Exceeding(values, v) = Cardinality(Rest)
  BY DEF Exceeding
<1> HIDE DEF UpTo, Rest
<1>5. Cardinality(UpTo) >= rank
  BY DEF UpTo
<1>6. QED
  BY <1>1, <1>3, <1>4, <1>5

\* What shares are between.
Shares == 0..1000

\* A percentile is one of the values, and no larger a share exceeds it than it says.
LEMMA PercentileIs ==
    ASSUME NEW D, IsFiniteSet(D), D # {}, NEW values \in [D -> Nat], NEW p \in Shares,
           NEW v \in Percentiles(values, p)
    PROVE  /\ v \in {values[j] : j \in D}
           /\ Exceeding(values, v) \in Nat
           /\ Exceeding(values, v) * 1000 <= (1000 - p) * Cardinality(D)
<1> USE DEF Shares
<1>1. PICK n \in Nat \ {0} : n = Cardinality(D)
  BY FS_CardinalityType, FS_EmptySet
<1>2. PICK x \in Nat : x = p * n
  OBVIOUS
<1>3. x <= 1000 * n /\ (1000 - p) * n = 1000 * n - x
  <2>1. PICK rest \in Nat : rest = 1000 - p
    OBVIOUS
  <2>2. rest * n \in Nat /\ p * n + rest * n = 1000 * n
    BY <2>1
  <2>3. QED
    BY <1>2, <2>1, <2>2
<1>4. PICK rank \in Nat : rank = (x + 999) \div 1000
  OBVIOUS
<1>5. rank * 1000 >= x /\ rank <= n
  BY <1>3, <1>4
<1>6. PICK s \in {0, 1} : /\ s = 1 => rank < n
                          /\ v = Ranked(values, IF rank + s < 1 THEN 1 ELSE rank + s)
  <2>1. DOMAIN values = D
    OBVIOUS
  <2>2. QED
    BY <1>1, <1>2, <1>4, <2>1 DEF Percentiles
<1>7. PICK r \in Nat \ {0} : r = IF rank + s < 1 THEN 1 ELSE rank + s
  OBVIOUS
<1>8. r <= n /\ r * 1000 >= x
  BY <1>5, <1>6, <1>7
<1>9. v \in {values[j] : j \in D} /\ Cardinality({j \in D : values[j] <= v}) >= r
  BY <1>1, <1>6, <1>7, <1>8, RankedIs
<1>10. v \in Nat
  BY <1>9
<1>11. Exceeding(values, v) \in Nat /\ Exceeding(values, v) + r <= n
  BY <1>1, <1>9, <1>10, ExceededBy
<1>12. Exceeding(values, v) * 1000 <= 1000 * n - x
  BY <1>8, <1>11
<1>13. QED
  BY <1>1, <1>3, <1>9, <1>11, <1>12
LEMMA CandidatesAre ==
    /\ DOMAIN Candidates \in SUBSET Nat /\ Len(Candidates) \in DOMAIN Candidates
    /\ \A c \in DOMAIN Candidates : Candidates[c] \in Shares
    /\ Target \in Nat
<1>1. Candidates \in Seq(Shares) /\ Len(Candidates) > 0 /\ Target \in Nat
  BY CapsAssumption DEF Shares
<1>2. Len(Candidates) \in Nat /\ DOMAIN Candidates = 1..Len(Candidates)
  BY <1>1
<1>3. QED
  BY <1>1, <1>2

\* The recommended percentile is one of the values; if a candidate can meet the
\* target, it does.
LEMMA ChosenMeets ==
    ASSUME NEW D, IsFiniteSet(D), D # {}, NEW values \in [D -> Nat],
           NEW C, C = DOMAIN Candidates, NEW cap \in [C -> {values[j] : j \in D}],
           \A c \in C : cap[c] \in Percentiles(values, Candidates[c])
    PROVE  /\ Chosen(values, cap) \in {values[j] : j \in D}
           /\ Exceeding(values, Chosen(values, cap)) \in Nat
           /\ Reachable => Exceeding(values, Chosen(values, cap)) * 1000 <= Target * Cardinality(D)
<1>1. PICK n \in Nat : n = Cardinality(D)
  BY FS_CardinalityType
<1> DEFINE met == {c \in C : Exceeding(values, cap[c]) * 1000 <= Target * n}
<1>2. DOMAIN values = D
  OBVIOUS
<1>3. Chosen(values, cap) = IF met = {} THEN cap[Len(Candidates)]
                            ELSE cap[CHOOSE c \in met : \A d \in met : c <= d]
  BY <1>1, <1>2 DEF Chosen
<1>4. /\ C \in SUBSET Nat /\ Len(Candidates) \in C
      /\ \A c \in C : Candidates[c] \in Shares
      /\ Target \in Nat
  BY CandidatesAre
<1>5. ASSUME NEW c \in C
      PROVE  /\ cap[c] \in {values[j] : j \in D}
             /\ Exceeding(values, cap[c]) \in Nat
             /\ Exceeding(values, cap[c]) * 1000 <= (1000 - Candidates[c]) * n
  <2>1. Candidates[c] \in Shares /\ cap[c] \in Percentiles(values, Candidates[c])
    BY <1>4
  <2>2. PICK v \in {values[j] : j \in D} : v = cap[c]
    OBVIOUS
  <2>3. PICK p \in Shares : p = Candidates[c] /\ v \in Percentiles(values, p)
    BY <2>1, <2>2
  <2>4. /\ v \in {values[j] : j \in D}
        /\ Exceeding(values, v) \in Nat
        /\ Exceeding(values, v) * 1000 <= (1000 - p) * Cardinality(D)
    BY <2>3, PercentileIs
  <2>5. QED
    BY <1>1, <2>2, <2>3, <2>4
<1>6. CASE met = {}
  <2>1. ~Reachable
    <3>1. SUFFICES ASSUME NEW c \in C, 1000 - Candidates[c] <= Target
                   PROVE  FALSE
      BY DEF Reachable
    <3>2. PICK rest \in Nat, target \in Nat, e \in Nat :
              rest = 1000 - Candidates[c] /\ target = Target /\ e = Exceeding(values, cap[c])
      <4>1. PICK p \in Shares : p = Candidates[c]
        BY <1>4
      <4>2. PICK rest \in Nat : rest = 1000 - p
        BY DEF Shares
      <4>3. PICK target \in Nat : target = Target
        BY <1>4
      <4>4. PICK e \in Nat : e = Exceeding(values, cap[c])
        BY <1>5
      <4>5. QED
        BY <4>1, <4>2, <4>3, <4>4
    <3>3. rest * n <= target * n
      <4>1. PICK more \in Nat : target = rest + more
        <5>1. rest <= target
          BY <3>1, <3>2
        <5>2. target - rest \in Nat /\ target = rest + (target - rest)
          BY <5>1
        <5>3. QED
          BY <5>2
      <4>2. more * n \in Nat /\ (rest + more) * n = rest * n + more * n
        OBVIOUS
      <4>3. rest * n \in Nat
        OBVIOUS
      <4>4. QED
        BY <4>1, <4>2, <4>3
    <3>4. e * 1000 <= rest * n
      BY <1>5, <3>2
    <3>5. rest * n \in Nat /\ target * n \in Nat
      OBVIOUS
    <3>6. e * 1000 <= target * n
      BY <3>3, <3>4, <3>5
    <3>7. c \in met
      BY <3>2, <3>6
    <3>8. QED
      BY <1>6, <3>7
  <2>2. Chosen(values, cap) = cap[Len(Candidates)]
    BY <1>3, <1>6
  <2>3. QED
    BY <1>4, <1>5, <2>1, <2>2
<1>7. CASE met # {}
  <2>1. \E c \in met : \A d \in met : c <= d
    <3>1. met \in SUBSET Nat
      BY <1>4
    <3> HIDE DEF met
    <3>2. QED
      BY <1>7, <3>1, Least
  <2>2. PICK c \in met : c = CHOOSE k \in met : \A d \in met : k <= d
    <3> HIDE DEF met
    <3>1. QED
      BY <2>1
  <2>3. Chosen(values, cap) = cap[c]
    BY <1>3, <1>7, <2>2
  <2>4. c \in C /\ Exceeding(values, cap[c]) * 1000 <= Target * n
    BY <2>2
  <2>5. QED
    BY <1>1, <1>5, <2>3, <2>4
<1>8. QED
  BY <1>6, <1>7

\* The buffer takes nothing away.
LEMMA BufferedMore ==
    ASSUME NEW cap \in Nat
    PROVE  Buffered(cap) \in Nat /\ Buffered(cap) >= cap
<1>1. CASE BufferBps = 0
  BY <1>1 DEF Buffered
<1>2. CASE BufferBps # 0
  <2>1. PICK b \in Nat : b = BufferBps
    BY CapsAssumption
  <2>2. PICK x \in Nat : x = cap * b
    BY <2>1
  <2>3. cap * (10000 + b) + 9999 = 10000 * cap + x + 9999
    BY <2>2
  <2>4. Buffered(cap) = (10000 * cap + x + 9999) \div 10000
    BY <1>2, <2>1, <2>3 DEF Buffered
  <2>5. QED
    BY <2>4
<1>3. QED
  BY <1>1, <1>2

SampleRecord == [profile : Profiles, success : BOOLEAN, charged : Nat, actual : Nat]
SentRecord == [profile : Profiles, used : Nat]
CapsRecord == [at : {"idle", "run", "analyze", "over"}, i : Nat \ {0}, samples : Seq(SampleRecord),
               recommended : [normal : Nat, deploy : Nat], ran : Nat, sent : Seq(SentRecord),
               deployed : SUBSET Nat, mixed : BOOLEAN, watching : BOOLEAN]

\* There is a sample of each operation that was sent.
LogInv == Len(caps.samples) = caps.i - 1 /\ Len(caps.sent) = caps.i - 1

\* Unless a bundle held another operation, the sample tells what the operation used.
SampledInv ==
    \A j \in 1..(caps.i - 1) :
        /\ caps.samples[j].profile = caps.sent[j].profile
        /\ ~caps.mixed =>
               /\ caps.samples[j].success <=> caps.sent[j].used > 0
               /\ caps.samples[j].success =>
                      /\ caps.samples[j].charged = IF caps.watching THEN caps.sent[j].used ELSE 0
                      /\ caps.samples[j].actual = caps.sent[j].used + 1

\* In a first run an operation of the other profile deploys its account.
FirstRunInv ==
    caps.ran = 0 =>
        /\ caps.deployed \subseteq 1..(caps.i - 1)
        /\ \A j \in 1..(caps.i - 1) : caps.sent[j].profile = "deploy" /\ caps.sent[j].used > 0 =>
               \E units \in Units : caps.sent[j].used = units + 2

CapsInv ==
    /\ caps \in CapsRecord
    /\ LogInv /\ SampledInv /\ FirstRunInv
    /\ caps.at # "over" => caps.recommended = NoCaps
    /\ CapsMeetTarget

\* The operations of a profile that succeeded and were charged.
Used(profile) == {j \in DOMAIN caps.sent : caps.sent[j].profile = profile /\ caps.sent[j].used > 0}

\* The values are numbers, whoever's they are.
LEMMA ValuesAreNumbers ==
    ASSUME CapsInv, NEW profile
    PROVE  \E D : IsFiniteSet(D) /\ Values(profile) \in [D -> Nat]
<1>1. caps.samples \in Seq(SampleRecord)
  BY DEF CapsInv, CapsRecord
<1>2. Len(caps.samples) \in Nat /\ DOMAIN caps.samples = 1..Len(caps.samples)
  BY <1>1
<1>3. \A j \in DOMAIN caps.samples : caps.samples[j] \in SampleRecord
  BY <1>1
<1>4. \A j \in DOMAIN caps.samples : caps.samples[j].charged \in Nat /\ caps.samples[j].actual \in Nat
  BY <1>3 DEF SampleRecord
<1> DEFINE good == {j \in DOMAIN caps.samples :
                       caps.samples[j].profile = profile /\ caps.samples[j].success}
           charged == {j \in good : caps.samples[j].charged > 0}
           others == {k \in good : caps.samples[k].actual > 0}
<1>5. IsFiniteSet(charged) /\ IsFiniteSet(others)
  <2>1. IsFiniteSet(DOMAIN caps.samples)
    BY <1>2, FS_Interval
  <2>2. charged \in SUBSET (DOMAIN caps.samples) /\ others \in SUBSET (DOMAIN caps.samples)
    OBVIOUS
  <2> HIDE DEF charged, others
  <2>3. QED
    BY <2>1, <2>2, FS_Subset
<1>6. CASE charged # {}
  <2>1. Values(profile) = [j \in charged |-> caps.samples[j].charged]
    BY <1>6 DEF Values
  <2>2. QED
    BY <1>4, <1>5, <2>1
<1>7. CASE charged = {}
  <2>1. Values(profile) = [j \in others |-> caps.samples[j].actual]
    BY <1>7 DEF Values
  <2>2. QED
    BY <1>4, <1>5, <2>1
<1>8. QED
  BY <1>6, <1>7

\* There is a value of each of them, and it is no less than what it used.
LEMMA ValuesAre ==
    ASSUME CapsInv, ~caps.mixed, NEW profile \in Profiles
    PROVE  /\ IsFiniteSet(Used(profile))
           /\ Values(profile) \in [Used(profile) -> Nat]
           /\ \A j \in Used(profile) : Values(profile)[j] >= caps.sent[j].used
<1>1. /\ caps.samples \in Seq(SampleRecord) /\ caps.sent \in Seq(SentRecord)
      /\ caps.watching \in BOOLEAN /\ caps.i \in Nat \ {0}
  BY DEF CapsInv, CapsRecord
<1>2. DOMAIN caps.samples = 1..(caps.i - 1) /\ DOMAIN caps.sent = 1..(caps.i - 1)
  BY <1>1 DEF CapsInv, LogInv
<1>3. ASSUME NEW j \in 1..(caps.i - 1)
      PROVE  /\ caps.sent[j].used \in Nat
             /\ caps.samples[j].success \in BOOLEAN
             /\ caps.samples[j].profile = caps.sent[j].profile
             /\ caps.samples[j].success <=> caps.sent[j].used > 0
             /\ caps.samples[j].success =>
                    /\ caps.samples[j].charged = IF caps.watching THEN caps.sent[j].used ELSE 0
                    /\ caps.samples[j].actual = caps.sent[j].used + 1
  <2>1. caps.samples[j] \in SampleRecord /\ caps.sent[j] \in SentRecord
    BY <1>1, <1>2
  <2>2. caps.sent[j].used \in Nat /\ caps.samples[j].success \in BOOLEAN
    BY <2>1 DEF SampleRecord, SentRecord
  <2>3. QED
    BY <2>2 DEF CapsInv, SampledInv
<1> DEFINE good == {j \in DOMAIN caps.samples :
                       caps.samples[j].profile = profile /\ caps.samples[j].success}
           charged == {j \in good : caps.samples[j].charged > 0}
<1>4. IsFiniteSet(Used(profile))
  <2>1. IsFiniteSet(1..(caps.i - 1))
    BY <1>1, FS_Interval
  <2>2. Used(profile) \in SUBSET (1..(caps.i - 1))
    BY <1>2 DEF Used
  <2>3. QED
    BY <2>1, <2>2, FS_Subset
<1>5. good = Used(profile)
  BY <1>2, <1>3 DEF Used
<1>6. \A j \in Used(profile) : j \in 1..(caps.i - 1) /\ caps.sent[j].used > 0
  BY <1>2 DEF Used
<1>7. CASE caps.watching
  <2>1. charged = Used(profile)
    BY <1>3, <1>5, <1>6, <1>7
  <2>2. CASE Used(profile) # {}
    <3>1. Values(profile) = [j \in Used(profile) |-> caps.samples[j].charged]
      BY <2>1, <2>2 DEF Values
    <3>2. \A j \in Used(profile) : caps.samples[j].charged = caps.sent[j].used
      BY <1>3, <1>6, <1>7
    <3>3. QED
      BY <1>3, <1>4, <1>6, <3>1, <3>2
  <2>3. CASE Used(profile) = {}
    <3>1. {k \in good : caps.samples[k].actual > 0} = {} /\ charged = {}
      BY <1>5, <2>3
    <3>2. Values(profile) = [j \in {} |-> caps.samples[j].actual]
      BY <3>1 DEF Values
    <3>3. QED
      BY <1>4, <2>3, <3>2
  <2>4. QED
    BY <2>2, <2>3
<1>8. CASE ~caps.watching
  <2>1. charged = {}
    BY <1>3, <1>5, <1>6, <1>8
  <2>2. {k \in good : caps.samples[k].actual > 0} = Used(profile)
    BY <1>3, <1>5, <1>6
  <2>3. Values(profile) = [j \in Used(profile) |-> caps.samples[j].actual]
    BY <2>1, <2>2 DEF Values
  <2>4. QED
    BY <1>3, <1>4, <1>5, <1>6, <2>3
<1>9. QED
  BY <1>1, <1>7, <1>8
\* A cap that an operation stays below, and few enough exceed.
Meets(profile, cap) ==
    /\ cap \in Nat
    /\ \E j \in Used(profile) : cap >= caps.sent[j].used
    /\ Reachable => Cardinality({j \in Used(profile) : caps.sent[j].used > cap}) * 1000
                       <= Target * Cardinality(Used(profile))

\* What is recommended is a value of an operation, or more.
LEMMA RecommendedMeets ==
    ASSUME CapsInv, NEW profile \in Profiles, Enough(profile), NEW cap \in Recommendations(profile)
    PROVE  cap \in Nat /\ (~caps.mixed => Meets(profile, cap))
<1> DEFINE values == Values(profile)
           C == DOMAIN Candidates
<1>1. PICK D : IsFiniteSet(D) /\ values \in [D -> Nat]
  BY ValuesAreNumbers
<1>2. ~caps.mixed => D = Used(profile) /\ \A j \in D : values[j] >= caps.sent[j].used
  BY <1>1, ValuesAre
<1>3. DOMAIN values = D
  BY <1>1
<1>4. D # {}
  <2>1. Cardinality(D) >= MinSamples /\ MinSamples \in Nat \ {0}
    BY <1>3, CapsAssumption DEF Enough
  <2>2. QED
    BY <2>1, FS_EmptySet
<1>5. PICK f \in [C -> {values[j] : j \in D}] :
          /\ \A c \in C : f[c] \in Percentiles(values, Candidates[c])
          /\ cap = Buffered(Chosen(values, f))
  BY <1>3 DEF Recommendations
<1> HIDE DEF values
<1>6. /\ Chosen(values, f) \in {values[j] : j \in D}
      /\ Exceeding(values, Chosen(values, f)) \in Nat
      /\ Reachable => Exceeding(values, Chosen(values, f)) * 1000 <= Target * Cardinality(D)
  BY <1>1, <1>4, <1>5, ChosenMeets
<1>7. PICK v \in Nat : v = Chosen(values, f)
  BY <1>1, <1>6
<1>8. cap \in Nat /\ cap >= v
  BY <1>5, <1>7, BufferedMore
<1>9. SUFFICES ASSUME ~caps.mixed PROVE Meets(profile, cap)
  BY <1>8
<1>10. \A j \in D : caps.sent[j].used \in Nat
  <2>1. caps.sent \in Seq(SentRecord)
    BY DEF CapsInv, CapsRecord
  <2>2. \A j \in DOMAIN caps.sent : caps.sent[j] \in SentRecord
    BY <2>1
  <2>3. \A j \in D : caps.sent[j] \in SentRecord
    BY <1>2, <1>9, <2>2 DEF Used
  <2>4. QED
    BY <2>3 DEF SentRecord
<1>11. \E j \in D : cap >= caps.sent[j].used
  <2>1. PICK j \in D : values[j] = v
    BY <1>6, <1>7
  <2>2. QED
    BY <1>1, <1>2, <1>8, <1>9, <1>10, <2>1
<1>12. ASSUME Reachable
       PROVE  Cardinality({j \in D : caps.sent[j].used > cap}) * 1000 <= Target * Cardinality(D)
  <2> DEFINE A == {j \in D : caps.sent[j].used > cap}
             B == {j \in D : values[j] > v}
  <2>1. A \in SUBSET B
    BY <1>1, <1>2, <1>7, <1>8, <1>9, <1>10
  <2>2. IsFiniteSet(B) /\ B \in SUBSET D
    BY <1>1, FS_Subset
  <2>3. /\ Cardinality(A) \in Nat /\ Cardinality(B) \in Nat
        /\ Cardinality(A) <= Cardinality(B)
    BY <2>1, <2>2, FS_Subset, FS_CardinalityType
  <2>4. Exceeding(values, v) = Cardinality(B)
    BY <1>1 DEF Exceeding
  <2> HIDE DEF A, B
  <2>5. PICK a \in Nat, b \in Nat, limit \in Nat :
            a = Cardinality(A) /\ b = Cardinality(B) /\ limit = Target * Cardinality(D)
    <3>1. PICK target \in Nat, d \in Nat : target = Target /\ d = Cardinality(D)
      BY <1>1, CandidatesAre, FS_CardinalityType
    <3>2. target * d \in Nat
      OBVIOUS
    <3>3. QED
      BY <2>3, <3>1, <3>2
  <2>6. b * 1000 <= limit
    BY <1>6, <1>7, <1>12, <2>4, <2>5
  <2>7. a * 1000 <= limit
    BY <2>3, <2>5, <2>6
  <2>8. QED
    BY <2>5, <2>7 DEF A
<1>13. QED
  <2>1. D = Used(profile)
    BY <1>2, <1>9
  <2>2. \E j \in Used(profile) : cap >= caps.sent[j].used
    BY <1>11, <2>1
  <2>3. Reachable => Cardinality({j \in Used(profile) : caps.sent[j].used > cap}) * 1000
                         <= Target * Cardinality(Used(profile))
    BY <1>12, <2>1
  <2>4. QED
    BY <1>8, <2>2, <2>3 DEF Meets

CapsMoved(next, at, i, samples, log, mixing, all) ==
    next = [caps EXCEPT !.at = at, !.i = i, !.samples = samples, !.sent = log,
                        !.mixed = mixing, !.deployed = all]

LEMMA CapsTurn ==
    ASSUME caps \in CapsRecord, NEW at \in {"analyze", "run"}, NEW i \in Nat \ {0},
           NEW samples \in Seq(SampleRecord), NEW log \in Seq(SentRecord),
           NEW mixing \in BOOLEAN, NEW all \in SUBSET Nat,
           NEW next, CapsMoved(next, at, i, samples, log, mixing, all)
    PROVE  /\ next \in CapsRecord
           /\ next.at = at /\ next.i = i /\ next.samples = samples /\ next.sent = log
           /\ next.mixed = mixing /\ next.deployed = all
           /\ next.recommended = caps.recommended /\ next.ran = caps.ran
           /\ next.watching = caps.watching
<1> DEFINE c1 == [caps EXCEPT !.at = at]
           c2 == [c1 EXCEPT !.i = i]
           c3 == [c2 EXCEPT !.samples = samples]
           c4 == [c3 EXCEPT !.sent = log]
           c5 == [c4 EXCEPT !.mixed = mixing]
           c6 == [c5 EXCEPT !.deployed = all]
<1>0. next = c6
  BY DEF CapsMoved
<1>1. /\ c1 \in CapsRecord
      /\ c1.at = at /\ c1.recommended = caps.recommended /\ c1.ran = caps.ran
      /\ c1.watching = caps.watching
  BY DEF CapsRecord
<1> HIDE DEF c1
<1>2. /\ c2 \in CapsRecord
      /\ c2.i = i /\ c2.at = c1.at /\ c2.recommended = c1.recommended /\ c2.ran = c1.ran
      /\ c2.watching = c1.watching
  BY <1>1 DEF CapsRecord
<1> HIDE DEF c2
<1>3. /\ c3 \in CapsRecord
      /\ c3.samples = samples /\ c3.i = c2.i /\ c3.at = c2.at
      /\ c3.recommended = c2.recommended /\ c3.ran = c2.ran /\ c3.watching = c2.watching
  BY <1>2 DEF CapsRecord
<1> HIDE DEF c3
<1>4. /\ c4 \in CapsRecord
      /\ c4.sent = log /\ c4.samples = c3.samples /\ c4.i = c3.i /\ c4.at = c3.at
      /\ c4.recommended = c3.recommended /\ c4.ran = c3.ran /\ c4.watching = c3.watching
  BY <1>3 DEF CapsRecord
<1> HIDE DEF c4
<1>5. /\ c5 \in CapsRecord
      /\ c5.mixed = mixing /\ c5.sent = c4.sent /\ c5.samples = c4.samples /\ c5.i = c4.i
      /\ c5.at = c4.at /\ c5.recommended = c4.recommended /\ c5.ran = c4.ran
      /\ c5.watching = c4.watching
  BY <1>4 DEF CapsRecord
<1> HIDE DEF c5
<1>6. /\ c6 \in CapsRecord
      /\ c6.deployed = all /\ c6.mixed = c5.mixed /\ c6.sent = c5.sent
      /\ c6.samples = c5.samples /\ c6.i = c5.i /\ c6.at = c5.at
      /\ c6.recommended = c5.recommended /\ c6.ran = c5.ran /\ c6.watching = c5.watching
  BY <1>5 DEF CapsRecord
<1> HIDE DEF c6
<1>7. QED
  BY <1>0, <1>1, <1>2, <1>3, <1>4, <1>5, <1>6

\* The tool sends an operation and measures it.
LEMMA MeasuredKeeps ==
    ASSUME CapsInv, caps.at = "run",
           NEW used \in Nat, NEW seen \in Nat, used > 0 <=> seen > 0,
           used > 0 => used \in UsedBy(caps.i),
           NEW deployed \in SUBSET {caps.i},
           Measured(used, seen, deployed)
    PROVE  CapsInv'
<1>1. /\ caps \in CapsRecord /\ LogInv /\ SampledInv /\ FirstRunInv
      /\ caps.recommended = NoCaps
  BY DEF CapsInv
<1>2. PICK i \in Nat \ {0} : i = caps.i
  BY <1>1 DEF CapsRecord
<1>3. PICK sample \in SampleRecord : sample = Sample(i, seen)
  <2>1. PICK profile \in Profiles : profile = Profile(i)
    BY DEF Profile, Profiles
  <2>2. PICK success \in BOOLEAN : success = (seen > 0)
    BY (seen > 0) \in BOOLEAN, Zenon
  <2>3. PICK charged \in Nat : charged = IF caps.watching THEN seen ELSE 0
    <3>1. CASE caps.watching
      BY <3>1
    <3>2. CASE ~caps.watching
      BY <3>2
    <3>3. QED
      BY <3>1, <3>2
  <2>4. PICK actual \in Nat : actual = IF seen > 0 THEN seen + 1 ELSE 0
    OBVIOUS
  <2>5. Sample(i, seen) = [profile |-> profile, success |-> success, charged |-> charged,
                           actual |-> actual]
    BY <2>1, <2>2, <2>3, <2>4 DEF Sample
  <2>6. QED
    BY <2>5 DEF SampleRecord
<1>4. PICK sent \in SentRecord : sent = [profile |-> Profile(i), used |-> used]
  <2>1. PICK profile \in Profiles : profile = Profile(i)
    BY DEF Profile, Profiles
  <2>2. QED
    BY <2>1 DEF SentRecord
<1>5. PICK at \in {"analyze", "run"} : at = IF i = NormalOps + DeployOps THEN "analyze" ELSE "run"
  OBVIOUS
<1>6. PICK mixing \in BOOLEAN : mixing = (caps.mixed \/ seen \notin {used, 0})
  OBVIOUS
<1>7. PICK all \in SUBSET Nat : all = caps.deployed \cup deployed
  BY <1>1, <1>2 DEF CapsRecord
<1>8. PICK samples \in Seq(SampleRecord) : samples = Append(caps.samples, sample)
  <2>1. caps.samples \in Seq(SampleRecord)
    BY <1>1 DEF CapsRecord
  <2>2. Append(caps.samples, sample) \in Seq(SampleRecord)
    BY <2>1
  <2>3. QED
    BY <2>2
<1>9. PICK log \in Seq(SentRecord) : log = Append(caps.sent, sent)
  <2>1. caps.sent \in Seq(SentRecord)
    BY <1>1 DEF CapsRecord
  <2>2. Append(caps.sent, sent) \in Seq(SentRecord)
    BY <2>1
  <2>3. QED
    BY <2>2
<1>10. caps' = [caps EXCEPT !.at = at, !.i = i + 1, !.samples = samples, !.sent = log,
                            !.mixed = mixing, !.deployed = all]
  BY <1>2, <1>3, <1>4, <1>5, <1>6, <1>7, <1>8, <1>9 DEF Measured
<1>11. /\ caps' \in CapsRecord
       /\ caps'.at = at /\ caps'.i = i + 1 /\ caps'.samples = samples /\ caps'.sent = log
       /\ caps'.mixed = mixing /\ caps'.deployed = all
       /\ caps'.recommended = caps.recommended /\ caps'.ran = caps.ran
       /\ caps'.watching = caps.watching
  <2>1. PICK n \in Nat \ {0} : n = i + 1
    OBVIOUS
  <2>2. PICK next : next = caps'
    OBVIOUS
  <2>3. CapsMoved(next, at, n, samples, log, mixing, all)
    BY <1>10, <2>1, <2>2 DEF CapsMoved
  <2>4. /\ next \in CapsRecord
        /\ next.at = at /\ next.i = n /\ next.samples = samples /\ next.sent = log
        /\ next.mixed = mixing /\ next.deployed = all
        /\ next.recommended = caps.recommended /\ next.ran = caps.ran
        /\ next.watching = caps.watching
    BY <1>1, <2>3, CapsTurn
  <2>5. QED
    BY <2>1, <2>2, <2>4
<1>12. /\ Len(caps.samples) = i - 1 /\ Len(caps.sent) = i - 1
       /\ caps.samples \in Seq(SampleRecord) /\ caps.sent \in Seq(SentRecord)
  BY <1>1, <1>2 DEF LogInv, CapsRecord
<1>13. /\ Len(samples) = i /\ samples[i] = sample
       /\ Len(log) = i /\ log[i] = sent
       /\ \A j \in 1..(i - 1) : samples[j] = caps.samples[j] /\ log[j] = caps.sent[j]
  BY <1>8, <1>9, <1>12
<1>14. LogInv'
  BY <1>11, <1>13 DEF LogInv
<1>15. /\ sample.profile = sent.profile /\ sent.profile = Profile(i) /\ sent.used = used
       /\ sample.success <=> seen > 0
       /\ sample.charged = IF caps.watching THEN seen ELSE 0
       /\ seen > 0 => sample.actual = seen + 1
  BY <1>3, <1>4 DEF Sample
<1>16. SampledInv'
  <2>1. ASSUME NEW j \in 1..i
        PROVE  /\ samples[j].profile = log[j].profile
               /\ ~mixing =>
                      /\ samples[j].success <=> log[j].used > 0
                      /\ samples[j].success =>
                             /\ samples[j].charged = IF caps.watching THEN log[j].used ELSE 0
                             /\ samples[j].actual = log[j].used + 1
    <3>1. CASE j = i
      <4>1. samples[j] = sample /\ log[j] = sent
        BY <1>13, <3>1
      <4>2. ~mixing => seen = used \/ seen = 0
        BY <1>6, Zenon
      <4>3. QED
        BY <1>15, <4>1, <4>2
    <3>2. CASE j \in 1..(i - 1)
      BY <1>1, <1>2, <1>6, <1>13, <3>2 DEF SampledInv
    <3>3. QED
      BY <3>1, <3>2
  <2>2. (i + 1) - 1 = i
    OBVIOUS
  <2>3. QED
    BY <1>11, <2>1, <2>2 DEF SampledInv
<1>17. FirstRunInv'
  <2>1. SUFFICES ASSUME caps.ran = 0
                 PROVE  /\ all \subseteq 1..i
                        /\ \A j \in 1..i : log[j].profile = "deploy" /\ log[j].used > 0 =>
                               \E units \in Units : log[j].used = units + 2
    <3>1. (i + 1) - 1 = i
      OBVIOUS
    <3>2. QED
      BY <1>11, <3>1 DEF FirstRunInv
  <2>2. caps.deployed \subseteq 1..(i - 1)
    BY <1>1, <1>2, <2>1 DEF FirstRunInv
  <2>3. all \subseteq 1..i
    BY <1>2, <1>7, <2>2
  <2>4. ASSUME NEW j \in 1..i, log[j].profile = "deploy", log[j].used > 0
        PROVE  \E units \in Units : log[j].used = units + 2
    <3>1. CASE j = i
      <4>1. Deploys(i)
        BY <1>13, <1>15, <2>2, <2>4, <3>1 DEF Deploys
      <4>2. used \in {units + 2 : units \in Units}
        BY <1>2, <1>13, <1>15, <2>4, <3>1, <4>1 DEF UsedBy
      <4>3. QED
        BY <1>13, <1>15, <3>1, <4>2
    <3>2. CASE j \in 1..(i - 1)
      BY <1>1, <1>2, <1>13, <2>1, <2>4, <3>2 DEF FirstRunInv
    <3>3. QED
      BY <3>1, <3>2
  <2>5. QED
    BY <2>3, <2>4
<1>18. QED
  BY <1>1, <1>11, <1>14, <1>16, <1>17 DEF CapsInv, CapsMeetTarget
\* The tool recommends, or finds it has too little to go by.
LEMMA AnalyzeKeeps ==
    ASSUME CapsInv, Analyze
    PROVE  CapsInv'
<1> DEFINE Recommends(rec) == caps' = [caps EXCEPT !.at = "over", !.recommended = rec]
<1>1. caps \in CapsRecord /\ LogInv /\ SampledInv /\ FirstRunInv
  BY DEF CapsInv
<1>2. ASSUME NEW rec \in [normal : Nat, deploy : Nat], Recommends(rec)
      PROVE  /\ caps' \in CapsRecord
             /\ caps'.at = "over" /\ caps'.recommended = rec
             /\ caps'.sent = caps.sent /\ caps'.mixed = caps.mixed /\ caps'.ran = caps.ran
             /\ LogInv' /\ SampledInv' /\ FirstRunInv'
  <2>1. /\ caps' \in CapsRecord
        /\ caps'.at = "over" /\ caps'.recommended = rec
        /\ caps'.i = caps.i /\ caps'.samples = caps.samples /\ caps'.sent = caps.sent
        /\ caps'.mixed = caps.mixed /\ caps'.deployed = caps.deployed
        /\ caps'.ran = caps.ran /\ caps'.watching = caps.watching
    BY <1>1, <1>2 DEF CapsRecord
  <2>2. LogInv' /\ SampledInv' /\ FirstRunInv'
    BY <1>1, <2>1 DEF LogInv, SampledInv, FirstRunInv
  <2>3. QED
    BY <2>1, <2>2
<1>3. ASSUME Recommends(NoCaps)
      PROVE  CapsInv'
  <2>1. PICK rec \in [normal : Nat, deploy : Nat] : rec = NoCaps
    BY DEF NoCaps
  <2>2. Recommends(rec)
    BY <1>3, <2>1
  <2> HIDE DEF Recommends
  <2>3. /\ caps' \in CapsRecord
        /\ caps'.at = "over" /\ caps'.recommended = NoCaps
        /\ LogInv' /\ SampledInv' /\ FirstRunInv'
    BY <1>2, <2>1, <2>2
  <2>4. QED
    BY <2>3 DEF CapsInv, CapsMeetTarget
<1>4. ASSUME Enough("normal"), Enough("deploy"),
             NEW normal \in Recommendations("normal"), NEW deploy \in Recommendations("deploy"),
             Recommends([normal |-> normal, deploy |-> deploy])
      PROVE  CapsInv'
  <2>1. "normal" \in Profiles /\ "deploy" \in Profiles
    BY DEF Profiles
  <2>2. normal \in Nat /\ (~caps.mixed => Meets("normal", normal))
    BY <1>4, <2>1, RecommendedMeets
  <2>3. deploy \in Nat /\ (~caps.mixed => Meets("deploy", deploy))
    BY <1>4, <2>1, RecommendedMeets
  <2>4. PICK rec \in [normal : Nat, deploy : Nat] : rec = [normal |-> normal, deploy |-> deploy]
    BY <2>2, <2>3
  <2>5. rec["normal"] = normal /\ rec["deploy"] = deploy
    BY <2>4
  <2>6. Recommends(rec)
    BY <1>4, <2>4
  <2> HIDE DEF Recommends
  <2>7. /\ caps' \in CapsRecord
        /\ caps'.at = "over" /\ caps'.recommended = rec
        /\ caps'.sent = caps.sent /\ caps'.mixed = caps.mixed /\ caps'.ran = caps.ran
        /\ LogInv' /\ SampledInv' /\ FirstRunInv'
    BY <1>2, <2>6
  <2>8. ASSUME ~caps.mixed, Reachable, NEW profile \in Profiles
        PROVE  LET used == {j \in DOMAIN caps.sent :
                               caps.sent[j].profile = profile /\ caps.sent[j].used > 0}
                   over == {j \in used : caps.sent[j].used > rec[profile]}
               IN  Cardinality(over) * 1000 <= Target * Cardinality(used)
    <3>1. Meets(profile, rec[profile])
      BY <2>2, <2>3, <2>5, <2>8 DEF Profiles
    <3>2. QED
      BY <2>8, <3>1 DEF Meets, Used
  <2>9. ASSUME ~caps.mixed, caps.ran = 0
        PROVE  \E units \in Units : rec["deploy"] >= units + 2
    <3>1. PICK j \in Used("deploy") : deploy >= caps.sent[j].used
      BY <2>3, <2>9 DEF Meets
    <3>2. caps.sent \in Seq(SentRecord) /\ caps.i \in Nat \ {0} /\ Len(caps.sent) = caps.i - 1
      BY <1>1 DEF CapsRecord, LogInv
    <3>3. DOMAIN caps.sent = 1..(caps.i - 1)
      BY <3>2
    <3>4. j \in 1..(caps.i - 1) /\ caps.sent[j].profile = "deploy" /\ caps.sent[j].used > 0
      BY <3>1, <3>3 DEF Used
    <3>5. \E units \in Units : caps.sent[j].used = units + 2
      BY <1>1, <2>9, <3>4 DEF FirstRunInv
    <3>6. QED
      BY <2>5, <3>1, <3>5
  <2>10. CapsMeetTarget'
    BY <2>7, <2>8, <2>9 DEF CapsMeetTarget, Reachable
  <2>11. QED
    BY <2>7, <2>10 DEF CapsInv
<1>5. CASE \A profile \in Profiles : Enough(profile)
  <2>1. PICK normal \in Recommendations("normal"), deploy \in Recommendations("deploy") :
            Recommends([normal |-> normal, deploy |-> deploy])
    BY <1>5, Zenon DEF Analyze
  <2> HIDE DEF Recommends
  <2>2. Enough("normal") /\ Enough("deploy")
    BY <1>5 DEF Profiles
  <2>3. QED
    BY <1>4, <2>1, <2>2
<1>6. CASE ~\A profile \in Profiles : Enough(profile)
  BY <1>3, <1>6 DEF Analyze
<1>7. QED
  BY <1>5, <1>6

\* Only the tool changes what it knows.
LEMMA CapsPart ==
    ASSUME Next \/ UNCHANGED deskVars
    PROVE  CapsStep \/ UNCHANGED caps
<1>1. ASSUME NEW part, part # "caps", Only(part)
      PROVE  UNCHANGED caps
  BY <1>1 DEF Only, capsVars
<1>2. CASE \E r \in Requests : Received(r) \/ FundAnswered(r) \/ GivenUp(r)
  BY <1>1, <1>2 DEF Received, FundAnswered, GivenUp, capsVars
<1>3. CASE \E part \in {"chain", "panel", "tables", "rows", "metrics", "overview"} : Only(part)
  BY <1>1, <1>3
<1>4. CASE Has("caps") /\ Only("caps") /\ CapsStep
  BY <1>4
<1>5. CASE UNCHANGED deskVars
  BY <1>5 DEF deskVars, capsVars
<1>6. QED
  BY <1>2, <1>3, <1>4, <1>5 DEF Next

\* The caps the tool recommends meet their target wherever a candidate percentile can,
\* whatever the operations use and however few succeed; and a first run's covers a
\* deployment.
THEOREM CapsCorrect == Spec => []CapsMeetTarget
<1>1. Init => CapsInv
  <2> SUFFICES ASSUME Init PROVE CapsInv
    OBVIOUS
  <2>1. PICK watching \in BOOLEAN :
            caps = [at |-> "idle", i |-> 1, samples |-> <<>>, recommended |-> NoCaps, ran |-> 0,
                    sent |-> <<>>, deployed |-> {}, mixed |-> FALSE, watching |-> watching]
    <3>1. scene.watching \subseteq BOOLEAN
      BY WorldAssumption DEF Init
    <3>2. CapsInit(scene.watching)
      BY DEF Init
    <3>3. QED
      BY <3>1, <3>2 DEF CapsInit
  <2>2. <<>> \in Seq(SampleRecord) /\ <<>> \in Seq(SentRecord)
    OBVIOUS
  <2>3. NoCaps \in [normal : Nat, deploy : Nat]
    BY DEF NoCaps
  <2>4. caps \in CapsRecord
    BY <2>1, <2>2, <2>3 DEF CapsRecord
  <2>5. QED
    BY <2>1, <2>4 DEF CapsInv, LogInv, SampledInv, FirstRunInv, CapsMeetTarget
<1>2. CapsInv /\ [Next]_deskVars => CapsInv'
  <2> SUFFICES ASSUME CapsInv, [Next]_deskVars PROVE CapsInv'
    OBVIOUS
  <2>1. CapsStep \/ UNCHANGED caps
    BY CapsPart
  <2>2. CASE UNCHANGED caps
    BY <2>2 DEF CapsInv, LogInv, SampledInv, FirstRunInv, CapsMeetTarget
  <2>3. caps \in CapsRecord
    BY DEF CapsInv
  <2>4. ASSUME NEW at \in {"run", "over"}, caps.at # "over", caps' = [caps EXCEPT !.at = at]
        PROVE  CapsInv'
    <3>1. /\ caps' \in CapsRecord
          /\ caps'.at = at /\ caps'.recommended = caps.recommended
          /\ caps'.i = caps.i /\ caps'.samples = caps.samples /\ caps'.sent = caps.sent
          /\ caps'.mixed = caps.mixed /\ caps'.deployed = caps.deployed
          /\ caps'.ran = caps.ran /\ caps'.watching = caps.watching
      BY <2>3, <2>4 DEF CapsRecord
    <3>2. LogInv' /\ SampledInv' /\ FirstRunInv'
      BY <3>1 DEF CapsInv, LogInv, SampledInv, FirstRunInv
    <3>3. caps'.recommended = NoCaps
      BY <2>4, <3>1 DEF CapsInv
    <3>4. QED
      BY <3>1, <3>2, <3>3 DEF CapsInv, CapsMeetTarget
  <2>5. CASE WarmUp
    BY <2>4, <2>5 DEF WarmUp
  <2>6. CASE ExecuteScenario
    <3>1. ASSUME NEW used \in UsedBy(caps.i), NEW seen \in UsedBy(caps.i) \cup Units,
                 caps.at = "run", Measured(used, seen, {caps.i})
          PROVE  CapsInv'
      <4>1. Units \subseteq Nat \ {0}
        BY CapsAssumption
      <4>2. UsedBy(caps.i) \in SUBSET (Nat \ {0})
        BY <4>1 DEF UsedBy
      <4>3. used \in Nat /\ seen \in Nat /\ used > 0 /\ seen > 0
        <5>1. used \in Nat \ {0} /\ seen \in Nat \ {0}
          BY <4>1, <4>2
        <5>2. QED
          BY <5>1
      <4>4. {caps.i} \in SUBSET {caps.i}
        OBVIOUS
      <4>5. QED
        BY <3>1, <4>3, <4>4, MeasuredKeeps
    <3>2. ASSUME NEW deployed \in {{}, {caps.i}}, caps.at = "run", Measured(0, 0, deployed)
          PROVE  CapsInv'
      <4>1. deployed \in SUBSET {caps.i} /\ 0 \in Nat /\ ~(0 > 0)
        OBVIOUS
      <4>2. QED
        BY <3>2, <4>1, MeasuredKeeps
    <3>3. QED
      BY <2>4, <2>6, <3>1, <3>2 DEF ExecuteScenario
  <2>7. CASE Analyze
    BY <2>7, AnalyzeKeeps
  <2>8. CASE RunAgain
    <3>1. /\ caps' \in CapsRecord
          /\ caps'.at = "idle" /\ caps'.recommended = NoCaps /\ caps'.i = 1
          /\ caps'.samples = <<>> /\ caps'.sent = <<>> /\ caps'.ran = caps.ran + 1
          /\ caps.ran \in Nat
      <4> DEFINE c1 == [caps EXCEPT !.at = "idle"]
                 c2 == [c1 EXCEPT !.i = 1]
                 c3 == [c2 EXCEPT !.samples = <<>>]
                 c4 == [c3 EXCEPT !.sent = <<>>]
                 c5 == [c4 EXCEPT !.mixed = FALSE]
                 c6 == [c5 EXCEPT !.recommended = NoCaps]
                 c7 == [c6 EXCEPT !.ran = caps.ran + 1]
      <4>0. caps' = c7 /\ caps.ran \in Nat
        BY <2>3, <2>8 DEF RunAgain, CapsRecord
      <4>1. c1 \in CapsRecord /\ c1.at = "idle"
        BY <2>3 DEF CapsRecord
      <4> HIDE DEF c1
      <4>2. c2 \in CapsRecord /\ c2.i = 1 /\ c2.at = "idle"
        BY <4>1 DEF CapsRecord
      <4> HIDE DEF c2
      <4>3. c3 \in CapsRecord /\ c3.i = 1 /\ c3.at = "idle" /\ c3.samples = <<>>
        BY <4>2, <<>> \in Seq(SampleRecord) DEF CapsRecord
      <4> HIDE DEF c3
      <4>4. /\ c4 \in CapsRecord /\ c4.i = 1 /\ c4.at = "idle" /\ c4.samples = <<>>
            /\ c4.sent = <<>>
        BY <4>3, <<>> \in Seq(SentRecord) DEF CapsRecord
      <4> HIDE DEF c4
      <4>5. /\ c5 \in CapsRecord /\ c5.i = 1 /\ c5.at = "idle" /\ c5.samples = <<>>
            /\ c5.sent = <<>>
        BY <4>4 DEF CapsRecord
      <4> HIDE DEF c5
      <4>6. /\ c6 \in CapsRecord /\ c6.i = 1 /\ c6.at = "idle" /\ c6.samples = <<>>
            /\ c6.sent = <<>> /\ c6.recommended = NoCaps
        BY <4>5 DEF CapsRecord, NoCaps
      <4> HIDE DEF c6
      <4>7. /\ c7 \in CapsRecord /\ c7.i = 1 /\ c7.at = "idle" /\ c7.samples = <<>>
            /\ c7.sent = <<>> /\ c7.recommended = NoCaps /\ c7.ran = caps.ran + 1
        BY <4>0, <4>6 DEF CapsRecord
      <4> HIDE DEF c7
      <4>8. QED
        BY <4>0, <4>7
    <3>2. LogInv' /\ SampledInv' /\ FirstRunInv'
      BY <3>1 DEF LogInv, SampledInv, FirstRunInv
    <3>3. QED
      BY <3>1, <3>2 DEF CapsInv, CapsMeetTarget
  <2>9. QED
    BY <2>1, <2>2, <2>5, <2>6, <2>7, <2>8 DEF CapsStep
<1>3. CapsInv => CapsMeetTarget
  BY DEF CapsInv
<1>4. QED
  BY <1>1, <1>2, <1>3, PTL DEF Spec


=============================================================================
