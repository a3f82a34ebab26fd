------------------------- MODULE ControlPlaneProofs -------------------------
(***************************************************************************)
(* Theorems about module ControlPlane, for every number of requests, every  *)
(* set of scenes, and every duration and price.                             *)
(***************************************************************************)
EXTENDS ControlPlane, SumsProofs

-----------------------------------------------------------------------------
(* The arithmetic of prices *)

LEMMA WithFeesNat == \A unit \in Nat : WithFees(unit) \in Nat
<1> SUFFICES ASSUME NEW unit \in Nat PROVE WithFees(unit) \in Nat
  OBVIOUS
<1>1. 10000 + AmplifierBps \in Nat /\ 10000 + ServiceFeeBps \in Nat
  BY PricingAssumption
<1>2. (unit * (10000 + AmplifierBps)) \div 10000 \in Nat
  BY <1>1, TimesNat, QuotientNat
<1>3. QED
  BY <1>1, <1>2, TimesNat, QuotientNat DEF WithFees, Marked

LEMMA PriceNat ==
    ASSUME NEW unit \in Nat, NEW d \in Nat \ {0}
    PROVE  (unit * Scale) \div d \in Nat
BY ScaleAssumption, TimesNat, QuotientNat

LEMMA AtLeastOneNat == \A n \in Nat : AtLeastOne(n) \in Nat
BY DEF AtLeastOne

-----------------------------------------------------------------------------
(* Types *)

LEMMA NewRecordType ==
    ASSUME NEW q \in Quotes, NEW from, NEW new \in QuoteRecord, QuoteTypeOK,
           Step(q, from, new), UNCHANGED <<counters, recorded, market, gasPrice>>
    PROVE  QuoteTypeOK'
BY DEF QuoteTypeOK, Step

LEMMA CostNat ==
    ASSUME NEW ask \in Ask, NEW units \in Nat, NEW price \in Nat, QuoteTypeOK
    PROVE  (MaxCost(ask, units) * price) \div Scale \in Nat
<1>1. (IF ask.maxFee > 0 THEN ask.maxFee ELSE gasPrice) \in Nat
  BY PricingAssumption DEF Ask, QuoteTypeOK
<1>2. MaxCost(ask, units) \in Nat
  BY <1>1, TimesNat DEF MaxCost
<1>3. QED
  BY <1>2, TimesNat, QuotientNat, ScaleAssumption

LEMMA AnswerType ==
    ASSUME NEW q \in Quotes, QuoteTypeOK
    PROVE  Answer(q) \in [normal : Nat, deploy : Nat, total : Nat]
<1> DEFINE usdcFor(units) == (MaxCost(quote[q].ask, units) * quote[q].price) \div Scale
           base == usdcFor(IF quote[q].ask.initCode THEN DeployUnits ELSE NormalUnits)
<1>1. quote[q].ask \in Ask /\ quote[q].price \in Nat /\ quote[q].ask.refBps \in Nat
  BY DEF QuoteTypeOK, QuoteRecord, Ask
<1>2. \A units \in Nat : usdcFor(units) \in Nat
  BY <1>1, CostNat
<1>3. usdcFor(NormalUnits) \in Nat /\ usdcFor(DeployUnits) \in Nat /\ base \in Nat
  BY <1>2, PricingAssumption
<1>4. base + (base * quote[q].ask.refBps) \div 10000 \in Nat
  <2> HIDE DEF base
  <2>1. base * quote[q].ask.refBps \in Nat
    BY <1>1, <1>3, TimesNat
  <2> QED
    BY <1>3, <2>1, QuotientNat
<1>5. Answer(q) = [normal |-> usdcFor(NormalUnits), deploy |-> usdcFor(DeployUnits),
                   total |-> base + (base * quote[q].ask.refBps) \div 10000]
  BY DEF Answer
<1> HIDE DEF usdcFor, base
<1>6. QED
  BY <1>3, <1>4, <1>5

LEMMA BeginQuoteType ==
    ASSUME NEW q \in Quotes, NEW ask \in Asks, QuoteTypeOK, BeginQuote(q, ask)
    PROVE  QuoteTypeOK'
<1> DEFINE new == [quote[q] EXCEPT
           !.at = "counters", !.left = Validity + 1,
           !.ask = IF ask.stub THEN [ask EXCEPT !.refBps = 0] ELSE ask]
<1>1. (IF ask.stub THEN [ask EXCEPT !.refBps = 0] ELSE ask) \in Ask
  BY AsksAssumption DEF Ask
<1>2. Validity + 1 \in 0..(Validity + 1)
  BY PricingAssumption
<1>3. quote[q] \in QuoteRecord
  BY DEF QuoteTypeOK
<1>4. new \in QuoteRecord
  BY <1>1, <1>2, <1>3 DEF QuoteRecord, QuoteStages
<1>5. QED
  BY <1>4, NewRecordType DEF BeginQuote

LEMMA QuoteStepType ==
    ASSUME NEW q \in Quotes, QuoteTypeOK, QuoteStep(q)
    PROVE  QuoteTypeOK'
<1> USE DEF QuoteTypeOK
<1>1. quote[q] \in QuoteRecord
  OBVIOUS
<1>2. 0 \in 0..(Validity + 1)
  BY PricingAssumption
<1>3. AfterPrice(q) \in QuoteStages
  BY DEF AfterPrice, QuoteStages
<1>4. CASE ReadCounters(q)
  <2>1. ASSUME Priced(counters) PROVE WithFees(Average(counters)) \in Nat
    <3>1. counters.usdc \in Nat /\ counters.wei \in Nat \ {0}
      BY <2>1 DEF Priced
    <3>2. QED
      BY <3>1, PriceNat, WithFeesNat DEF Average
  <2>2. (IF Priced(counters)
         THEN [quote[q] EXCEPT !.at = AfterPrice(q), !.age = 0,
                               !.price = WithFees(Average(counters))]
         ELSE [quote[q] EXCEPT !.at = "pools", !.age = 0]) \in QuoteRecord
    <3>1. CASE Priced(counters)
      <4>1. ASSUME NEW price \in Nat, NEW at \in QuoteStages
            PROVE  [quote[q] EXCEPT !.at = at, !.age = 0, !.price = price] \in QuoteRecord
        BY <1>1, <1>2 DEF QuoteRecord
      <4>2. QED
        BY <1>3, <2>1, <3>1, <4>1
    <3>2. CASE ~Priced(counters)
      BY <1>1, <1>2, <3>2 DEF QuoteRecord, QuoteStages
    <3>3. QED
      BY <3>1, <3>2
  <2>3. QED
    BY <1>4, <2>2, NewRecordType DEF ReadCounters
<1>5. CASE AskPool(q)
  <2>1. quote[q].pool \in 1..Pools /\ quote[q].pool + 1 \in 1..(Pools + 1)
    <3>1. quote[q].pool \in 1..(Pools + 1) /\ quote[q].pool <= Pools
      BY <1>1, <1>5 DEF AskPool, QuoteRecord
    <3>2. Pools \in Nat
      BY PricingAssumption
    <3>3. QED
      BY <3>1, <3>2
  <2>2. market[quote[q].pool] \in Nat
    BY <2>1, PricingAssumption
  <2>3. [quote[q] EXCEPT
            !.best = IF market[quote[q].pool] > @ THEN market[quote[q].pool] ELSE @,
            !.pool = @ + 1] \in QuoteRecord
    BY <1>1, <2>1, <2>2 DEF QuoteRecord
  <2>4. QED
    BY <1>5, <2>3, NewRecordType DEF AskPool
<1>6. CASE PriceFromPools(q)
  <2>1. quote[q].best \in Nat
    BY <1>1 DEF QuoteRecord
  <2>2. ASSUME quote[q].best > 0
        PROVE  WithFees(AtLeastOne((QuoteIn * Scale) \div quote[q].best)) \in Nat
    <3>1. QuoteIn \in Nat /\ quote[q].best \in Nat \ {0}
      BY <2>1, <2>2, PricingAssumption
    <3>2. QED
      BY <3>1, PriceNat, AtLeastOneNat, WithFeesNat
  <2>3. ASSUME NEW price \in Nat
        PROVE  [quote[q] EXCEPT !.at = AfterPrice(q), !.price = price] \in QuoteRecord
    BY <1>1, <1>3 DEF QuoteRecord
  <2>4. [quote[q] EXCEPT !.at = "fallback"] \in QuoteRecord
    BY <1>1 DEF QuoteRecord, QuoteStages
  <2>5. (IF quote[q].best > 0
         THEN [quote[q] EXCEPT !.at = AfterPrice(q),
                   !.price = WithFees(AtLeastOne((QuoteIn * Scale) \div quote[q].best))]
         ELSE [quote[q] EXCEPT !.at = "fallback"]) \in QuoteRecord
    BY <2>2, <2>3, <2>4
  <2>6. QED
    BY <1>6, <2>5, NewRecordType DEF PriceFromPools
<1>7. CASE Fallback(q)
  <2>1. gasPrice \in Nat \ {0}
    BY <1>7, PricingAssumption DEF Fallback
  <2>2. WithFees(AtLeastOne((FallbackPerUnit * Scale) \div gasPrice)) \in Nat
    BY <2>1, PriceNat, AtLeastOneNat, WithFeesNat, PricingAssumption
  <2>3. ASSUME NEW price \in Nat
        PROVE  [quote[q] EXCEPT !.at = AfterPrice(q), !.price = price] \in QuoteRecord
    BY <1>1, <1>3 DEF QuoteRecord
  <2>4. QED
    BY <1>7, <2>2, <2>3, NewRecordType DEF Fallback
<1>8. CASE FetchGasPrice(q)
  <2>1. [quote[q] EXCEPT !.at = "sign", !.answer = Answer(q)] \in QuoteRecord
    BY <1>1, AnswerType DEF QuoteRecord, QuoteStages
  <2>2. QED
    BY <1>8, <2>1, NewRecordType DEF FetchGasPrice
<1>9. CASE Sign(q)
  <2>1. [quote[q] EXCEPT !.at = "answered"] \in QuoteRecord
    BY <1>1 DEF QuoteRecord, QuoteStages
  <2>2. QED
    BY <1>9, <2>1, NewRecordType DEF Sign
<1>10. CASE QuoteFails(q)
  <2>1. [quote[q] EXCEPT !.at = "failed", !.left = 0] \in QuoteRecord
    BY <1>1, <1>2 DEF QuoteRecord, QuoteStages
  <2>2. QED
    BY <1>10, <2>1, NewRecordType DEF QuoteFails
<1>11. QED
  BY <1>4, <1>5, <1>6, <1>7, <1>8, <1>9, <1>10 DEF QuoteStep

-----------------------------------------------------------------------------
(* The two facts about a request that its steps keep *)

Reading == {"pools", "fallback", "gas", "sign", "answered"}

\* The validity began to run before the oldest read.
Fresh(r) == r.at \in Reading /\ r.left > 0 => r.age + r.left <= Validity + 1

\* The USDC for so many gas units at the operation's own fee.
UsdcAtFee(r, units) == (units * r.ask.maxFee * r.price) \div Scale

ProfileUnits(r) == IF r.ask.initCode THEN DeployUnits ELSE NormalUnits

\* From the reading of the gas price on, the answer is the one of its price.
Estimated(r) ==
    r.at \in {"sign", "answered"} /\ ~r.ask.stub /\ r.ask.maxFee > 0 =>
        LET base == UsdcAtFee(r, ProfileUnits(r))
        IN  r.answer = [normal |-> UsdcAtFee(r, NormalUnits),
                        deploy |-> UsdcAtFee(r, DeployUnits),
                        total |-> base + (base * r.ask.refBps) \div 10000]

QuotesInv == \A q \in Quotes : Fresh(quote[q]) /\ Estimated(quote[q])

LEMMA NewRecordKeeps ==
    ASSUME NEW q \in Quotes, NEW from, NEW new, QuoteTypeOK, QuotesInv,
           Step(q, from, new), Fresh(new), Estimated(new)
    PROVE  QuotesInv'
<1>1. \A p \in Quotes : quote'[p] = IF p = q THEN new ELSE quote[p]
  BY DEF Step, QuoteTypeOK
<1>2. ASSUME NEW p \in Quotes PROVE (Fresh(quote[p]) /\ Estimated(quote[p]))'
  <2>1. CASE p = q
    <3>1. quote'[p] = new
      BY <1>1, <2>1
    <3>2. QED
      BY <3>1 DEF Fresh, Estimated, UsdcAtFee, ProfileUnits
  <2>2. CASE p # q
    <3>1. quote'[p] = quote[p]
      BY <1>1, <2>2
    <3>2. QED
      BY <3>1 DEF QuotesInv, Fresh, Estimated, UsdcAtFee, ProfileUnits
  <2>3. QED
    BY <2>1, <2>2
<1>3. QED
  BY <1>2 DEF QuotesInv

LEMMA BeginQuoteKeeps ==
    ASSUME NEW q \in Quotes, NEW ask \in Asks, QuoteTypeOK, QuotesInv, BeginQuote(q, ask)
    PROVE  QuotesInv'
<1> DEFINE new == [quote[q] EXCEPT
           !.at = "counters", !.left = Validity + 1,
           !.ask = IF ask.stub THEN [ask EXCEPT !.refBps = 0] ELSE ask]
<1>1. new.at = "counters"
  BY DEF QuoteTypeOK, QuoteRecord
<1>2. Fresh(new) /\ Estimated(new)
  BY <1>1 DEF Fresh, Estimated, Reading
<1>3. Step(q, "idle", new)
  BY DEF BeginQuote
<1> HIDE DEF new
<1>4. QED
  BY <1>2, <1>3, NewRecordKeeps

LEMMA QuoteStepKeeps ==
    ASSUME NEW q \in Quotes, QuoteTypeOK, QuotesInv, QuoteStep(q)
    PROVE  QuotesInv'
<1>1. quote[q] \in QuoteRecord /\ Fresh(quote[q]) /\ Estimated(quote[q])
  BY DEF QuoteTypeOK, QuotesInv
<1>2. quote[q].left \in 0..(Validity + 1) /\ Validity \in Nat
  BY <1>1, PricingAssumption DEF QuoteRecord
<1>3. AfterPrice(q) = "gas" \/ (AfterPrice(q) = "sign" /\ quote[q].ask.stub)
  BY DEF AfterPrice
<1>4. CASE ReadCounters(q)
  <2> DEFINE new == IF Priced(counters)
                    THEN [quote[q] EXCEPT !.at = AfterPrice(q), !.age = 0,
                                          !.price = WithFees(Average(counters))]
                    ELSE [quote[q] EXCEPT !.at = "pools", !.age = 0]
  <2>1. new.age = 0 /\ new.left = quote[q].left /\ new.ask = quote[q].ask
    BY <1>1 DEF QuoteRecord
  <2>2. new.at = "pools" \/ new.at = AfterPrice(q)
    BY <1>1 DEF QuoteRecord
  <2>3. Step(q, "counters", new)
    BY <1>4 DEF ReadCounters
  <2> HIDE DEF new
  <2>4. Fresh(new) /\ Estimated(new)
    BY <1>2, <1>3, <2>1, <2>2 DEF Fresh, Estimated
  <2>5. QED
    BY <2>3, <2>4, NewRecordKeeps
<1>5. ASSUME NEW from \in {"pools", "fallback"}, NEW new, Step(q, from, new),
             new.age = quote[q].age, new.left = quote[q].left, new.ask = quote[q].ask,
             new.at \in {"pools", "fallback", AfterPrice(q)}
      PROVE  QuotesInv'
  <2>1. quote[q].at \in Reading
    BY <1>5 DEF Step, Reading
  <2>2. Fresh(new) /\ Estimated(new)
    BY <1>1, <1>3, <1>5, <2>1 DEF Fresh, Estimated
  <2>3. QED
    BY <1>5, <2>2, NewRecordKeeps
<1>6. CASE AskPool(q)
  <2> DEFINE new == [quote[q] EXCEPT
            !.best = IF market[quote[q].pool] > @ THEN market[quote[q].pool] ELSE @,
            !.pool = @ + 1]
  <2>1. /\ new.age = quote[q].age /\ new.left = quote[q].left /\ new.ask = quote[q].ask
        /\ new.at = quote[q].at
    BY <1>1 DEF QuoteRecord
  <2>2. Step(q, "pools", new) /\ quote[q].at = "pools"
    BY <1>6 DEF AskPool, Step
  <2> HIDE DEF new
  <2>3. QED
    BY <1>5, <2>1, <2>2
<1>7. CASE PriceFromPools(q)
  <2> DEFINE new ==
            IF quote[q].best > 0
            THEN [quote[q] EXCEPT !.at = AfterPrice(q),
                      !.price = WithFees(AtLeastOne((QuoteIn * Scale) \div quote[q].best))]
            ELSE [quote[q] EXCEPT !.at = "fallback"]
  <2>1. /\ new.age = quote[q].age /\ new.left = quote[q].left /\ new.ask = quote[q].ask
        /\ new.at \in {"fallback", AfterPrice(q)}
    BY <1>1 DEF QuoteRecord
  <2>2. Step(q, "pools", new)
    BY <1>7 DEF PriceFromPools
  <2> HIDE DEF new
  <2>3. QED
    BY <1>5, <2>1, <2>2
<1>8. CASE Fallback(q)
  <2> DEFINE new == [quote[q] EXCEPT !.at = AfterPrice(q),
           !.price = WithFees(AtLeastOne((FallbackPerUnit * Scale) \div gasPrice))]
  <2>1. /\ new.age = quote[q].age /\ new.left = quote[q].left /\ new.ask = quote[q].ask
        /\ new.at = AfterPrice(q)
    BY <1>1 DEF QuoteRecord
  <2>2. Step(q, "fallback", new)
    BY <1>8 DEF Fallback
  <2> HIDE DEF new
  <2>3. QED
    BY <1>5, <2>1, <2>2
<1>9. CASE FetchGasPrice(q)
  <2> DEFINE new == [quote[q] EXCEPT !.at = "sign", !.answer = Answer(q)]
  <2>1. /\ new.age = quote[q].age /\ new.left = quote[q].left /\ new.ask = quote[q].ask
        /\ new.at = "sign" /\ new.price = quote[q].price /\ new.answer = Answer(q)
    BY <1>1 DEF QuoteRecord
  <2>2. Step(q, "gas", new) /\ quote[q].at = "gas"
    BY <1>9 DEF FetchGasPrice, Step
  <2> HIDE DEF new
  <2>3. Fresh(new)
    BY <1>1, <2>1, <2>2 DEF Fresh, Reading
  <2>4. Estimated(new)
    <3> SUFFICES ASSUME new.ask.maxFee > 0
                 PROVE  LET base == UsdcAtFee(new, ProfileUnits(new))
                        IN  new.answer = [normal |-> UsdcAtFee(new, NormalUnits),
                                          deploy |-> UsdcAtFee(new, DeployUnits),
                                          total |-> base + (base * new.ask.refBps) \div 10000]
      BY DEF Estimated
    <3>1. \A units : (MaxCost(quote[q].ask, units) * quote[q].price) \div Scale
                     = UsdcAtFee(new, units)
      BY <2>1 DEF MaxCost, UsdcAtFee
    <3>2. QED
      BY <2>1, <3>1 DEF Answer, ProfileUnits
  <2>5. QED
    BY <2>2, <2>3, <2>4, NewRecordKeeps
<1>10. CASE Sign(q)
  <2> DEFINE new == [quote[q] EXCEPT !.at = "answered"]
  <2>1. /\ new.age = quote[q].age /\ new.left = quote[q].left /\ new.ask = quote[q].ask
        /\ new.at = "answered" /\ new.price = quote[q].price /\ new.answer = quote[q].answer
    BY <1>1 DEF QuoteRecord
  <2>2. Step(q, "sign", new) /\ quote[q].at = "sign"
    BY <1>10 DEF Sign, Step
  <2> HIDE DEF new
  <2>3. Fresh(new)
    BY <1>1, <2>1, <2>2 DEF Fresh, Reading
  <2>4. Estimated(new)
    BY <1>1, <2>1, <2>2 DEF Estimated, UsdcAtFee, ProfileUnits
  <2>5. QED
    BY <2>2, <2>3, <2>4, NewRecordKeeps
<1>11. CASE QuoteFails(q)
  <2> DEFINE new == [quote[q] EXCEPT !.at = "failed", !.left = 0]
  <2>1. new.at = "failed"
    BY <1>1 DEF QuoteRecord
  <2>2. PICK at : Step(q, at, new)
    BY <1>11 DEF QuoteFails
  <2> HIDE DEF new
  <2>3. Fresh(new) /\ Estimated(new)
    BY <2>1 DEF Fresh, Estimated, Reading
  <2>4. QED
    BY <2>2, <2>3, NewRecordKeeps
<1>12. QED
  BY <1>4, <1>6, <1>7, <1>8, <1>9, <1>10, <1>11 DEF QuoteStep

LEMMA AgeType == ASSUME QuoteTypeOK, QuotesAge, UNCHANGED <<counters, recorded, market, gasPrice>>
                 PROVE  QuoteTypeOK'
<1>1. ASSUME NEW n \in 0..(Validity + 1)
      PROVE  /\ (IF n > 0 THEN n - 1 ELSE 0) \in 0..(Validity + 1)
             /\ (IF n <= Validity THEN n + 1 ELSE n) \in 0..(Validity + 1)
  BY PricingAssumption
<1>2. ASSUME NEW q \in Quotes
      PROVE  [quote[q] EXCEPT !.left = IF @ > 0 THEN @ - 1 ELSE 0,
                              !.age = IF @ <= Validity THEN @ + 1 ELSE @] \in QuoteRecord
  <2>1. quote[q] \in QuoteRecord
    BY DEF QuoteTypeOK
  <2>2. QED
    BY <1>1, <2>1 DEF QuoteRecord
<1>3. quote' \in [Quotes -> QuoteRecord]
  BY <1>2 DEF QuotesAge
<1>4. QED
  BY <1>3 DEF QuoteTypeOK

LEMMA AgeKeeps == ASSUME QuoteTypeOK, QuotesInv, QuotesAge PROVE QuotesInv'
<1>1. ASSUME NEW q \in Quotes PROVE (Fresh(quote[q]) /\ Estimated(quote[q]))'
  <2> DEFINE r == quote[q]
             new == [r EXCEPT !.left = IF @ > 0 THEN @ - 1 ELSE 0,
                              !.age = IF @ <= Validity THEN @ + 1 ELSE @]
  <2>1. quote'[q] = new
    BY DEF QuotesAge
  <2>2. r \in QuoteRecord /\ Fresh(r) /\ Estimated(r)
    BY DEF QuoteTypeOK, QuotesInv
  <2>3. /\ new.at = r.at /\ new.ask = r.ask /\ new.price = r.price /\ new.answer = r.answer
        /\ new.left = (IF r.left > 0 THEN r.left - 1 ELSE 0)
        /\ new.age = (IF r.age <= Validity THEN r.age + 1 ELSE r.age)
    BY <2>2 DEF QuoteRecord
  <2>4. r.left \in 0..(Validity + 1) /\ r.age \in 0..(Validity + 1) /\ Validity \in Nat
    BY <2>2, PricingAssumption DEF QuoteRecord
  <2> HIDE DEF new, r
  <2>5. Fresh(new)
    BY <2>2, <2>3, <2>4 DEF Fresh
  <2>6. Estimated(new)
    BY <2>2, <2>3 DEF Estimated, UsdcAtFee, ProfileUnits
  <2>7. QED
    BY <2>1, <2>5, <2>6 DEF Fresh, Estimated, UsdcAtFee, ProfileUnits
<1>2. QED
  BY <1>1 DEF QuotesInv

-----------------------------------------------------------------------------
(* What follows for the signed terms *)

LEMMA InvImpliesFresh == QuoteTypeOK /\ QuotesInv => PriceIsFresh
<1> SUFFICES ASSUME QuoteTypeOK, QuotesInv, NEW q \in Quotes, Valid(q)
             PROVE  quote[q].age <= Validity
  BY DEF PriceIsFresh
<1>1. quote[q].age + quote[q].left <= Validity + 1 /\ quote[q].left > 0
  BY DEF QuotesInv, Fresh, Valid, Reading
<1>2. quote[q].age \in 0..(Validity + 1) /\ quote[q].left \in 0..(Validity + 1)
  BY DEF QuoteTypeOK, QuoteRecord
<1>3. Validity \in Nat
  BY PricingAssumption
<1>4. QED
  BY <1>1, <1>2, <1>3

\* Rounding down twice, at the estimate and at the charge, keeps the charge below
\* the estimate.
LEMMA EstimateCovers ==
    ASSUME NEW op, NEW cap \in Nat, NEW cost \in 0..cap,
           op.price \in Nat, op.refBps \in Nat, BaseCharge(op, cost) # op.minFee
    PROVE  Due(op, cost) <= (cap * op.price) \div Scale
                            + (((cap * op.price) \div Scale) * op.refBps) \div 10000
<1>1. cost \in Nat /\ cost <= cap
  OBVIOUS
<1>2. cost * op.price \in Nat /\ cap * op.price \in Nat /\ cost * op.price <= cap * op.price
  BY <1>1, TimesNat, TimesMonotone
<1>3. PICK a \in Nat, b \in Nat :
           a = (cost * op.price) \div Scale /\ b = (cap * op.price) \div Scale
  BY <1>2, ScaleAssumption, QuotientNat
<1>4. a <= b
  BY <1>2, <1>3, ScaleAssumption, DivMonotone
<1>5. a * op.refBps \in Nat /\ b * op.refBps \in Nat /\ a * op.refBps <= b * op.refBps
  BY <1>4, TimesNat, TimesMonotone
<1>6. (a * op.refBps) \div 10000 <= (b * op.refBps) \div 10000
  BY <1>5, DivMonotone
<1>7. (a * op.refBps) \div 10000 \in Nat /\ (b * op.refBps) \div 10000 \in Nat
  BY <1>5, QuotientNat
<1>8. BaseCharge(op, cost) = a
  BY <1>3 DEF BaseCharge
<1>9. ReferralCharge(op, cost) \in {0, (a * op.refBps) \div 10000}
  BY <1>8 DEF ReferralCharge
<1>10. Due(op, cost) = a + ReferralCharge(op, cost)
  BY <1>8 DEF Due
<1>11. Due(op, cost) <= b + (b * op.refBps) \div 10000
  BY <1>4, <1>6, <1>7, <1>9, <1>10
<1>12. QED
  BY <1>3, <1>11

LEMMA InvImpliesWithin == QuoteTypeOK /\ QuotesInv => ChargeWithinEstimate
<1> SUFFICES ASSUME QuoteTypeOK, QuotesInv, NEW q \in Quotes,
                    Valid(q), ~quote[q].ask.stub, quote[q].ask.maxFee > 0
             PROVE  LET op == Signed(q)
                        answer == quote[q].answer
                        cap == IF op.initCode THEN op.deploy ELSE op.normal
                    IN  /\ Reserve(op) <= IF op.initCode THEN answer.deploy ELSE answer.normal
                        /\ \A cost \in 0..(cap * op.maxFee) :
                               Due(op, cost) <= answer.total \/ BaseCharge(op, cost) = op.minFee
  BY DEF ChargeWithinEstimate
<1> DEFINE op == Signed(q)
           r == quote[q]
           units == ProfileUnits(r)
<1>1. r \in QuoteRecord /\ r.at = "answered" /\ Estimated(r)
  BY DEF QuoteTypeOK, QuotesInv, Valid
<1>2. /\ op.initCode = r.ask.initCode /\ op.maxFee = r.ask.maxFee /\ op.price = r.price
      /\ op.minFee = MinFee /\ op.normal = NormalUnits /\ op.deploy = DeployUnits
      /\ op.refBps = r.ask.refBps
  BY DEF Signed
<1>3. /\ r.ask.initCode \in BOOLEAN /\ r.ask.maxFee \in Nat /\ r.price \in Nat
      /\ r.ask.refBps \in Nat /\ units \in Nat
  BY <1>1, PricingAssumption DEF QuoteRecord, Ask, ProfileUnits
<1>4. (IF op.initCode THEN op.deploy ELSE op.normal) = units
  BY <1>2 DEF ProfileUnits
<1>5. r.answer = [normal |-> UsdcAtFee(r, NormalUnits),
                  deploy |-> UsdcAtFee(r, DeployUnits),
                  total |-> UsdcAtFee(r, units) + (UsdcAtFee(r, units) * r.ask.refBps) \div 10000]
  BY <1>1 DEF Estimated
<1> DEFINE cap == units * r.ask.maxFee
           atCap == (cap * r.price) \div Scale
<1>6. cap \in Nat
  BY <1>3, TimesNat
<1>7. UsdcAtFee(r, units) = atCap
  BY DEF UsdcAtFee
<1>8. Reserve(op) = atCap
  BY <1>2, <1>4 DEF Reserve
<1>9. (IF op.initCode THEN r.answer.deploy ELSE r.answer.normal) = atCap
  BY <1>2, <1>5, <1>7 DEF ProfileUnits
<1>10. r.answer.total = atCap + (atCap * r.ask.refBps) \div 10000
  BY <1>5, <1>7
<1>11. atCap \in Nat
  BY <1>3, <1>6, TimesNat, QuotientNat, ScaleAssumption
<1>12. ASSUME NEW cost \in 0..cap, BaseCharge(op, cost) # op.minFee
       PROVE  Due(op, cost) <= r.answer.total
  <2>1. op.price \in Nat /\ op.refBps \in Nat
    BY <1>2, <1>3
  <2>2. r.answer.total = (cap * op.price) \div Scale
                         + (((cap * op.price) \div Scale) * op.refBps) \div 10000
    BY <1>2, <1>10
  <2> HIDE DEF cap, op, r
  <2>3. QED
    BY <1>6, <1>12, <2>1, <2>2, EstimateCovers
<1>13. Reserve(op) <= IF op.initCode THEN r.answer.deploy ELSE r.answer.normal
  BY <1>8, <1>9, <1>11
<1>14. QED
  BY <1>2, <1>4, <1>12, <1>13

-----------------------------------------------------------------------------
(* The search for a pool *)

\* What has time left is younger than the time to live by that much.
Young(entry) == entry.left > 0 => entry.left + entry.age <= CacheTTL

\* A call that asks has heard nothing from the tiers it passed, or has a tier.
Asked(r) ==
    /\ r.at = "cached" => r.tier \in 1..Pools /\ r.age = 0 /\ r.next = 1 /\ r.best = 0
    /\ r.at = "asking" => /\ Young(r)
                          /\ r.best = 0 => 1..(r.next - 1) \subseteq r.silent
                          /\ r.best > 0 => r.tier \in 1..Pools
    /\ r.at = "none" => r.silent = 1..Pools

PoolFeeInv ==
    /\ PoolFeeTypeOK
    /\ cache.left > 0 => cache.tier \in 1..Pools
    /\ Young(cache)
    /\ \A s \in Resolutions : Asked(resolution[s])

LEMMA PoolFeeInvHolds == PoolFeeInv => PoolChosenWell
BY CacheTTLAssumption DEF PoolFeeInv, PoolFeeTypeOK, Young, Asked, PoolChosenWell

LEMMA NoResolutionType == NoResolution \in ResolutionRecord /\ Asked(NoResolution)
BY CacheTTLAssumption, PricingAssumption DEF NoResolution, ResolutionRecord, Asked

LEMMA NoEntryType ==
    /\ NoEntry \in [tier : 0..Pools, left : 0..CacheTTL, age : 0..(CacheTTL + 1)]
    /\ ~(NoEntry.left > 0) /\ Young(NoEntry)
BY CacheTTLAssumption, PricingAssumption DEF NoEntry, Young

LEMMA PoolFeeStarts ==
    ASSUME cache = NoEntry, resolution = [s \in Resolutions |-> NoResolution]
    PROVE  PoolFeeInv
BY NoEntryType, NoResolutionType DEF PoolFeeInv, PoolFeeTypeOK

LEMMA PoolFeeRestarts ==
    ASSUME cache' = NoEntry, resolution' = [s \in Resolutions |-> NoResolution]
    PROVE  PoolFeeInv'
BY NoEntryType, NoResolutionType DEF PoolFeeInv, PoolFeeTypeOK, Young, Asked

LEMMA PoolFeeUnchanged == PoolFeeInv /\ UNCHANGED poolFeeVars => PoolFeeInv'
BY DEF PoolFeeInv, PoolFeeTypeOK, Young, Asked, poolFeeVars

\* One call goes on, and keeps the cache or replaces its entry.
LEMMA ResolvesKeeps ==
    ASSUME PoolFeeInv, NEW s \in Resolutions, NEW new \in ResolutionRecord, Asked(new),
           Resolves(s, new),
           NEW entry \in [tier : 0..Pools, left : 0..CacheTTL, age : 0..(CacheTTL + 1)],
           entry.left > 0 => entry.tier \in 1..Pools, Young(entry), cache' = entry
    PROVE  PoolFeeInv'
<1>1. resolution' \in [Resolutions -> ResolutionRecord]
  BY DEF Resolves, PoolFeeInv, PoolFeeTypeOK
<1>2. \A q \in Resolutions : resolution'[q] = IF q = s THEN new ELSE resolution[q]
  BY DEF Resolves, PoolFeeInv, PoolFeeTypeOK
<1>3. \A q \in Resolutions : Asked(resolution[q])'
  BY <1>2 DEF PoolFeeInv, Asked, Young
<1>4. QED
  BY <1>1, <1>3 DEF PoolFeeInv, PoolFeeTypeOK, Young

LEMMA SameEntry ==
    ASSUME PoolFeeInv
    PROVE  /\ cache \in [tier : 0..Pools, left : 0..CacheTTL, age : 0..(CacheTTL + 1)]
           /\ cache.left > 0 => cache.tier \in 1..Pools
           /\ Young(cache)
BY DEF PoolFeeInv, PoolFeeTypeOK

LEMMA BeginResolutionKeeps ==
    ASSUME PoolFeeInv, NEW s \in Resolutions, BeginResolution(s)
    PROVE  PoolFeeInv'
<1> DEFINE hit == [NoResolution EXCEPT !.at = "cached", !.tier = cache.tier, !.left = CacheTTL]
           miss == [NoResolution EXCEPT !.at = "asking", !.left = CacheTTL]
<1>1. CASE cache.left > 0
  <2>1. cache.tier \in 1..Pools /\ 1..Pools \subseteq 0..Pools /\ CacheTTL \in 0..CacheTTL
    BY <1>1, SameEntry, CacheTTLAssumption, PricingAssumption
  <2>2. hit \in ResolutionRecord
    BY <2>1, NoResolutionType DEF ResolutionRecord
  <2>3. Asked(hit)
    BY <2>1 DEF NoResolution, Asked
  <2>4. Resolves(s, hit) /\ cache' = cache
    BY <1>1 DEF BeginResolution
  <2> HIDE DEF hit
  <2>5. QED
    BY <2>2, <2>3, <2>4, SameEntry, ResolvesKeeps
<1>2. CASE ~(cache.left > 0)
  <2>1. miss \in ResolutionRecord
    <3>1. CacheTTL \in 0..CacheTTL
      BY CacheTTLAssumption
    <3>2. QED
      BY <3>1, NoResolutionType DEF ResolutionRecord
  <2>2. Asked(miss)
    BY CacheTTLAssumption, PricingAssumption DEF NoResolution, Asked, Young
  <2>3. Resolves(s, miss) /\ cache' = cache
    BY <1>2 DEF BeginResolution
  <2> HIDE DEF miss
  <2>4. QED
    BY <2>1, <2>2, <2>3, SameEntry, ResolvesKeeps
<1>3. QED
  BY <1>1, <1>2

LEMMA AskCachedKeeps ==
    ASSUME PoolFeeInv, NEW s \in Resolutions, AskCached(s)
    PROVE  PoolFeeInv'
<1> DEFINE r == resolution[s]
           found == [r EXCEPT !.at = "found"]
           asking == [r EXCEPT !.at = "asking", !.silent = {r.tier}, !.tier = 0]
<1>1. /\ r \in ResolutionRecord /\ r.at = "cached" /\ r.tier \in 1..Pools
      /\ r.age = 0 /\ r.next = 1 /\ r.best = 0
  BY DEF AskCached, PoolFeeInv, PoolFeeTypeOK, Asked
<1>2. CASE Resolves(s, found) /\ cache' = cache
  <2>1. found \in ResolutionRecord /\ Asked(found)
    BY <1>1 DEF ResolutionRecord, Asked
  <2> HIDE DEF found
  <2>2. QED
    BY <1>2, <2>1, SameEntry, ResolvesKeeps
<1>3. CASE Resolves(s, asking) /\ cache' = NoEntry
  <2>1. 0 \in 0..Pools /\ {r.tier} \subseteq 1..Pools
    BY <1>1, PricingAssumption
  <2>2. asking \in ResolutionRecord
    BY <1>1, <2>1 DEF ResolutionRecord
  <2>3. Asked(asking)
    BY <1>1, CacheTTLAssumption DEF ResolutionRecord, Asked, Young
  <2> HIDE DEF asking
  <2>4. QED
    BY <1>3, <2>2, <2>3, NoEntryType, ResolvesKeeps
<1>4. QED
  BY <1>2, <1>3 DEF AskCached

LEMMA AskTierKeeps ==
    ASSUME PoolFeeInv, market \in [1..Pools -> Outs], NEW s \in Resolutions, AskTier(s)
    PROVE  PoolFeeInv'
<1> DEFINE r == resolution[s]
           better(out) == out > r.best
           told(out) == [r EXCEPT !.next = @ + 1,
                            !.tier = IF better(out) THEN r.next ELSE @,
                            !.best = IF better(out) THEN out ELSE @,
                            !.silent = IF out = 0 THEN @ \cup {r.next} ELSE @]
<1>1. /\ r \in ResolutionRecord /\ Asked(r)
      /\ r.at = "asking" /\ r.next \in 1..Pools
  <2>1. r \in ResolutionRecord /\ Asked(r)
    BY DEF PoolFeeInv, PoolFeeTypeOK
  <2>2. r.at = "asking" /\ r.next <= Pools
    BY Zenon DEF AskTier
  <2>3. r.next \in 1..Pools
    BY <2>1, <2>2, PricingAssumption DEF ResolutionRecord
  <2>4. QED
    BY <2>1, <2>2, <2>3
<1>2. PICK out \in TierAnswers(r.next) : Resolves(s, told(out))
  BY Zenon DEF AskTier
<1>3. out \in Nat
  BY <1>1, <1>2, PricingAssumption DEF TierAnswers
<1>4. told(out) \in ResolutionRecord
  <2>1. r.next + 1 \in 1..(Pools + 1) /\ r.next \in 0..Pools /\ {r.next} \subseteq 1..Pools
    BY SMTT(20), <1>1, PricingAssumption
  <2>2. QED
    BY <1>1, <1>3, <2>1 DEF ResolutionRecord
<1>5. Asked(told(out))
  <2>1. Young(told(out))
    BY <1>1 DEF Asked, Young, ResolutionRecord
  <2>2. told(out).best > 0 => told(out).tier \in 1..Pools
    BY <1>1, <1>3 DEF Asked, ResolutionRecord
  <2>3. ASSUME told(out).best = 0 PROVE 1..(told(out).next - 1) \subseteq told(out).silent
    <3>1. r.best = 0 /\ out = 0
      BY <1>1, <1>3, <2>3 DEF ResolutionRecord
    <3>2. 1..(r.next - 1) \subseteq r.silent
      BY <1>1, <3>1 DEF Asked
    <3>3. told(out).silent = r.silent \cup {r.next} /\ told(out).next = r.next + 1
      BY <1>1, <3>1 DEF ResolutionRecord
    <3>4. 1..((r.next + 1) - 1) \subseteq (1..(r.next - 1)) \cup {r.next}
      BY SMTT(20), <1>1, PricingAssumption
    <3> HIDE DEF told
    <3>5. QED
      BY <3>2, <3>3, <3>4
  <2>4. told(out).at = "asking"
    BY <1>1 DEF ResolutionRecord
  <2> HIDE DEF told
  <2>5. QED
    BY <2>1, <2>2, <2>3, <2>4 DEF Asked
<1> HIDE DEF told
<1>6. QED
  BY <1>2, <1>4, <1>5, SameEntry, ResolvesKeeps DEF AskTier

LEMMA RememberKeeps ==
    ASSUME PoolFeeInv, NEW s \in Resolutions, Remember(s)
    PROVE  PoolFeeInv'
<1> DEFINE r == resolution[s]
           none == [r EXCEPT !.at = "none"]
           found == [r EXCEPT !.at = "found"]
           entry == [tier |-> r.tier, left |-> r.left, age |-> r.age]
<1>1. /\ r \in ResolutionRecord /\ Asked(r)
      /\ r.at = "asking" /\ r.next > Pools
  BY DEF Remember, PoolFeeInv, PoolFeeTypeOK
<1>2. found \in ResolutionRecord /\ Asked(found)
  BY <1>1 DEF ResolutionRecord, Asked
<1>3. CASE r.best = 0
  <2>1. none \in ResolutionRecord
    BY <1>1 DEF ResolutionRecord
  <2>2. r.silent = 1..Pools
    <3>1. r.next = Pools + 1
      BY <1>1, PricingAssumption DEF ResolutionRecord
    <3>2. 1..(r.next - 1) \subseteq r.silent /\ r.silent \subseteq 1..Pools
      BY <1>1, <1>3 DEF Asked, ResolutionRecord
    <3>3. r.next - 1 = Pools
      BY <3>1, PricingAssumption
    <3>4. QED
      BY <3>2, <3>3
  <2>3. Asked(none)
    BY <1>1, <2>2 DEF Asked, ResolutionRecord
  <2>4. Resolves(s, none) /\ cache' = cache
    BY <1>3 DEF Remember
  <2> HIDE DEF none
  <2>5. QED
    BY <2>1, <2>3, <2>4, SameEntry, ResolvesKeeps
<1>4. CASE r.best # 0
  <2>1. /\ entry \in [tier : 0..Pools, left : 0..CacheTTL, age : 0..(CacheTTL + 1)]
        /\ entry.tier \in 1..Pools /\ Young(entry)
    BY <1>1, <1>4 DEF ResolutionRecord, Asked, Young
  <2>2. Resolves(s, found) /\ cache' = IF r.left = 0 THEN NoEntry ELSE entry
    BY <1>4 DEF Remember
  <2> HIDE DEF found, entry
  <2>3. CASE r.left = 0
    BY <1>2, <2>2, <2>3, NoEntryType, ResolvesKeeps
  <2>4. CASE r.left # 0
    BY <1>2, <2>1, <2>2, <2>4, ResolvesKeeps
  <2>5. QED
    BY <2>3, <2>4
<1>5. QED
  BY <1>3, <1>4

LEMMA ResolutionStepKeeps ==
    ASSUME PoolFeeInv, market \in [1..Pools -> Outs], NEW s \in Resolutions, ResolutionStep(s)
    PROVE  PoolFeeInv'
BY BeginResolutionKeeps, AskCachedKeeps, AskTierKeeps, RememberKeeps DEF ResolutionStep

LEMMA PoolFeesAgeKeeps == ASSUME PoolFeeInv, PoolFeesAge PROVE PoolFeeInv'
<1> DEFINE older(r) == [r EXCEPT !.left = IF @ > 0 THEN @ - 1 ELSE 0,
                           !.age = IF r.at = "asking" /\ @ <= CacheTTL THEN @ + 1 ELSE @]
<1>1. /\ cache' \in [tier : 0..Pools, left : 0..CacheTTL, age : 0..(CacheTTL + 1)]
      /\ cache'.left > 0 => cache'.tier \in 1..Pools
      /\ Young(cache')
  <2>1. CASE cache.left <= 1
    BY <2>1, NoEntryType DEF PoolFeesAge, Young
  <2>2. CASE cache.left > 1
    <3>1. cache' = [cache EXCEPT !.left = @ - 1, !.age = IF @ <= CacheTTL THEN @ + 1 ELSE @]
      <4>1. cache' = IF cache.left <= 1 THEN NoEntry
                     ELSE [cache EXCEPT !.left = @ - 1,
                                        !.age = IF @ <= CacheTTL THEN @ + 1 ELSE @]
        BY Zenon DEF PoolFeesAge
      <4>2. cache.left \in Nat
        BY SameEntry
      <4>3. QED
        BY <2>2, <4>1, <4>2
    <3>2. /\ cache.left - 1 \in 0..CacheTTL
          /\ (IF cache.age <= CacheTTL THEN cache.age + 1 ELSE cache.age) \in 0..(CacheTTL + 1)
      BY <2>2, SameEntry, CacheTTLAssumption
    <3>3. cache' \in [tier : 0..Pools, left : 0..CacheTTL, age : 0..(CacheTTL + 1)]
      BY <3>1, <3>2, SameEntry
    <3>4. cache'.tier = cache.tier /\ cache'.left = cache.left - 1 /\ cache'.age <= cache.age + 1
      BY <3>1, SameEntry, CacheTTLAssumption
    <3>5. QED
      BY <2>2, <3>3, <3>4, SameEntry, CacheTTLAssumption DEF Young
  <2>3. QED
    BY <2>1, <2>2 DEF PoolFeeInv, PoolFeeTypeOK
<1>2. ASSUME NEW s \in Resolutions
      PROVE  resolution'[s] \in ResolutionRecord /\ Asked(resolution'[s])
  <2> DEFINE r == resolution[s]
  <2>1. r \in ResolutionRecord /\ Asked(r)
    BY DEF PoolFeeInv, PoolFeeTypeOK
  <2>2. resolution'[s] = IF r.at \in {"cached", "asking"} THEN older(r) ELSE r
    BY DEF PoolFeesAge
  <2>3. older(r) \in ResolutionRecord
    <3>1. (IF r.left > 0 THEN r.left - 1 ELSE 0) \in 0..CacheTTL
      BY <2>1, CacheTTLAssumption DEF ResolutionRecord
    <3>2. (IF r.at = "asking" /\ r.age <= CacheTTL THEN r.age + 1 ELSE r.age) \in 0..(CacheTTL + 1)
      BY <2>1, CacheTTLAssumption DEF ResolutionRecord
    <3>3. QED
      BY <2>1, <3>1, <3>2 DEF ResolutionRecord
  <2>4. Asked(older(r))
    BY <2>1, CacheTTLAssumption DEF ResolutionRecord, Asked, Young
  <2>5. QED
    BY <2>1, <2>2, <2>3, <2>4
<1>3. resolution' \in [Resolutions -> ResolutionRecord]
  BY <1>2 DEF PoolFeesAge
<1>4. QED
  BY <1>1, <1>2, <1>3 DEF PoolFeeInv, PoolFeeTypeOK, Young, Asked

-----------------------------------------------------------------------------
(* Sign-in: what every step of a login, of the operator and of time keeps *)

\* A record the operator put there is never absent, and becomes the default one
\* only if some login still holds what it read before.
RecordInv ==
    replaced => /\ admin # "none"
                /\ \/ raced # {}
                   \/ admin # "default" /\ \A l \in Logins : login[l].at # "create"

LEMMA RecordInvHolds == RecordInv => RecordLostOnlyToFirstLogin
BY DEF RecordInv, RecordLostOnlyToFirstLogin

LEMMA AuthInitType ==
    ASSUME NEW open \in SUBSET Logins, AuthInit(open)
    PROVE  AuthTypeOK /\ RecordInv
<1>1. SessionTTL \in 0..SessionTTL /\ 0 \in 0..SessionTTL
  BY SessionAssumption
<1>2. QED
  BY <1>1 DEF AuthInit, AuthTypeOK, RecordInv, NoSession, Records, LoginStages, Passwords

LEMMA MovesType ==
    ASSUME AuthTypeOK, NEW l \in Logins, NEW from, NEW to \in LoginStages, Moves(l, from, to)
    PROVE  /\ login' \in [Logins -> [at : LoginStages, password : Passwords]]
           /\ login'[l].at = to
           /\ \A k \in Logins \ {l} : login'[k] = login[k]
BY DEF AuthTypeOK, Moves

LEMMA LoginStepKeeps ==
    ASSUME AuthTypeOK, RecordInv, NEW l \in Logins, LoginStep(l)
    PROVE  AuthTypeOK' /\ RecordInv'
<1>1. ASSUME NEW from, NEW to \in LoginStages \ {"create"}, Moves(l, from, to),
             UNCHANGED <<admin, session, replaced, raced>>
      PROVE  AuthTypeOK' /\ RecordInv'
  <2>1. /\ login' \in [Logins -> [at : LoginStages, password : Passwords]]
        /\ login'[l].at = to /\ \A k \in Logins \ {l} : login'[k] = login[k]
    BY <1>1, MovesType
  <2>2. QED
    BY <1>1, <2>1 DEF AuthTypeOK, RecordInv
<1>2. CASE LookForRecord(l)
  <2>1. CASE admin = "none"
    <3>1. ~replaced /\ ~replaced'
      BY <1>2, <2>1 DEF LookForRecord, RecordInv
    <3>2. Moves(l, "exists", "create")
      BY <1>2, <2>1 DEF LookForRecord
    <3>3. login' \in [Logins -> [at : LoginStages, password : Passwords]]
      BY <3>2, MovesType DEF LoginStages
    <3>4. QED
      BY <1>2, <3>1, <3>3 DEF LookForRecord, AuthTypeOK, RecordInv
  <2>2. CASE admin # "none"
    BY <1>1, <1>2, <2>2 DEF LookForRecord, LoginStages
  <2>3. QED
    BY <2>1, <2>2
<1>3. CASE CreateAdmin(l)
  <2>1. /\ login' \in [Logins -> [at : LoginStages, password : Passwords]]
        /\ login[l].at = "create"
    BY <1>3, MovesType DEF CreateAdmin, LoginStages, Moves
  <2>2. replaced => raced # {}
    BY <2>1 DEF RecordInv
  <2>3. QED
    BY <1>3, <2>1, <2>2 DEF CreateAdmin, AuthTypeOK, RecordInv, Records
<1>4. CASE Verify(l)
  BY <1>1, <1>4 DEF Verify, LoginStages
<1>5. CASE OpenSession(l)
  <2>1. PICK role \in {"viewer", "admin"} :
             /\ Moves(l, role, "in")
             /\ session' = [session EXCEPT ![l] = [left |-> SessionTTL, role |-> role]]
    BY <1>5 DEF OpenSession
  <2>2. /\ login' \in [Logins -> [at : LoginStages, password : Passwords]]
        /\ login'[l].at = "in" /\ \A k \in Logins \ {l} : login'[k] = login[k]
    BY <2>1, MovesType DEF LoginStages
  <2>3. session' \in [Logins -> [left : 0..SessionTTL, role : {"viewer", "admin"}]]
    BY <2>1, SessionAssumption DEF AuthTypeOK
  <2>4. QED
    BY <1>5, <2>2, <2>3 DEF OpenSession, AuthTypeOK, RecordInv
<1>6. CASE LoginFails(l)
  BY <1>1, <1>6 DEF LoginFails, LoginStages
<1>7. CASE Logout(l)
  <2>1. /\ login' \in [Logins -> [at : LoginStages, password : Passwords]]
        /\ login'[l].at = "out" /\ \A k \in Logins \ {l} : login'[k] = login[k]
    BY <1>7, MovesType DEF LoginStages, Logout
  <2>2. session' \in [Logins -> [left : 0..SessionTTL, role : {"viewer", "admin"}]]
    BY <1>7, SessionAssumption DEF AuthTypeOK, Logout, NoSession
  <2>3. QED
    BY <1>7, <2>1, <2>2 DEF Logout, AuthTypeOK, RecordInv
<1>8. QED
  BY <1>2, <1>3, <1>4, <1>5, <1>6, <1>7 DEF LoginStep

LEMMA LoginKeeps ==
    ASSUME AuthTypeOK, RecordInv, NEW l \in Logins, NEW password \in Passwords, Login(l, password)
    PROVE  AuthTypeOK' /\ RecordInv'
BY DEF Login, AuthTypeOK, RecordInv, LoginStages

LEMMA ReplaceRecordKeeps ==
    ASSUME AuthTypeOK, RecordInv, ReplaceRecord
    PROVE  AuthTypeOK' /\ RecordInv'
BY DEF ReplaceRecord, AuthTypeOK, RecordInv, Records

LEMMA SessionsAgeKeeps ==
    ASSUME AuthTypeOK, RecordInv, SessionsAge, UNCHANGED <<admin, login, replaced, raced>>
    PROVE  AuthTypeOK' /\ RecordInv'
<1>1. ASSUME NEW l \in Logins
      PROVE  (IF session[l].left > 1 THEN [session[l] EXCEPT !.left = @ - 1] ELSE NoSession)
             \in [left : 0..SessionTTL, role : {"viewer", "admin"}]
  <2>1. session[l] \in [left : 0..SessionTTL, role : {"viewer", "admin"}]
    BY DEF AuthTypeOK
  <2>2. NoSession \in [left : 0..SessionTTL, role : {"viewer", "admin"}]
    BY SessionAssumption DEF NoSession
  <2>3. ASSUME session[l].left > 1 PROVE session[l].left - 1 \in 0..SessionTTL
    BY <2>1, <2>3, SessionAssumption
  <2>4. QED
    BY <2>1, <2>2, <2>3
<1>2. session' \in [Logins -> [left : 0..SessionTTL, role : {"viewer", "admin"}]]
  BY <1>1 DEF SessionsAge
<1>3. QED
  BY <1>2 DEF AuthTypeOK, RecordInv

LEMMA AuthUnchangedKeeps ==
    ASSUME AuthTypeOK, RecordInv, UNCHANGED authVars
    PROVE  AuthTypeOK' /\ RecordInv'
BY DEF AuthTypeOK, RecordInv, authVars

-----------------------------------------------------------------------------
(* The panel's variables *)

Answers == {"none", "refused", "busy", "rejected", "completed", "skipped", "failed", "lost"}

ClickRecord == [at : {"idle", "sent", "running", "over"}, patience : 0..Patience, answer : Answers]

PanelType ==
    /\ click \in [Clicks -> ClickRecord]
    /\ refillInFlight \in BOOLEAN /\ joined \in BOOLEAN
    /\ auto \in {"idle", "preflight", "running"}

\* Until an automatic refill joins another one, the flag stands for the one
\* refill that runs.
FlagInv ==
    ~joined => /\ \A b, c \in Running : b = c
               /\ Running # {} => refillInFlight
               /\ auto = "running" => refillInFlight /\ Running = {}

PanelInv == PanelType /\ FlagInv

LEMMA PanelUnchanged == PanelInv /\ UNCHANGED panelVars => PanelInv'
BY DEF PanelInv, PanelType, FlagInv, Running, panelVars

\* A click becomes another record of its type.
LEMMA ClickType ==
    ASSUME PanelType, NEW c \in Clicks, NEW new \in ClickRecord, click' = [click EXCEPT ![c] = new]
    PROVE  /\ click' \in [Clicks -> ClickRecord]
           /\ Running' = IF new.at = "running" THEN Running \cup {c} ELSE Running \ {c}
<1>1. click' \in [Clicks -> ClickRecord]
  BY DEF PanelType
<1>2. \A d \in Clicks : click'[d] = IF d = c THEN new ELSE click[d]
  BY DEF PanelType
<1>3. QED
  BY <1>1, <1>2 DEF Running

LEMMA OverType ==
    ASSUME PanelType, NEW c \in Clicks, NEW answer \in Answers, Over(c, answer)
    PROVE  click' \in [Clicks -> ClickRecord] /\ Running' = Running \ {c}
<1> DEFINE new == [at |-> "over", answer |-> Told(c, answer), patience |-> 0]
<1>1. Told(c, answer) \in Answers
  BY DEF Told, PanelType, ClickRecord
<1>2. new \in ClickRecord
  BY <1>1, PatienceAssumption DEF ClickRecord
<1>3. new.at # "running" /\ click' = [click EXCEPT ![c] = new]
  BY DEF Over
<1> HIDE DEF new
<1>4. QED
  BY <1>2, <1>3, ClickType

LEMMA ClickKeeps == ASSUME PanelInv, NEW c \in Clicks, Click(c) PROVE PanelInv'
<1>1. PICK new \in {[at |-> "sent", answer |-> "none", patience |-> Patience],
                    [at |-> "over", answer |-> "refused", patience |-> 0]} :
               click' = [click EXCEPT ![c] = new]
  BY DEF Click
<1>2. new \in ClickRecord /\ new.at # "running"
  BY <1>1, PatienceAssumption DEF ClickRecord, Answers
<1>3. c \notin Running
  BY DEF Click, Running
<1>4. click' \in [Clicks -> ClickRecord] /\ Running' = Running \ {c}
  <2>1. PanelType /\ new \in ClickRecord /\ ~(new.at = "running")
    BY <1>2 DEF PanelInv
  <2>2. QED
    BY <1>1, <2>1, ClickType
<1>5. QED
  BY <1>3, <1>4 DEF Click, PanelInv, PanelType, FlagInv

LEMMA ReceiveKeeps == ASSUME PanelInv, NEW c \in Clicks, Receive(c) PROVE PanelInv'
<1>1. c \notin Running
  BY DEF Receive, Running
<1>2. CASE ~refillInFlight /\ click' = [click EXCEPT ![c].at = "running"] /\ refillInFlight'
  <2> DEFINE new == [click[c] EXCEPT !.at = "running"]
  <2>1. new \in ClickRecord /\ new.at = "running" /\ click' = [click EXCEPT ![c] = new]
    BY <1>2 DEF PanelInv, PanelType, ClickRecord
  <2> HIDE DEF new
  <2>2. click' \in [Clicks -> ClickRecord] /\ Running' = Running \cup {c}
    BY <2>1, ClickType DEF PanelInv
  <2>3. ~joined => Running = {} /\ auto # "running"
    BY <1>2 DEF PanelInv, FlagInv
  <2>4. QED
    BY <1>2, <2>2, <2>3 DEF Receive, PanelInv, PanelType, FlagInv
<1>3. CASE (Over(c, "busy") \/ Over(c, "rejected")) /\ UNCHANGED refillInFlight
  <2>1. click' \in [Clicks -> ClickRecord] /\ Running' = Running
    BY <1>1, <1>3, OverType DEF Answers, PanelInv
  <2>2. QED
    BY <1>3, <2>1 DEF Receive, PanelInv, PanelType, FlagInv
<1>4. QED
  BY <1>2, <1>3 DEF Receive, PanelInv, PanelType

LEMMA FinishKeeps == ASSUME PanelInv, NEW c \in Clicks, Finish(c) PROVE PanelInv'
<1>1. PICK answer \in Answers : Over(c, answer)
  BY DEF Finish, Answers
<1>2. click' \in [Clicks -> ClickRecord] /\ Running' = Running \ {c}
  BY <1>1, OverType DEF PanelInv
<1>3. /\ refillInFlight' = FALSE /\ auto' = auto /\ c \in Running
      /\ joined' = (joined /\ (Running # {c} \/ auto = "running"))
  BY DEF Finish, Release, Running
<1>4. ASSUME ~joined' PROVE Running' = {} /\ auto # "running"
  <2>1. CASE joined
    BY <1>2, <1>3, <1>4, <2>1
  <2>2. CASE ~joined
    BY <1>2, <1>3, <2>2 DEF PanelInv, FlagInv
  <2>3. QED
    BY <2>1, <2>2
<1>5. joined' \in BOOLEAN
  BY <1>3
<1>6. QED
  BY <1>2, <1>3, <1>4, <1>5 DEF PanelInv, PanelType, FlagInv

LEMMA GiveUpKeeps == ASSUME PanelInv, NEW c \in Clicks, GiveUp(c) PROVE PanelInv'
<1> DEFINE new == [click[c] EXCEPT !.answer = "lost"]
<1>1. /\ new \in ClickRecord /\ new.at = click[c].at
      /\ click' = [click EXCEPT ![c] = new]
  BY DEF GiveUp, PanelInv, PanelType, ClickRecord, Answers
<1> HIDE DEF new
<1>2. click' \in [Clicks -> ClickRecord] /\ Running' = Running
  BY <1>1, ClickType DEF PanelInv, Running
<1>3. QED
  BY <1>2 DEF GiveUp, PanelInv, PanelType, FlagInv

LEMMA NeverArrivesKeeps == ASSUME PanelInv, NEW c \in Clicks, NeverArrives(c) PROVE PanelInv'
<1>1. c \notin Running
  BY DEF NeverArrives, Running
<1>2. click' \in [Clicks -> ClickRecord] /\ Running' = Running
  BY <1>1, OverType DEF NeverArrives, Answers, PanelInv
<1>3. QED
  BY <1>2 DEF NeverArrives, PanelInv, PanelType, FlagInv

LEMMA SponsorKeeps == ASSUME PanelInv, NEW q \in Quotes, Sponsor(q) PROVE PanelInv'
<1>1. auto' = auto \/ auto' \in {"idle", "preflight"}
  BY DEF Sponsor
<1>2. QED
  BY <1>1 DEF Sponsor, PanelInv, PanelType, FlagInv, Running

LEMMA BeginAutomaticKeeps == ASSUME PanelInv, BeginAutomatic PROVE PanelInv'
<1>1. Running' = Running /\ click' = click
  BY DEF BeginAutomatic, Running
<1>2. CASE auto' = "running" /\ refillInFlight' = TRUE /\ joined' = (joined \/ Running # {})
  BY <1>1, <1>2 DEF PanelInv, PanelType, FlagInv
<1>3. CASE auto' = "idle" /\ UNCHANGED <<refillInFlight, joined>>
  BY <1>1, <1>3 DEF PanelInv, PanelType, FlagInv
<1>4. QED
  BY <1>2, <1>3 DEF BeginAutomatic

LEMMA EndAutomaticKeeps == ASSUME PanelInv, EndAutomatic PROVE PanelInv'
<1>1. Running' = Running /\ click' = click /\ auto = "running" /\ auto' = "idle"
  BY DEF EndAutomatic, Running
<1>2. refillInFlight' = FALSE /\ joined' = (joined /\ Running # {})
  BY DEF EndAutomatic, Release
<1>3. ~joined' => Running = {}
  BY <1>1, <1>2 DEF PanelInv, FlagInv
<1>4. QED
  BY <1>1, <1>2, <1>3 DEF PanelInv, PanelType, FlagInv

LEMMA RestartKeeps == ASSUME PanelInv, Restart PROVE PanelInv'
<1>1. ASSUME NEW c \in Clicks
      PROVE  click'[c] \in ClickRecord /\ click'[c].at # "running"
  <2>1. click'[c] = IF click[c].at \in {"sent", "running"}
                    THEN [at |-> "over", answer |-> Told(c, "lost"), patience |-> 0]
                    ELSE click[c]
    BY DEF Restart
  <2>2. click[c] \in ClickRecord
    BY DEF PanelInv, PanelType
  <2>3. Told(c, "lost") \in Answers
    BY <2>2 DEF Told, ClickRecord, Answers
  <2>4. QED
    BY <2>1, <2>2, <2>3, PatienceAssumption DEF ClickRecord
<1>2. click' \in [Clicks -> ClickRecord] /\ Running' = {}
  <2>1. click' \in [Clicks -> ClickRecord]
    BY <1>1 DEF Restart
  <2>2. QED
    BY <1>1, <2>1 DEF Running
<1>3. QED
  BY <1>2 DEF Restart, PanelInv, PanelType, FlagInv

LEMMA TimeKeepsPanel == ASSUME PanelInv, Time PROVE PanelInv'
<1>1. ASSUME NEW c \in Clicks
      PROVE  click'[c] \in ClickRecord /\ click'[c].at = click[c].at
  <2>1. click'[c] = [click[c] EXCEPT !.patience = IF @ > 0 THEN @ - 1 ELSE 0]
    BY DEF Time
  <2>2. click[c] \in ClickRecord
    BY DEF PanelInv, PanelType
  <2>3. (IF click[c].patience > 0 THEN click[c].patience - 1 ELSE 0) \in 0..Patience
    BY <2>2, PatienceAssumption DEF ClickRecord
  <2>4. QED
    BY <2>1, <2>2, <2>3 DEF ClickRecord
<1>2. click' \in [Clicks -> ClickRecord] /\ Running' = Running
  <2>1. click' \in [Clicks -> ClickRecord]
    BY <1>1 DEF Time
  <2>2. QED
    BY <1>1, <2>1 DEF Running
<1>3. QED
  BY <1>2 DEF Time, PanelInv, PanelType, FlagInv

-----------------------------------------------------------------------------
(* The four parts together *)

Inv ==
    /\ QuoteTypeOK /\ QuotesInv
    /\ PoolFeeInv
    /\ AuthTypeOK /\ RecordInv
    /\ PanelInv
    /\ scene \in Scenes

LEMMA InvImpliesType == Inv => TypeOK
BY DEF Inv, TypeOK, PoolFeeInv, PanelInv, PanelType, ClickRecord, Answers

LEMMA SceneTypes ==
    ASSUME scene \in Scenes
    PROVE  /\ scene.logins \subseteq Logins /\ scene.clicks \subseteq Clicks
           /\ scene.quotes \subseteq Quotes /\ scene.resolutions \subseteq Resolutions
           /\ scene.open \subseteq Logins
           /\ scene.asks \subseteq Asks /\ scene.worlds \subseteq Worlds
BY ScenesAssumption

LEMMA QuotesUnchanged ==
    ASSUME QuoteTypeOK, QuotesInv, UNCHANGED quote, counters' \in [usdc : Nat, wei : Nat],
           recorded' \in 0..MaxPurchases, market' \in [1..Pools -> Outs], gasPrice' \in GasPrices
    PROVE  QuoteTypeOK' /\ QuotesInv'
BY DEF QuoteTypeOK, QuotesInv, Fresh, Estimated, UsdcAtFee, ProfileUnits

LEMMA SameQuotes == QuoteTypeOK /\ QuotesInv /\ UNCHANGED quoteVars => QuoteTypeOK' /\ QuotesInv'
BY QuotesUnchanged DEF quoteVars, QuoteTypeOK

LEMMA RecordKeeps ==
    ASSUME QuoteTypeOK, QuotesInv, NEW bought \in Counters, Record(bought),
           UNCHANGED <<market, gasPrice, quote>>
    PROVE  QuoteTypeOK' /\ QuotesInv'
<1>1. bought \in [usdc : Nat, wei : Nat] /\ counters \in [usdc : Nat, wei : Nat]
  BY PricingAssumption DEF QuoteTypeOK
<1>2. counters' \in [usdc : Nat, wei : Nat]
  BY <1>1 DEF Record
<1>3. recorded' \in 0..MaxPurchases
  BY PricingAssumption DEF Record, QuoteTypeOK
<1>4. QED
  BY <1>2, <1>3, QuotesUnchanged DEF QuoteTypeOK

LEMMA RestartQuotes ==
    ASSUME QuoteTypeOK, QuotesInv, Restart
    PROVE  QuoteTypeOK' /\ QuotesInv'
<1> DEFINE new(q) == [quote[q] EXCEPT !.at = "failed", !.left = 0]
<1>1. ASSUME NEW q \in Quotes
      PROVE  quote'[q] \in QuoteRecord /\ (Fresh(quote[q]) /\ Estimated(quote[q]))'
  <2>1. quote[q] \in QuoteRecord /\ Fresh(quote[q]) /\ Estimated(quote[q])
    BY DEF QuoteTypeOK, QuotesInv
  <2>2. CASE quote'[q] = quote[q]
    BY <2>1, <2>2 DEF Fresh, Estimated, UsdcAtFee, ProfileUnits
  <2>3. CASE quote'[q] = new(q)
    <3>1. 0 \in 0..(Validity + 1)
      BY PricingAssumption
    <3>2. new(q) \in QuoteRecord /\ new(q).at = "failed"
      BY <2>1, <3>1 DEF QuoteRecord, QuoteStages
    <3>3. QED
      BY <2>3, <3>2 DEF Fresh, Estimated, Reading
  <2>4. QED
    BY <2>2, <2>3 DEF Restart
<1>2. quote' \in [Quotes -> QuoteRecord]
  BY <1>1 DEF Restart
<1>3. QED
  BY <1>1, <1>2 DEF Restart, QuoteTypeOK, QuotesInv

LEMMA InvInit == Init => Inv
<1> SUFFICES ASSUME Init PROVE Inv
  OBVIOUS
<1>1. scene \in Scenes
  BY DEF Init
<1>2. AuthTypeOK /\ RecordInv
  BY <1>1, SceneTypes, AuthInitType DEF Init
<1>3. QuoteTypeOK
  <2>1. PICK world \in Worlds :
             counters = world.counters /\ market = world.market /\ gasPrice = world.gasPrice
    BY <1>1, SceneTypes DEF Init, QuoteInit
  <2>2. /\ counters \in [usdc : Nat, wei : Nat]
        /\ market \in [1..Pools -> Outs] /\ gasPrice \in GasPrices
    BY <2>1, PricingAssumption DEF Worlds
  <2>3. NoQuote \in QuoteRecord
    <3>1. 0 \in 0..(Validity + 1) /\ 1 \in 1..(Pools + 1)
      BY PricingAssumption
    <3>2. NoAsk \in Ask /\ NoAnswer \in [normal : Nat, deploy : Nat, total : Nat]
      BY DEF NoAsk, NoAnswer, Ask
    <3>3. QED
      BY <3>1, <3>2 DEF NoQuote, QuoteRecord, QuoteStages
  <2>4. recorded \in 0..MaxPurchases
    BY PricingAssumption DEF Init, QuoteInit
  <2>5. QED
    BY <2>2, <2>3, <2>4 DEF Init, QuoteInit, QuoteTypeOK
<1>4. QuotesInv
  <2>1. ASSUME NEW q \in Quotes PROVE quote[q].at = "idle"
    BY DEF Init, QuoteInit, NoQuote
  <2>2. QED
    BY <2>1 DEF QuotesInv, Fresh, Estimated, Reading
<1>5. PanelInv
  <2>1. Running = {}
    BY DEF Init, Running
  <2>2. [at |-> "idle", answer |-> "none", patience |-> 0] \in ClickRecord
    BY PatienceAssumption DEF ClickRecord, Answers
  <2>3. QED
    BY <2>1, <2>2 DEF Init, PanelInv, PanelType, FlagInv
<1>6. PoolFeeInv
  BY PoolFeeStarts DEF Init, PoolFeeInit
<1>7. QED
  BY <1>1, <1>2, <1>3, <1>4, <1>5, <1>6 DEF Inv

LEMMA InvStep == Inv /\ [Next]_vars => Inv'
<1> SUFFICES ASSUME Inv, [Next]_vars PROVE Inv'
  OBVIOUS
<1> USE DEF Inv
<1>1. ASSUME NEW c \in Clicks, Click(c) \/ Receive(c) \/ GiveUp(c) \/ NeverArrives(c)
      PROVE  Inv'
  <2>1. UNCHANGED <<scene, poolFeeVars, quoteVars, authVars>>
    BY <1>1 DEF Click, Receive, GiveUp, NeverArrives
  <2>2. PanelInv'
    BY <1>1, ClickKeeps, ReceiveKeeps, GiveUpKeeps, NeverArrivesKeeps
  <2>3. QED
    BY <2>1, <2>2, SameQuotes, AuthUnchangedKeeps, PoolFeeUnchanged
<1>2. ASSUME NEW c \in Clicks, Finish(c) PROVE Inv'
  <2>1. UNCHANGED <<scene, poolFeeVars, authVars, market, gasPrice, quote>>
    BY <1>2 DEF Finish
  <2>2. QuoteTypeOK' /\ QuotesInv'
    <3>1. CASE \E bought \in Counters : Record(bought)
      BY <2>1, <3>1, RecordKeeps
    <3>2. CASE UNCHANGED <<counters, recorded>>
      BY <2>1, <3>2, SameQuotes DEF quoteVars
    <3>3. QED
      BY <1>2, <3>1, <3>2 DEF Finish
  <2>3. QED
    BY <1>2, <2>1, <2>2, FinishKeeps, AuthUnchangedKeeps, PoolFeeUnchanged
<1>3. ASSUME NEW q \in Quotes, Sponsor(q) PROVE Inv'
  <2>1. PICK ask \in Asks : BeginQuote(q, ask)
    BY <1>3, SceneTypes DEF Sponsor
  <2>2. UNCHANGED <<scene, poolFeeVars, authVars>>
    BY <1>3 DEF Sponsor
  <2>3. QED
    BY <1>3, <2>1, <2>2, BeginQuoteType, BeginQuoteKeeps, SponsorKeeps, AuthUnchangedKeeps, PoolFeeUnchanged
<1>4. CASE BeginAutomatic
  <2>1. UNCHANGED <<scene, poolFeeVars, quoteVars, authVars>>
    BY <1>4 DEF BeginAutomatic
  <2>2. QED
    BY <1>4, <2>1, BeginAutomaticKeeps, SameQuotes, AuthUnchangedKeeps, PoolFeeUnchanged
<1>5. CASE EndAutomatic
  <2>1. UNCHANGED <<scene, poolFeeVars, authVars, market, gasPrice, quote>>
    BY <1>5 DEF EndAutomatic
  <2>2. QuoteTypeOK' /\ QuotesInv'
    <3>1. CASE \E bought \in Counters : Record(bought)
      BY <2>1, <3>1, RecordKeeps
    <3>2. CASE UNCHANGED <<counters, recorded>>
      BY <2>1, <3>2, SameQuotes DEF quoteVars
    <3>3. QED
      BY <1>5, <3>1, <3>2 DEF EndAutomatic
  <2>3. QED
    BY <1>5, <2>1, <2>2, EndAutomaticKeeps, AuthUnchangedKeeps, PoolFeeUnchanged
<1>6. CASE Restart
  <2>1. UNCHANGED <<scene, authVars, counters, recorded, market, gasPrice>>
    BY <1>6 DEF Restart
  <2>2. QuoteTypeOK' /\ QuotesInv'
    BY <1>6, RestartQuotes
  <2>3. PoolFeeInv'
    BY <1>6, PoolFeeRestarts DEF Restart
  <2>4. QED
    BY <1>6, <2>1, <2>2, <2>3, RestartKeeps, AuthUnchangedKeeps
<1>7. CASE Quoting
  <2>1. PICK q \in Quotes : QuoteStep(q)
    BY <1>7, SceneTypes DEF Quoting
  <2>2. UNCHANGED <<scene, poolFeeVars, authVars, panelVars>>
    BY <1>7 DEF Quoting
  <2>3. QED
    BY <2>1, <2>2, QuoteStepType, QuoteStepKeeps, PanelUnchanged, AuthUnchangedKeeps, PoolFeeUnchanged
<1>8. CASE World
  <2>1. UNCHANGED <<scene, poolFeeVars, authVars, panelVars, quote, counters, recorded>>
    BY <1>8 DEF World, MarketMoves, GasPriceMoves
  <2>2. market' \in [1..Pools -> Outs] /\ gasPrice' \in GasPrices
    BY <1>8 DEF World, MarketMoves, GasPriceMoves, QuoteTypeOK
  <2>3. QuoteTypeOK' /\ QuotesInv'
    BY <2>1, <2>2, QuotesUnchanged DEF QuoteTypeOK
  <2>4. QED
    BY <2>1, <2>3, PanelUnchanged, AuthUnchangedKeeps, PoolFeeUnchanged
<1>9. CASE SignIn
  <2>1. UNCHANGED <<scene, poolFeeVars, quoteVars, panelVars>>
    BY <1>9 DEF SignIn
  <2>2. AuthTypeOK' /\ RecordInv'
    BY <1>9, SceneTypes, LoginStepKeeps, LoginKeeps, ReplaceRecordKeeps DEF SignIn
  <2>3. QED
    BY <2>1, <2>2, PanelUnchanged, SameQuotes, PoolFeeUnchanged
<1>10. CASE Time
  <2>1. /\ UNCHANGED <<scene, counters, recorded, market, gasPrice, admin, login, replaced, raced>>
        /\ QuotesAge /\ PoolFeesAge /\ SessionsAge
    BY <1>10 DEF Time
  <2>2. QED
    BY <1>10, <2>1, AgeType, AgeKeeps, PoolFeesAgeKeeps, SessionsAgeKeeps, TimeKeepsPanel
<1>11. CASE Resolving
  <2>1. UNCHANGED <<scene, quoteVars, authVars, panelVars>>
    BY <1>11 DEF Resolving
  <2>2. PoolFeeInv'
    BY <1>11, SceneTypes, ResolutionStepKeeps DEF Resolving, QuoteTypeOK
  <2>3. QED
    BY <2>1, <2>2, PanelUnchanged, SameQuotes, AuthUnchangedKeeps
<1>12. CASE UNCHANGED vars
  BY <1>12, PanelUnchanged, SameQuotes, AuthUnchangedKeeps, PoolFeeUnchanged DEF vars
<1>13. QED
  BY <1>1, <1>2, <1>3, <1>4, <1>5, <1>6, <1>7, <1>8, <1>9, <1>10, <1>11, <1>12 DEF Next

LEMMA InvHolds == Spec => []Inv
<1>1. QED
  BY InvInit, InvStep, PTL DEF Spec

-----------------------------------------------------------------------------
(* The theorems *)

\* Every variable keeps its type: the average, the pools' and the fallback price
\* never divide by zero, whatever the counters, the pools and the node say.
THEOREM ControlPlaneTypeCorrect == Spec => []TypeOK
BY InvHolds, InvImpliesType, PTL

\* A login brings the default password back after the operator replaced the
\* record only if it had found no record before (lib/auth.ts,
\* ensureDefaultAdminUser: EXISTS, then SET).
THEOREM RecordStays == Spec => []RecordLostOnlyToFirstLogin
<1>1. Inv => RecordLostOnlyToFirstLogin
  BY RecordInvHolds DEF Inv
<1>2. QED
  BY <1>1, InvHolds, PTL

\* Among any number of requests from dashboards, however often they give up and
\* retry, two refills run at a time only after an automatic one joined another
\* (runOperationalRefillExclusive, scheduleOperationalRefillIfNeeded).
THEOREM RetriesAreExclusive == Spec => []OverlapNeedsAutomatic
<1>1. Inv => OverlapNeedsAutomatic
  BY DEF Inv, PanelInv, FlagInv, OverlapNeedsAutomatic
<1>2. QED
  BY <1>1, InvHolds, PTL

\* No answer of buildSponsorPayload or buildStubPayload is valid for longer than
\* the validity after the oldest read that its price is made of, however long
\* the reads take.
THEOREM PricesAreFresh == Spec => []PriceIsFresh
<1>1. Inv => PriceIsFresh
  BY InvImpliesFresh DEF Inv
<1>2. QED
  BY <1>1, InvHolds, PTL

\* A tier comes from the cache only while its comparison is younger than the time
\* to live, and no pool is found only if all failed (resolvePoolFeeForRefill),
\* for any number of overlapping refills and estimates and of tiers.
THEOREM PoolsAreChosenWell == Spec => []PoolChosenWell
<1>1. Inv => PoolChosenWell
  BY PoolFeeInvHolds DEF Inv
<1>2. QED
  BY <1>1, InvHolds, PTL

\* For every price, fee, referral and cost within the gas cap: the reserves and
\* the total that buildSponsorPayload announces are what the contract will ask
\* for and at least what it will charge, rounding included.
THEOREM EstimatesCoverCharges == Spec => []ChargeWithinEstimate
<1>1. Inv => ChargeWithinEstimate
  BY InvImpliesWithin DEF Inv
<1>2. QED
  BY <1>1, InvHolds, PTL

=============================================================================
