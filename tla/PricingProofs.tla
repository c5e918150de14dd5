---------------------------- MODULE PricingProofs ----------------------------
(***************************************************************************)
(* Proofs about the pricing engine, for integers of any width, any price   *)
(* table, any rate of micro-units per credit and any token counts.         *)
(***************************************************************************)
EXTENDS Pricing, TLAPS

(***************************************************************************)
(* The integer division by a positive number.                              *)
(***************************************************************************)
LEMMA Division ==
  ASSUME NEW a \in Nat, NEW b \in Nat \ {0}
  PROVE  (a \div b) \in Nat /\ b * (a \div b) <= a /\ a < b * (a \div b) + b
OBVIOUS

(***************************************************************************)
(* Multiplication by a natural number is monotone, and strictly so by a    *)
(* positive one.                                                           *)
(***************************************************************************)
LEMMA ProductMonotone ==
  ASSUME NEW a \in Int, NEW b \in Int, NEW c \in Nat, a <= b
  PROVE  a * c <= b * c
OBVIOUS

(***************************************************************************)
(* What is comparable after a multiplication was so before.                *)
(***************************************************************************)
LEMMA ProductCancels ==
  ASSUME NEW a \in Int, NEW b \in Int, NEW c \in Nat \ {0}, a * c < b * c + c
  PROVE  a <= b
<1> SUFFICES ASSUME a >= b + 1 PROVE FALSE
  OBVIOUS
<1>1. (b + 1) * c <= a * c
  BY ProductMonotone
<1> QED BY <1>1

(***************************************************************************)
(* A number that the machine can hold is left as it is.                    *)
(***************************************************************************)
LEMMA WrapKeeps ==
  ASSUME NEW x \in Nat, x <= MaxInt
  PROVE  Wrap(x) = x
<1>1. MaxInt \in Nat
  BY PricingAssumption
<1>2. PICK y \in Nat, d \in Nat \ {0} : y = x + MaxInt + 1 /\ d = 2 * (MaxInt + 1) /\ y < d
  BY <1>1
<1>3. y % d = y
  BY <1>2
<1> QED BY <1>1, <1>2, <1>3 DEF Wrap

(***************************************************************************)
(* Rounding up, by adding the divisor less one, is exact as long as the    *)
(* sum fits.                                                               *)
(***************************************************************************)
LEMMA RoundsUp ==
  ASSUME NEW a \in Nat, NEW b \in Nat \ {0}, a + b - 1 <= MaxInt
  PROVE  LET c == IF a <= 0 THEN 0 ELSE Quo(Wrap(a + b - 1), b)
         IN  c \in Nat /\ c * b >= a /\ c * b <= a + b - 1 /\ (a = 0 => c = 0)
<1>1. CASE a = 0
  BY <1>1
<1>2. CASE a > 0
  <2>1. PICK x \in Nat : x = a + b - 1
    BY <1>2
  <2>2. Quo(Wrap(x), b) = x \div b
    BY <2>1, WrapKeeps DEF Quo
  <2>3. PICK c \in Nat : c = x \div b /\ b * c <= x /\ x < b * c + b
    BY Division
  <2>4. c * b = b * c
    OBVIOUS
  <2> QED BY <1>2, <2>1, <2>2, <2>3, <2>4
<1> QED BY <1>1, <1>2

(***************************************************************************)
(* The rounding of the engine's two divisions.                             *)
(***************************************************************************)
LEMMA IntDivCeilExact ==
  ASSUME NEW a \in Nat, NEW b \in Nat \ {0}, a + b - 1 <= MaxInt
  PROVE  /\ intDivCeil(a, b) \in Nat
         /\ intDivCeil(a, b) * b >= a /\ intDivCeil(a, b) * b <= a + b - 1
         /\ a = 0 => intDivCeil(a, b) = 0
BY RoundsUp DEF intDivCeil

(***************************************************************************)
(* The same for the division of micro-units by those of one credit.        *)
(***************************************************************************)
LEMMA CreditsExact ==
  ASSUME NEW mu \in Nat, NEW per \in Nat \ {0}, mu + per - 1 <= MaxInt
  PROVE  /\ creditsFromMicrounits(mu, per) \in Nat
         /\ creditsFromMicrounits(mu, per) * per >= mu
         /\ creditsFromMicrounits(mu, per) * per <= mu + per - 1
         /\ mu = 0 => creditsFromMicrounits(mu, per) = 0
<1>1. ~(per <= 0)
  OBVIOUS
<1> QED BY <1>1, RoundsUp DEF creditsFromMicrounits

(***************************************************************************)
(* The overflow guard of a product is exact.                               *)
(***************************************************************************)
LEMMA FactorGuard ==
  ASSUME NEW n \in Int, NEW price \in Int
  PROVE  ~ BadFactor(n, price) <=> n >= 0 /\ price >= 0 /\ n * price <= MaxInt
<1>0. MaxInt \in Nat
  BY PricingAssumption
<1>1. CASE n < 0 \/ price < 0
  BY <1>1 DEF BadFactor
<1>2. CASE n = 0 /\ price >= 0
  BY <1>0, <1>2 DEF BadFactor
<1>3. CASE n > 0 /\ price >= 0
  <2>1. PICK q \in Nat : q = MaxInt \div n /\ n * q <= MaxInt /\ MaxInt < n * q + n
    BY <1>0, <1>3, Division
  <2>2. ~ BadFactor(n, price) <=> price <= q
    BY <1>3, <2>1 DEF BadFactor
  <2>3. ASSUME price <= q PROVE n * price <= MaxInt
    <3>1. price * n <= q * n
      BY <1>3, <2>3, ProductMonotone
    <3>2. price * n = n * price /\ q * n = n * q
      OBVIOUS
    <3>3. n * price \in Int /\ n * q \in Int
      OBVIOUS
    <3> QED BY <1>0, <2>1, <3>1, <3>2, <3>3
  <2>4. ASSUME n * price <= MaxInt PROVE price <= q
    <3>1. price * n = n * price /\ q * n = n * q
      OBVIOUS
    <3>2. n * price \in Int /\ n * q \in Int
      OBVIOUS
    <3>3. price * n < q * n + n
      BY <1>0, <2>1, <2>4, <3>1, <3>2
    <3> QED BY <1>3, <3>3, ProductCancels
  <2> QED BY <1>3, <2>2, <2>3, <2>4
<1> QED BY <1>1, <1>2, <1>3

(***************************************************************************)
(* When a usage can be priced, and at what.                                *)
(***************************************************************************)
LEMMA CostMeans ==
  ASSUME NEW m \in PriceRows, NEW u \in PriceRows
  PROVE  /\ Numerator(m, u) \in Int
         /\ ~ costOf(m, u).err <=>
               /\ \A k \in {"input", "output", "cached", "reasoning"} :
                     u[k] >= 0 /\ m[k] >= 0 /\ u[k] * m[k] <= MaxInt
               /\ Numerator(m, u) <= MaxInt
         /\ ~ costOf(m, u).err =>
               /\ Numerator(m, u) >= 0
               /\ costOf(m, u).val = intDivCeil(Numerator(m, u), PerMtok)
<1>1. /\ u.input \in Int /\ u.output \in Int /\ u.cached \in Int /\ u.reasoning \in Int
      /\ m.input \in Int /\ m.output \in Int /\ m.cached \in Int /\ m.reasoning \in Int
  BY DEF PriceRows
<1>2. /\ u.input * m.input \in Int /\ u.output * m.output \in Int
      /\ u.cached * m.cached \in Int /\ u.reasoning * m.reasoning \in Int
  BY <1>1
<1>3. Numerator(m, u) \in Int
  BY <1>2 DEF Numerator
<1>4. ~ costOf(m, u).err <=>
         /\ ~ BadFactor(u.input, m.input) /\ ~ BadFactor(u.output, m.output)
         /\ ~ BadFactor(u.cached, m.cached) /\ ~ BadFactor(u.reasoning, m.reasoning)
         /\ ~ (Numerator(m, u) > MaxInt)
  BY DEF costOf, Err, Ok
<1>5. ~ costOf(m, u).err => costOf(m, u).val = intDivCeil(Numerator(m, u), PerMtok)
  BY DEF costOf, Err, Ok
<1>6. ~ costOf(m, u).err <=>
               /\ \A k \in {"input", "output", "cached", "reasoning"} :
                     u[k] >= 0 /\ m[k] >= 0 /\ u[k] * m[k] <= MaxInt
               /\ Numerator(m, u) <= MaxInt
  <2>1. ~ (Numerator(m, u) > MaxInt) <=> Numerator(m, u) <= MaxInt
    BY <1>3, PricingAssumption
  <2> QED BY <1>1, <1>4, <2>1, FactorGuard
<1>7. ASSUME ~ costOf(m, u).err PROVE Numerator(m, u) >= 0
  <2>1. /\ u.input \in Nat /\ u.output \in Nat /\ u.cached \in Nat /\ u.reasoning \in Nat
        /\ m.input \in Nat /\ m.output \in Nat /\ m.cached \in Nat /\ m.reasoning \in Nat
    BY <1>1, <1>6, <1>7
  <2>2. /\ u.input * m.input >= 0 /\ u.output * m.output >= 0
        /\ u.cached * m.cached >= 0 /\ u.reasoning * m.reasoning >= 0
    BY <2>1
  <2> QED BY <1>2, <2>2 DEF Numerator
<1> QED BY <1>3, <1>5, <1>6, <1>7

(***************************************************************************)
(* The guards are exact: a usage is refused only if it has no price.       *)
(***************************************************************************)
LEMMA PricedMeans ==
  ASSUME NEW m \in PriceRows, NEW u \in PriceRows
  PROVE  ~ costOf(m, u).err <=> HasPrice(m, u)
<1>0. MaxInt \in Nat
  BY PricingAssumption
<1>1. ASSUME ~ costOf(m, u).err PROVE HasPrice(m, u)
  BY <1>1, CostMeans DEF HasPrice, Kinds
<1>2. ASSUME HasPrice(m, u) PROVE ~ costOf(m, u).err
  <2>1. /\ u.input \in Nat /\ u.output \in Nat /\ u.cached \in Nat /\ u.reasoning \in Nat
        /\ m.input \in Nat /\ m.output \in Nat /\ m.cached \in Nat /\ m.reasoning \in Nat
    BY <1>2 DEF HasPrice, Kinds, PriceRows
  <2>2. /\ u.input * m.input \in Nat /\ u.output * m.output \in Nat
        /\ u.cached * m.cached \in Nat /\ u.reasoning * m.reasoning \in Nat
    BY <2>1
  <2>3. Numerator(m, u) <= MaxInt
    BY <1>2 DEF HasPrice
  <2>4. /\ u.input * m.input <= MaxInt /\ u.output * m.output <= MaxInt
        /\ u.cached * m.cached <= MaxInt /\ u.reasoning * m.reasoning <= MaxInt
    BY <1>0, <2>2, <2>3 DEF Numerator
  <2>5. \A k \in {"input", "output", "cached", "reasoning"} :
           u[k] >= 0 /\ m[k] >= 0 /\ u[k] * m[k] <= MaxInt
    BY <2>1, <2>4
  <2> QED BY <2>3, <2>5, CostMeans
<1> QED BY <1>1, <1>2

(***************************************************************************)
(* Rounding up twice, to micro-units of PerMtok and to credits of per      *)
(* micro-units.                                                            *)
(***************************************************************************)
LEMMA TwoRoundings ==
  ASSUME NEW n \in Nat, NEW per \in Nat \ {0},
         n + PerMtok - 1 <= MaxInt, n + per - 1 <= MaxInt
  PROVE  LET mu == intDivCeil(n, PerMtok)
             c  == creditsFromMicrounits(mu, per)
         IN  /\ mu \in Nat /\ mu <= n
             /\ mu * PerMtok >= n /\ mu * PerMtok <= n + PerMtok - 1
             /\ c \in Nat /\ c * per >= mu /\ c * per <= mu + per - 1
             /\ c * (PerMtok * per) >= n
             /\ c * (PerMtok * per) < n + PerMtok * per + PerMtok
             /\ n = 0 => c = 0
<1>0. PICK P \in Nat \ {0} : P = PerMtok
  BY PricingAssumption
<1>m. MaxInt \in Nat
  BY PricingAssumption
<1>1. PICK mu : mu = intDivCeil(n, PerMtok)
  OBVIOUS
<1>2. mu \in Nat /\ mu * P >= n /\ mu * P <= n + P - 1 /\ (n = 0 => mu = 0)
  BY <1>0, <1>1, IntDivCeilExact
<1>3. mu <= n
  <2>1. CASE n = 0
    BY <1>2, <2>1
  <2>2. CASE n > 0
    <3>1. n * 1 <= n * P
      BY <1>0
    <3>2. mu * P < n * P + P
      <4>1. mu * P \in Int /\ n * P \in Int
        BY <1>2
      <4> QED BY <1>2, <3>1, <4>1
    <3> QED BY <1>2, <3>2, ProductCancels
  <2> QED BY <2>1, <2>2
<1>4. mu + per - 1 <= MaxInt
  BY <1>2, <1>3, <1>m
<1>5. PICK c : c = creditsFromMicrounits(mu, per)
  OBVIOUS
<1>6. c \in Nat /\ c * per >= mu /\ c * per <= mu + per - 1 /\ (mu = 0 => c = 0)
  BY <1>2, <1>4, <1>5, CreditsExact
<1>7. c * (P * per) = (c * per) * P /\ c * per \in Nat
  BY <1>6
<1>8. mu * P <= (c * per) * P
  BY <1>2, <1>6, <1>7, ProductMonotone
<1>9. (c * per) * P <= (mu + per - 1) * P
  BY <1>2, <1>6, <1>7, ProductMonotone
<1>10. (mu + per - 1) * P = mu * P + P * per - P
  BY <1>2
<1>11. mu * P \in Int /\ (c * per) * P \in Int /\ P * per \in Int
  BY <1>2, <1>7
<1>12. c * (P * per) >= n /\ c * (P * per) < n + P * per + P
  BY <1>2, <1>7, <1>8, <1>9, <1>10, <1>11
<1> QED BY <1>0, <1>1, <1>2, <1>3, <1>5, <1>6, <1>12

(***************************************************************************)
(* Every way to build the engine ends with a positive rate and a table of  *)
(* integers.                                                               *)
(***************************************************************************)
LEMMA PricerBuilt ==
  ASSUME NEW f \in PricingFiles, pricer = newPricer(f)
  PROVE  PricerOK
<1>1. CASE f = NoFile
  BY <1>1, PricingAssumption, PricesAssumption DEF newPricer, PricerOK
<1>2. CASE f # NoFile
  <2>1. f.perCredit \in Int
    BY <1>2, PricesAssumption
  <2>2. pricer.perCredit \in Nat \ {0}
    BY <1>2, <2>1, PricingAssumption DEF newPricer
  <2>3. \A m \in DOMAIN pricer.models : pricer.models[m] \in PriceRows
    BY <1>2, PricesAssumption DEF newPricer
  <2> QED BY <2>2, <2>3 DEF PricerOK
<1> QED BY <1>1, <1>2

(***************************************************************************)
(* The engine never changes, and an estimate and a charge stay those of    *)
(* the call they were made for.                                            *)
(***************************************************************************)
LEMMA PricingInit == Init => PricingInv
<1> SUFFICES ASSUME Init PROVE PricingInv
  OBVIOUS
<1>1. PricerOK
  BY PricerBuilt DEF Init
<1>2. EstimateIsOfCall
  BY DEF Init, EstimateIsOfCall, NoCall
<1>3. ChargeIsOfCall
  BY DEF Init, ChargeIsOfCall, NoUsage
<1> QED BY <1>1, <1>2, <1>3 DEF PricingInv

(***************************************************************************)
(* Every step keeps that.                                                  *)
(***************************************************************************)
LEMMA PricingNext == PricingInv /\ [Next]_vars => PricingInv'
<1> SUFFICES ASSUME PricingInv, [Next]_vars PROVE PricingInv'
  OBVIOUS
<1>0. PricerOK /\ EstimateIsOfCall /\ ChargeIsOfCall
  BY DEF PricingInv
<1>1. pricer' = pricer
  BY DEF Next, Estimate, Charge, NextCall, vars
<1>2. PricerOK'
  BY <1>0, <1>1 DEF PricerOK
<1>3. ASSUME NEW m \in Models, NEW i \in Tokens, NEW o \in Tokens, Estimate(m, i, o)
      PROVE  EstimateIsOfCall' /\ ChargeIsOfCall'
  <2>1. i \in Int /\ o \in Int
    BY PricingAssumption
  <2>2. /\ call = NoCall /\ charge' = charge
        /\ call' = [model |-> m, input |-> i, maxOutput |-> o]
        /\ estimate' = EstimateMax(m, i, o)
    BY <1>3 DEF Estimate
  <2>3. /\ call'.model = m /\ call'.input = i /\ call'.maxOutput = o
    BY <2>2
  <2>4. EstimateMax(m, i, o)' = EstimateMax(m, i, o)
    BY <1>1 DEF EstimateMax
  <2>5. EstimateIsOfCall'
    BY <2>1, <2>2, <2>3, <2>4 DEF EstimateIsOfCall
  <2>6. ChargeIsOfCall'
    BY <1>0, <2>2 DEF ChargeIsOfCall
  <2> QED BY <2>5, <2>6
<1>4. ASSUME NEW u \in Usages, Charge(u)
      PROVE  EstimateIsOfCall' /\ ChargeIsOfCall'
  <2>1. u \in [input : Int, output : Int, cached : Int, reasoning : Int]
    BY PricingAssumption DEF Usages
  <2>2. /\ call # NoCall /\ ~ estimate.err
        /\ charge' = [usage |-> u, credits |-> Credits(call.model, u)]
        /\ UNCHANGED <<pricer, call, estimate>>
    BY <1>4 DEF Charge
  <2>3. charge'.usage = u /\ charge'.credits = Credits(call.model, u)
    BY <2>2
  <2>4. Credits(call.model, u)' = Credits(call.model, u)
    BY <2>2 DEF Credits, cost
  <2>5. EstimateIsOfCall'
    BY <1>0, <2>2 DEF EstimateIsOfCall, EstimateMax
  <2>6. ChargeIsOfCall'
    BY <2>1, <2>2, <2>3, <2>4 DEF ChargeIsOfCall
  <2> QED BY <2>5, <2>6
<1>5. ASSUME NextCall
      PROVE  EstimateIsOfCall' /\ ChargeIsOfCall'
  <2>1. call' = NoCall /\ charge'.usage = NoUsage
    BY <1>5 DEF NextCall
  <2>2. EstimateIsOfCall'
    BY <2>1 DEF EstimateIsOfCall, NoCall
  <2>3. ChargeIsOfCall'
    BY <2>1 DEF ChargeIsOfCall, NoUsage
  <2> QED BY <2>2, <2>3
<1>6. ASSUME UNCHANGED vars
      PROVE  EstimateIsOfCall' /\ ChargeIsOfCall'
  BY <1>0, <1>6 DEF vars, EstimateIsOfCall, ChargeIsOfCall, EstimateMax, Credits, cost
<1> QED BY <1>2, <1>3, <1>4, <1>5, <1>6 DEF Next, PricingInv

(***************************************************************************)
(* The invariant holds always.                                             *)
(***************************************************************************)
THEOREM PricingCorrect == Spec => []PricingInv
BY PricingInit, PricingNext, PTL DEF Spec

(***************************************************************************)
(* What a charge that was priced says of the prices.                       *)
(***************************************************************************)
LEMMA ChargeMeans ==
  ASSUME PricingInv, charge.usage # NoUsage, ~ charge.credits.err
  PROVE  /\ call.model \in DOMAIN pricer.models /\ Prices \in PriceRows
         /\ charge.usage \in PriceRows
         /\ ~ costOf(Prices, charge.usage).err
         /\ Numerator(Prices, charge.usage) \in Nat
         /\ charge.credits.val =
               creditsFromMicrounits(
                   intDivCeil(Numerator(Prices, charge.usage), PerMtok), pricer.perCredit)
<1>1. charge.credits = Credits(call.model, charge.usage) /\ charge.usage \in PriceRows
  BY DEF PricingInv, ChargeIsOfCall, PriceRows
<1>2. ~ cost(call.model, charge.usage).err
  BY <1>1 DEF Credits, Err
<1>3. call.model \in DOMAIN pricer.models
  BY <1>2 DEF cost, Err
<1>4. Prices \in PriceRows
  BY <1>3 DEF Prices, PricingInv, PricerOK
<1>5. cost(call.model, charge.usage) = costOf(Prices, charge.usage)
  BY <1>3 DEF cost, Prices
<1>6. charge.credits.val =
        creditsFromMicrounits(costOf(Prices, charge.usage).val, pricer.perCredit)
  BY <1>1, <1>2, <1>5 DEF Credits, Ok
<1>7. /\ Numerator(Prices, charge.usage) \in Nat
      /\ costOf(Prices, charge.usage).val =
            intDivCeil(Numerator(Prices, charge.usage), PerMtok)
  BY <1>1, <1>2, <1>4, <1>5, CostMeans
<1> QED BY <1>1, <1>2, <1>3, <1>4, <1>5, <1>6, <1>7

(***************************************************************************)
(* A call that was estimated asks for a model of the table.                *)
(***************************************************************************)
LEMMA ChargedIsListed ==
  ASSUME PricingInv, charge.usage # NoUsage
  PROVE  /\ call.model \in DOMAIN pricer.models /\ Prices \in PriceRows
         /\ charge.usage \in PriceRows
         /\ charge.credits.err <=> costOf(Prices, charge.usage).err
<1>1. /\ ~ estimate.err
      /\ estimate = EstimateMax(call.model, call.input, call.maxOutput)
      /\ charge.credits = Credits(call.model, charge.usage)
      /\ charge.usage \in PriceRows
  BY DEF PricingInv, ChargeIsOfCall, EstimateIsOfCall, PriceRows
<1>2. call.model \in DOMAIN pricer.models
  BY <1>1 DEF EstimateMax, Err
<1>3. Prices \in PriceRows
  BY <1>2 DEF Prices, PricingInv, PricerOK
<1>4. cost(call.model, charge.usage) = costOf(Prices, charge.usage)
  BY <1>2 DEF cost, Prices
<1>5. charge.credits.err <=> costOf(Prices, charge.usage).err
  BY <1>1, <1>4 DEF Credits, Err, Ok
<1> QED BY <1>1, <1>2, <1>3, <1>5

(***************************************************************************)
(* A usage is charged exactly when it has a price, and a charge covers     *)
(* what the usage is worth and overshoots by less than a credit and a      *)
(* micro-unit: the guards and the two roundings of cost and Credits.       *)
(***************************************************************************)
THEOREM ChargesAreExact == Spec => []ChargeIsExact
<1>1. PricingInv => ChargeIsExact
  <2> SUFFICES ASSUME PricingInv, charge.usage # NoUsage,
                      NEW n, n = Numerator(Prices, charge.usage)
               PROVE  /\ ~ charge.credits.err <=> HasPrice(Prices, charge.usage)
                      /\ ~ charge.credits.err /\ Roundable(n) =>
                           /\ charge.credits.val * (PerMtok * pricer.perCredit) >= n
                           /\ n > 0 => charge.credits.val * (PerMtok * pricer.perCredit)
                                         < n + PerMtok * pricer.perCredit + PerMtok
                           /\ n = 0 => charge.credits.val = 0
    BY DEF ChargeIsExact
  <2>1. ~ charge.credits.err <=> HasPrice(Prices, charge.usage)
    BY ChargedIsListed, PricedMeans
  <2>2. ASSUME ~ charge.credits.err, Roundable(n)
        PROVE  /\ charge.credits.val * (PerMtok * pricer.perCredit) >= n
               /\ n > 0 => charge.credits.val * (PerMtok * pricer.perCredit)
                             < n + PerMtok * pricer.perCredit + PerMtok
               /\ n = 0 => charge.credits.val = 0
    <3>1. n \in Nat /\ pricer.perCredit \in Nat \ {0}
      BY <2>2, ChargeMeans DEF PricingInv, PricerOK
    <3>2. charge.credits.val = creditsFromMicrounits(intDivCeil(n, PerMtok), pricer.perCredit)
      BY <2>2, ChargeMeans
    <3> QED BY <2>2, <3>1, <3>2, TwoRoundings DEF Roundable
  <2> QED BY <2>1, <2>2
<1> QED BY <1>1, PricingCorrect, PTL

(***************************************************************************)
(* Rounding up is monotone.                                                *)
(***************************************************************************)
LEMMA CeilMonotone ==
  ASSUME NEW a \in Nat, NEW b \in Nat, a <= b, NEW d \in Nat \ {0},
         NEW x \in Nat, x * d <= a + d - 1, NEW y \in Nat, y * d >= b
  PROVE  x <= y
<1>1. x * d \in Int /\ y * d \in Int
  OBVIOUS
<1>2. x * d < y * d + d
  BY <1>1
<1> QED BY <1>2, ProductCancels

(***************************************************************************)
(* The reserve margin adds to a cost, and to at most six times of it.      *)
(***************************************************************************)
LEMMA MarginCovers ==
  ASSUME NEW mu \in Nat, 6 * mu + 4 <= MaxInt
  PROVE  withMargin(mu) \in Nat /\ withMargin(mu) >= mu /\ withMargin(mu) <= 6 * mu
<1>1. PICK x \in Nat : x = mu * 6 /\ x = 6 * mu
  OBVIOUS
<1>2. Wrap(x) = x
  BY <1>1, WrapKeeps, PricingAssumption
<1>3. PICK y : y = intDivCeil(x, 5)
  OBVIOUS
<1>4. y \in Nat /\ y * 5 >= x /\ y * 5 <= x + 4
  BY <1>1, <1>3, IntDivCeilExact
<1>5. mu = 0 => y = 0
  BY <1>1, <1>3 DEF intDivCeil
<1>6. withMargin(mu) = y
  BY <1>1, <1>2, <1>3 DEF withMargin
<1> QED BY <1>1, <1>4, <1>5, <1>6

(***************************************************************************)
(* What an estimate that was made says: the worst case could be priced,    *)
(* and what was reserved for it.                                           *)
(***************************************************************************)
LEMMA EstimateMeans ==
  ASSUME PricingInv, charge.usage # NoUsage,
         NEW w, w = [input |-> call.input, output |-> call.maxOutput,
                     cached |-> 0, reasoning |-> 0]
  PROVE  /\ call.model \in DOMAIN pricer.models /\ Prices \in PriceRows
         /\ w \in PriceRows /\ ~ costOf(Prices, w).err
         /\ LET reserve == creditsFromMicrounits(withMargin(costOf(Prices, w).val),
                                                 pricer.perCredit)
            IN  estimate.val = IF reserve > 1 THEN reserve ELSE 1
<1>1. /\ ~ estimate.err
      /\ estimate = EstimateMax(call.model, call.input, call.maxOutput)
      /\ call.input \in Int /\ call.maxOutput \in Int
  BY DEF PricingInv, ChargeIsOfCall, EstimateIsOfCall
<1>2. call.model \in DOMAIN pricer.models
  BY <1>1 DEF EstimateMax, Err
<1>3. Prices \in PriceRows /\ w \in PriceRows
  BY <1>1, <1>2 DEF Prices, PricingInv, PricerOK, PriceRows
<1>4. pCost(pricer.models[call.model], call.input, call.maxOutput) = costOf(Prices, w)
  BY DEF pCost, Prices
<1>5. PICK mu : mu = costOf(Prices, w)
  OBVIOUS
<1>6. ~ mu.err
  BY <1>1, <1>4, <1>5 DEF EstimateMax, Err
<1>7. PICK r : r = creditsFromMicrounits(withMargin(mu.val), pricer.perCredit)
  OBVIOUS
<1>8. estimate = Ok(IF r > 1 THEN r ELSE 1)
  BY <1>1, <1>4, <1>5, <1>7 DEF EstimateMax, Err
<1> QED BY <1>2, <1>3, <1>5, <1>6, <1>7, <1>8 DEF Ok

(***************************************************************************)
(* Usage within the estimated input and output is priced whenever the      *)
(* worst case is, and is worth no more.                                    *)
(***************************************************************************)
LEMMA WithinIsCheaper ==
  ASSUME NEW m \in PriceRows, NEW w \in PriceRows, NEW u \in PriceRows,
         ~ costOf(m, w).err,
         u.input \in 0 .. w.input, u.output \in 0 .. w.output,
         u.cached = 0, u.reasoning = 0, w.cached = 0, w.reasoning = 0
  PROVE  ~ costOf(m, u).err /\ Numerator(m, u) <= Numerator(m, w)
<1>0. MaxInt \in Nat
  BY PricingAssumption
<1>1. /\ m.input \in Nat /\ m.output \in Nat /\ m.cached \in Nat /\ m.reasoning \in Nat
      /\ w.input \in Nat /\ w.output \in Nat /\ u.input \in Nat /\ u.output \in Nat
      /\ w.input * m.input <= MaxInt /\ w.output * m.output <= MaxInt
      /\ Numerator(m, w) <= MaxInt
  BY CostMeans DEF PriceRows
<1>2. u.input * m.input <= w.input * m.input
  BY <1>1, ProductMonotone
<1>3. u.output * m.output <= w.output * m.output
  BY <1>1, ProductMonotone
<1>4. /\ u.input * m.input \in Int /\ w.input * m.input \in Int
      /\ u.output * m.output \in Int /\ w.output * m.output \in Int
      /\ 0 * m.cached = 0 /\ 0 * m.reasoning = 0
  BY <1>1
<1>5. Numerator(m, u) <= Numerator(m, w) /\ Numerator(m, u) \in Int /\ Numerator(m, w) \in Int
  BY <1>2, <1>3, <1>4 DEF Numerator
<1>6. Numerator(m, u) <= MaxInt
  BY <1>0, <1>1, <1>5
<1>7. u.input * m.input <= MaxInt /\ u.output * m.output <= MaxInt
  BY <1>0, <1>1, <1>2, <1>3, <1>4
<1>8. \A k \in {"input", "output", "cached", "reasoning"} :
         u[k] >= 0 /\ m[k] >= 0 /\ u[k] * m[k] <= MaxInt
  BY <1>0, <1>1, <1>4, <1>7
<1> QED BY <1>5, <1>6, <1>8, CostMeans

(***************************************************************************)
(* The reserve covers the call.                                            *)
(***************************************************************************)
THEOREM ReserveCoversCall == Spec => []EstimateCovers
<1>1. PricingInv => EstimateCovers
  <2> SUFFICES ASSUME PricingInv,
                      NEW u, u = charge.usage, u # NoUsage,
                      u.input \in 0 .. call.input, u.output \in 0 .. call.maxOutput,
                      u.cached = 0, u.reasoning = 0,
                      NEW w, w = [u EXCEPT !.input = call.input, !.output = call.maxOutput],
                      EstimateRoundable(Numerator(Prices, w))
               PROVE  ~ charge.credits.err /\ charge.credits.val <= estimate.val
    BY DEF EstimateCovers
  <2>1. u \in PriceRows /\ call.input \in Int /\ call.maxOutput \in Int
    BY DEF PricingInv, ChargeIsOfCall, EstimateIsOfCall, PriceRows
  <2>2. w = [input |-> call.input, output |-> call.maxOutput, cached |-> 0, reasoning |-> 0]
    BY <2>1 DEF PriceRows
  <2>3. PICK m : m = Prices
    OBVIOUS
  <2>4. PICK per \in Nat \ {0} : per = pricer.perCredit
    BY DEF PricingInv, PricerOK
  <2>5. PICK reserve : reserve = creditsFromMicrounits(withMargin(costOf(m, w).val), per)
    OBVIOUS
  <2>6. /\ call.model \in DOMAIN pricer.models /\ m \in PriceRows
        /\ w \in PriceRows /\ ~ costOf(m, w).err
        /\ estimate.val = IF reserve > 1 THEN reserve ELSE 1
    BY <2>2, <2>3, <2>4, <2>5, EstimateMeans
  <2>7. ~ costOf(m, u).err /\ Numerator(m, u) <= Numerator(m, w)
    <3>1. w.input = call.input /\ w.output = call.maxOutput /\ w.cached = 0 /\ w.reasoning = 0
      BY <2>2
    <3> QED BY <2>1, <2>6, <3>1, WithinIsCheaper
  <2>8. charge.credits = Credits(call.model, u) /\ ~ charge.credits.err
    <3>1. charge.credits = Credits(call.model, u)
      BY DEF PricingInv, ChargeIsOfCall
    <3>2. cost(call.model, u) = costOf(m, u)
      BY <2>3, <2>6 DEF cost, Prices
    <3> QED BY <2>7, <3>1, <3>2 DEF Credits, Ok
  <2>9. PICK n \in Nat, x \in Nat :
           /\ n = Numerator(m, u) /\ x = Numerator(m, w) /\ n <= x
           /\ costOf(m, w).val = intDivCeil(x, PerMtok)
    BY <2>1, <2>6, <2>7, CostMeans
  <2>10. charge.credits.val = creditsFromMicrounits(intDivCeil(n, PerMtok), per)
    BY <2>3, <2>4, <2>8, <2>9, ChargeMeans
  <2>11. PICK P \in Nat \ {0} : P = PerMtok
    BY PricingAssumption
  <2>12. /\ x + P - 1 <= MaxInt /\ x + per - 1 <= MaxInt
         /\ 6 * (x \div P + 1) + 4 + per <= MaxInt /\ MaxInt \in Nat
    BY <2>3, <2>4, <2>9, <2>11, PricingAssumption DEF EstimateRoundable, Roundable
  <2>13. n + P - 1 <= MaxInt /\ n + per - 1 <= MaxInt
    BY <2>9, <2>12
  <2>14. PICK a, b : a = intDivCeil(n, PerMtok) /\ b = intDivCeil(x, PerMtok)
    OBVIOUS
  <2>15. /\ a \in Nat /\ a * P >= n /\ a * P <= n + P - 1 /\ a <= n
         /\ b \in Nat /\ b * P >= x /\ b * P <= x + P - 1
    BY <2>4, <2>9, <2>11, <2>12, <2>13, <2>14, TwoRoundings
  <2>16. a <= b
    BY <2>9, <2>15, CeilMonotone
  <2>17. b <= x \div P + 1
    <3>1. PICK q \in Nat : q = x \div P /\ P * q <= x /\ x < P * q + P
      BY <2>9, Division
    <3>2. (q + 1) * P = P * q + P /\ P * q \in Int /\ b * P \in Int
      BY <2>15
    <3>3. b * P < (q + 1) * P + P
      BY <2>9, <2>15, <3>1, <3>2
    <3> QED BY <2>15, <3>1, <3>3, ProductCancels
  <2>18. x \div P \in Nat
    BY <2>9, Division
  <2>19. PICK c : c = withMargin(b)
    OBVIOUS
  <2>20. c \in Nat /\ c >= b /\ c <= 6 * b
    BY <2>12, <2>15, <2>17, <2>18, <2>19, MarginCovers
  <2>21. c + per - 1 <= MaxInt
    BY <2>12, <2>15, <2>17, <2>18, <2>20
  <2>22. reserve \in Nat /\ reserve * per >= c
    BY <2>5, <2>9, <2>14, <2>19, <2>20, <2>21, CreditsExact
  <2>23. PICK d : d = creditsFromMicrounits(a, per)
    OBVIOUS
  <2>24. d \in Nat /\ d * per <= a + per - 1
    <3>1. a + per - 1 <= MaxInt
      BY <2>9, <2>13, <2>15, <2>12
    <3> QED BY <2>15, <2>23, <3>1, CreditsExact
  <2>25. d <= reserve
    <3>1. a <= c
      BY <2>15, <2>16, <2>20
    <3> QED BY <2>15, <2>20, <2>22, <2>24, <3>1, CeilMonotone
  <2> QED BY <2>6, <2>8, <2>10, <2>14, <2>22, <2>23, <2>24, <2>25
<1> QED BY <1>1, PricingCorrect, PTL
=============================================================================
