------------------------------- MODULE Pricing -------------------------------
(***************************************************************************)
(* The pricing engine: what a call costs in micro-units and in credits,    *)
(* and how much EstimateMax reserves for it before it runs.  The           *)
(* arithmetic is Go's: fixed-width integers that wrap around, a division   *)
(* that truncates, and the overflow guards the code puts before it         *)
(* multiplies and adds.                                                    *)
(*                                                                         *)
(* The machine prices one call after another: it estimates, the call runs, *)
(* and the usage the provider reports is charged.                          *)
(***************************************************************************)
EXTENDS Integers

CONSTANTS
    MaxInt,         \* math.MaxInt64
    PerMtok,        \* microUnitsPerMTok, 1_000_000
    DefaultPerCredit,  \* defaultMicrounitsPerCredit
    Models,         \* model names that calls ask for
    DefaultModels,  \* the built-in price table: name -> prices
    PricingFiles,   \* pricing files (or NoFile) the engine may be built from
    NoFile,
    Tokens          \* token counts

ASSUME PricingAssumption ==
    /\ MaxInt \in Nat /\ PerMtok \in Nat \ {0} /\ DefaultPerCredit \in Nat \ {0}
    /\ Tokens \subseteq Int

(***************************************************************************)
(* Prices are integers, and so is what a file sets; either may be negative.*)
(***************************************************************************)
PriceRows == [input : Int, output : Int, cached : Int, reasoning : Int]

ASSUME PricesAssumption ==
    /\ \A m \in DOMAIN DefaultModels : DefaultModels[m] \in PriceRows
    /\ \A f \in PricingFiles \ {NoFile} :
           /\ f.perCredit \in Int
           /\ f.models # NoFile => \A m \in DOMAIN f.models : f.models[m] \in PriceRows

VARIABLES
    pricer,         \* the pricerEngine
    call,           \* the call at hand: model, input and maxOutput tokens
    estimate,       \* what EstimateMax returned for it
    charge          \* what Credits returned for its usage

vars == <<pricer, call, estimate, charge>>

-----------------------------------------------------------------------------
(***************************************************************************)
(* Two's complement: what is left of x in the machine's integers.          *)
(***************************************************************************)
Wrap(x) == ((x + MaxInt + 1) % (2 * (MaxInt + 1))) - (MaxInt + 1)

(***************************************************************************)
(* Go's division, which truncates towards 0, by a positive b.              *)
(***************************************************************************)
Quo(a, b) == IF a >= 0 THEN a \div b ELSE - ((- a) \div b)

Ok(n) == [err |-> FALSE, val |-> n]
Err == [err |-> TRUE, val |-> 0]

(***************************************************************************)
(* A file overrides what it sets; a non-positive microunits_per_credit and *)
(* an absent table do not.                                                 *)
(***************************************************************************)
newPricer(f) ==
    IF f = NoFile
    THEN [perCredit |-> DefaultPerCredit, models |-> DefaultModels]
    ELSE [perCredit |-> IF f.perCredit > 0 THEN f.perCredit ELSE DefaultPerCredit,
          models    |-> IF f.models = NoFile THEN DefaultModels ELSE f.models]

(***************************************************************************)
(* Mutant: the division rounds down.                                       *)
(***************************************************************************)
intDivFloor(a, b) == IF a <= 0 THEN 0 ELSE Quo(a, b)

intDivCeil(a, b) == IF a <= 0 THEN 0 ELSE Quo(Wrap(a + b - 1), b)

(***************************************************************************)
(* The sum of tokens times price over the four kinds of tokens, guarded    *)
(* against negative factors, against a product and against a sum beyond    *)
(* MaxInt, then divided.                                                   *)
(***************************************************************************)
BadFactor(n, price) == n < 0 \/ price < 0 \/ (n # 0 /\ price > MaxInt \div n)

Numerator(m, u) ==
    u.input * m.input + u.output * m.output + u.cached * m.cached
        + u.reasoning * m.reasoning

(***************************************************************************)
(* Mutant: the sum goes unguarded and wraps around.                        *)
(***************************************************************************)
costOfUnchecked(m, u) ==
    IF \/ BadFactor(u.input, m.input) \/ BadFactor(u.output, m.output)
       \/ BadFactor(u.cached, m.cached) \/ BadFactor(u.reasoning, m.reasoning)
    THEN Err
    ELSE Ok(intDivCeil(Wrap(Numerator(m, u)), PerMtok))

costOf(m, u) ==
    IF \/ BadFactor(u.input, m.input) \/ BadFactor(u.output, m.output)
       \/ BadFactor(u.cached, m.cached) \/ BadFactor(u.reasoning, m.reasoning)
       \/ Numerator(m, u) > MaxInt
    THEN Err
    ELSE Ok(intDivCeil(Numerator(m, u), PerMtok))

cost(model, u) ==
    IF model \in DOMAIN pricer.models THEN costOf(pricer.models[model], u) ELSE Err

creditsFromMicrounits(mu, perCredit) ==
    LET per == IF perCredit <= 0 THEN DefaultPerCredit ELSE perCredit
    IN  IF mu <= 0 THEN 0 ELSE Quo(Wrap(mu + per - 1), per)

Credits(model, u) ==
    LET mu == cost(model, u)
    IN  IF mu.err THEN Err ELSE Ok(creditsFromMicrounits(mu.val, pricer.perCredit))

(***************************************************************************)
(* EstimateMax: the cost of the input and of the most output the call may  *)
(* produce, times 6/5, and at least one credit.                            *)
(***************************************************************************)
pCost(m, input, output) ==
    costOf(m, [input |-> input, output |-> output, cached |-> 0, reasoning |-> 0])

(***************************************************************************)
(* The reserve margin, 6/5 rounded up.  Mutant: the fraction upside down.  *)
(***************************************************************************)
inverseMargin(mu) == intDivCeil(Wrap(mu * 5), 6)

withMargin(mu) == intDivCeil(Wrap(mu * 6), 5)

EstimateMax(model, input, maxOutput) ==
    IF input < 0 \/ maxOutput < 0 \/ model \notin DOMAIN pricer.models
    THEN Err
    ELSE LET mu == pCost(pricer.models[model], input, maxOutput)
         IN  IF mu.err \/ mu.val > MaxInt \div 6
             THEN Err
             ELSE LET credits == creditsFromMicrounits(withMargin(mu.val), pricer.perCredit)
                  IN  Ok(IF credits > 1 THEN credits ELSE 1)

-----------------------------------------------------------------------------
NoCall == [model |-> "none", input |-> 0, maxOutput |-> 0]

NoUsage == [input |-> 0, output |-> 0, cached |-> 0, reasoning |-> 0]

Init ==
    /\ \E f \in PricingFiles : pricer = newPricer(f)
    /\ call = NoCall
    /\ estimate = Err
    /\ charge = [usage |-> NoUsage, credits |-> Err]

Estimate(model, input, maxOutput) ==
    /\ call = NoCall
    /\ call' = [model |-> model, input |-> input, maxOutput |-> maxOutput]
    /\ estimate' = EstimateMax(model, input, maxOutput)
    /\ UNCHANGED <<pricer, charge>>

(***************************************************************************)
(* The provider reports the usage of the call and it is priced.  A call    *)
(* that could not be estimated is not made.                                *)
(***************************************************************************)
Charge(u) ==
    /\ call # NoCall /\ ~ estimate.err
    /\ charge.usage = NoUsage /\ u # NoUsage
    /\ charge' = [usage |-> u, credits |-> Credits(call.model, u)]
    /\ UNCHANGED <<pricer, call, estimate>>

NextCall ==
    /\ call # NoCall
    /\ estimate.err \/ charge.usage # NoUsage
    /\ call' = NoCall
    /\ estimate' = Err
    /\ charge' = [usage |-> NoUsage, credits |-> Err]
    /\ UNCHANGED pricer

Usages == [input : Tokens, output : Tokens, cached : Tokens, reasoning : Tokens]

Next ==
    \/ \E m \in Models, i, o \in Tokens : Estimate(m, i, o)
    \/ \E u \in Usages : Charge(u)
    \/ NextCall

Spec == Init /\ [][Next]_vars

-----------------------------------------------------------------------------
(***************************************************************************)
(* The exact cost: the least number of units of size b that cover a.       *)
(***************************************************************************)
IsCeil(c, a, b) == c * b >= a /\ (c - 1) * b < a

Prices == pricer.models[call.model]

(***************************************************************************)
(* Far enough from the largest integer for every rounding up, which adds   *)
(* the divisor less one before it divides, to stay within the integers:    *)
(* the rounding of a sum of products n, and those of its estimate.         *)
(***************************************************************************)
Roundable(n) == n + PerMtok - 1 <= MaxInt /\ n + pricer.perCredit - 1 <= MaxInt

EstimateRoundable(n) ==
    Roundable(n) /\ 6 * (n \div PerMtok + 1) + 4 + pricer.perCredit <= MaxInt

(***************************************************************************)
(* A usage is priced exactly when it has a price: no count and no price is *)
(* negative and the sum of the products is an integer the machine holds;   *)
(* everything else is an error, never a small number.  The credits charged *)
(* are the exact cost rounded up twice, never less than the usage is worth *)
(* and less than one credit and one micro-unit more, unless the sum is so  *)
(* near the largest integer that a rounding wraps around (Roundable).      *)
(***************************************************************************)
Kinds == {"input", "output", "cached", "reasoning"}

HasPrice(m, u) == (\A k \in Kinds : u[k] >= 0 /\ m[k] >= 0) /\ Numerator(m, u) <= MaxInt

ChargeIsExact ==
    charge.usage # NoUsage =>
        LET n == Numerator(Prices, charge.usage)
            unit == PerMtok * pricer.perCredit
        IN  /\ ~ charge.credits.err <=> HasPrice(Prices, charge.usage)
            /\ ~ charge.credits.err /\ Roundable(n) =>
                   /\ charge.credits.val * unit >= n
                   /\ n > 0 => charge.credits.val * unit < n + unit + PerMtok
                   /\ n = 0 => charge.credits.val = 0

(***************************************************************************)
(* A reserve covers the call it was made for: usage within the estimated   *)
(* input and output, without separately priced cached or reasoning tokens, *)
(* never costs more than EstimateMax reserved.                             *)
(***************************************************************************)
EstimateCovers ==
    LET u == charge.usage
        worst == [u EXCEPT !.input = call.input, !.output = call.maxOutput]
        within == /\ u.input \in 0 .. call.input
                  /\ u.output \in 0 .. call.maxOutput
                  /\ u.cached = 0 /\ u.reasoning = 0
    IN  u # NoUsage /\ within =>
            (EstimateRoundable(Numerator(Prices, worst)) =>
                ~ charge.credits.err /\ charge.credits.val <= estimate.val)

-----------------------------------------------------------------------------
(***************************************************************************)
(* What the engine and a call remember: prices that are integers, and the  *)
(* results of EstimateMax and of Credits for this very call.               *)
(***************************************************************************)
PricerOK ==
    /\ pricer.perCredit \in Nat \ {0}
    /\ \A m \in DOMAIN pricer.models : pricer.models[m] \in PriceRows

EstimateIsOfCall ==
    /\ call.input \in Int /\ call.maxOutput \in Int
    /\ call # NoCall => estimate = EstimateMax(call.model, call.input, call.maxOutput)

ChargeIsOfCall ==
    /\ charge.usage \in [input : Int, output : Int, cached : Int, reasoning : Int]
    /\ charge.usage # NoUsage =>
           /\ call # NoCall /\ ~ estimate.err
           /\ charge.credits = Credits(call.model, charge.usage)

PricingInv == PricerOK /\ EstimateIsOfCall /\ ChargeIsOfCall
=============================================================================
