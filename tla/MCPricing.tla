------------------------------ MODULE MCPricing ------------------------------
(***************************************************************************)
(* A small instance of Pricing: integers up to MaxInt, prices "per 4       *)
(* tokens", a table with two models, and pricing files that override all,  *)
(* some or nothing of the defaults.  A provider may report a negative      *)
(* count.                                                                  *)
(***************************************************************************)
EXTENDS Pricing

P(i, o, c, r) == [input |-> i, output |-> o, cached |-> c, reasoning |-> r]

MCDefaultModels == [mini |-> P(1, 3, 1, 0)]

MCPricingFiles ==
    { NoFile,
      [perCredit |-> 3, models |-> [mini |-> P(2, 5, 1, 1), big |-> P(5, 12, 2, 5)]],
      [perCredit |-> 0, models |-> NoFile],
      [perCredit |-> 1, models |-> [mini |-> P(0, -1, 3, 0)]] }

MCTokens == {-1, 0, 1, 2, 5}
=============================================================================
