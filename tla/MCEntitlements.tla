--------------------------- MODULE MCEntitlements ----------------------------
(***************************************************************************)
(* A small instance of Entitlements: a plan with credits of its own, one   *)
(* that falls back to MonthlyCredits and one whose grants are disabled.    *)
(***************************************************************************)
EXTENDS Entitlements

MCKeys == {monthlyGrantKey(u, p) : u \in Users, p \in 1 .. MaxPeriod}

MCPlanMonthlyCredits == [pro |-> 2, off |-> 0]
=============================================================================
