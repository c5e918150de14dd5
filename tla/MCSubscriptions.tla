--------------------------- MODULE MCSubscriptions ---------------------------
(***************************************************************************)
(* A small instance of Subscriptions: one subscription that is created,    *)
(* upgraded and paused, a payment that fails in the second of the upgrade  *)
(* and names a plan of its own, an event without a plan, and invoices: one *)
(* in two events, of which one quotes the subscription's metadata and the  *)
(* other names only the user, and one that prorates the upgrade.           *)
(***************************************************************************)
EXTENDS Subscriptions

Alice(plan) == [user |-> "u1", plan |-> plan]

Subscription(id, who, status, created) ==
    [id |-> id, type |-> "subscription", subscription |-> "s1", meta |-> who,
     status |-> status, terms |-> id, created |-> created]

Invoice(id, type, invoice, who, quoted, created) ==
    [id |-> id, type |-> type, subscription |-> NULL, parent |-> NULL, line |-> "s1",
     meta |-> who, quoted |-> quoted, status |-> "paid", reason |-> "subscription_cycle",
     short |-> FALSE, period |-> 7, invoice |-> invoice, terms |-> id, created |-> created]

MCPayloads == {
    Subscription("created", Alice("basic"), "incomplete", 1),
    Subscription("upgraded", Alice("pro"), "active", 2),
    Subscription("paused", Alice("pro"), "paused", 3),
    Subscription("planless", [user |-> "u1", plan |-> NULL], "active", 4),
    Invoice("failed", "failed", "i0", [user |-> NULL, plan |-> "lite"], Alice("basic"), 2),
    Invoice("paid", "paid", "i1", Nobody, Alice("basic"), 1),
    Invoice("paidAgain", "paid", "i1", [user |-> "u1", plan |-> NULL], Nobody, 2),
    [Invoice("prorated", "paid", "i2", Alice("pro"), Nobody, 2) EXCEPT
        !.reason = "subscription_update", !.short = TRUE]}

MCEvents ==
    [id \in {e.id : e \in MCPayloads} |-> CHOOSE e \in MCPayloads : e.id = id]

MCSubscriptionCredits == [basic |-> 1, pro |-> 2, lite |-> 3]
MCSubscriptionKeys == {SubscriptionKey(e) : e \in {d \in MCPayloads : d.type = "paid"}}
=============================================================================
