---------------------------- MODULE MCMigrations -----------------------------
(***************************************************************************)
(* The three migrations, by the tables of version 1, the index of version  *)
(* 2, and the columns, table and index of version 3; two processes of the  *)
(* release that has them all and one of the release before.  The database  *)
(* is new, at one of the versions, or older than the table of versions:    *)
(* with the tables of version 1, with some of them (a start that died), or *)
(* with all of today's.                                                    *)
(***************************************************************************)
EXTENDS Migrations

MCAdds == << {"credit_accounts", "credit_transactions", "credit_reservations",
              "llm_usage", "byok_credentials", "subscriptions"},
             {"idx_credit_reservations_stale"},
             {"byok.version", "byok.previous_key", "settlement_outbox",
              "idx_settlement_outbox_pending"} >>

MCColumns == [x \in {"byok.version", "byok.previous_key"} |-> "byok_credentials"]

MCOrder == << "credit_accounts", "credit_transactions", "credit_reservations",
              "idx_credit_reservations_stale", "llm_usage", "byok_credentials",
              "subscriptions", "settlement_outbox", "idx_settlement_outbox_pending" >>

MCSchemaVersion == [p1 |-> 3, p2 |-> 3, p3 |-> 2]

MCDatabases ==
    {[versions |-> 1 .. v, objects |-> schemaSQL(v)] : v \in 0 .. 3}
        \cup {[versions |-> {}, objects |-> schemaSQL(v)] : v \in {1, 3}}
        \cup {[versions |-> {}, objects |-> {"credit_accounts", "byok_credentials"}]}
=============================================================================
