--------------------------- MODULE MCSettlement ----------------------------
(***************************************************************************)
(* Small instances of Settlement.                                          *)
(***************************************************************************)
EXTENDS Settlement

MCKeys == {<<"key", "k1">>}
=============================================================================
