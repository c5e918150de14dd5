----------------------------- MODULE MCCredits ------------------------------
(***************************************************************************)
(* Small instances of Credits.                                             *)
(***************************************************************************)
EXTENDS CreditsImpl

(***************************************************************************)
(* Two ordinary keys.                                                      *)
(***************************************************************************)
MCKeys == {<<"key", "k1">>, <<"key", "k2">>}

(***************************************************************************)
(* An ordinary key and one that collides with the key Reserve derives from *)
(* request q1 (a caller may pass any string).                              *)
(***************************************************************************)
MCCollidingKeys == {<<"key", "k1">>, ReserveKey("q1")}
=============================================================================
