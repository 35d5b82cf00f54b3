---------------------------- MODULE MCBreezeSession ----------------------------
(* Model-checking instances of BreezeSession. *)
EXTENDS BreezeSession
=============================================================================
