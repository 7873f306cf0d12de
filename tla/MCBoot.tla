------------------------------- MODULE MCBoot -------------------------------
(* Boot with two futures, one of them inside the lockout, and one option; *)
(* the account is short one option, which a resting order may buy back,    *)
(* and holds two hedge futures.                                            *)
EXTENDS Boot

MCOptions == <<11>>
MCAccount == (1 :> 0) @@ (2 :> 2) @@ (11 :> -1)
MCResting == {<<11, 1>>}
=============================================================================
