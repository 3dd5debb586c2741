------------------------------- MODULE MC_Avc -------------------------------
(***************************************************************************)
(* Instances of Avc for TLC: two contexts, a pair and its reverse that      *)
(* share the nodes, and policies of which the second takes a permission     *)
(* away, and makes a domain that was permissive one that is not.            *)
(***************************************************************************)
EXTENDS Avc, TLC

CONSTANTS s, t

MCAsked == {<<s, t>>, <<t, s>>}
MCMade == {<<s, t>>}

MCPolicy ==
    (0 :> [p \in MCAsked |-> IF p[1] = s THEN {"read"} ELSE {}]) @@
    (1 :> [p \in MCAsked |-> {}])

MCPermissive == (0 :> {t}) @@ (1 :> {})

MCLabel == (0 :> t) @@ (1 :> s)
=============================================================================
