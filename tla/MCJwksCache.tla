---------------------------- MODULE MCJwksCache ----------------------------
(* Small instances of JwksCache for TLC. *)
EXTENDS JwksCache, TLC

Key(kid, material) == [kid |-> kid, material |-> material]
Token(kid, key) == [kid |-> kid, key |-> key, claimsOk |-> TRUE, defect |-> "none"]

\* Rotation from one key to the next.
MCRotation == {{Key("old", "m1")}, {Key("new", "m2")}}

\* A token of either key, one with bad claims and no kid, and a credential
\* that is turned away before any key is looked up.
MCSomeTokens == {Token("old", "m1"), Token("new", "m2"),
                 [Token("old", "m1") EXCEPT !.claimsOk = FALSE, !.kid = NoKid],
                 [Token("old", "m1") EXCEPT !.defect = "UnsupportedAlgorithm"]}
=============================================================================
