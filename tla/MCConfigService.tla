-------------------------- MODULE MCConfigService --------------------------
(* Instances of ConfigService for TLC. *)
EXTENDS ConfigService, TLC

CONSTANTS a1, a2

Policy(doc, parent) == [doc |-> doc, parent |-> parent]

\* The manifest that replaces the bundle's wider one.
MCManifests == {{"x"}}

\* A tree to put, which the narrower manifest does not admit, and as
\* fragments one that sets y and one that removes x.
MCDocuments == {"y" :> 1, "x" :> Null}

\* The caller's profile, by a rule or by default.
RuleFor(who, p) == [who |-> who, default |-> FALSE, profile |-> p]
DefaultRule(p) == [who |-> {}, default |-> TRUE, profile |-> p]
MCRules == {<<RuleFor({}, "leaf"), DefaultRule("base")>>}

\* A base profile with a leaf that overrides it, and a bundle of the base
\* alone that says nothing of rules.
MCBundles ==
    {[fields |-> {"x", "y"},
      policies |-> ("base" :> Policy("x" :> 1, NoProfile) @@ "leaf" :> Policy("x" :> 2, "base")),
      declared |-> TRUE, rules |-> <<RuleFor({"c"}, "leaf")>>],
     [fields |-> {"x"}, policies |-> ("base" :> Policy("x" :> 2, NoProfile)),
      declared |-> FALSE, rules |-> <<>>]}

\* Two profiles without a parent.
MCFlat ==
    {[fields |-> {"x"},
      policies |-> ("base" :> Policy("x" :> 1, NoProfile) @@ "leaf" :> Policy("x" :> 2, NoProfile)),
      declared |-> TRUE, rules |-> <<RuleFor({"c"}, "leaf")>>]}

Symmetry == Permutations(Admins)
============================================================================
