---------------------------- MODULE MCConfStore -----------------------------
(* One leaf that a policy may enforce or recommend and one that it may not; *)
(* a file of each version; two policies after one another.                 *)
EXTENDS ConfStore, TLC

CONSTANTS r1, r2, r3

\* An older binary, a newer one, and one whose migrations have a gap.
MCKnown == [r \in Replicas |-> CASE r = r1 -> 1 .. 2 [] r = r2 -> 1 .. 3 [] r = r3 -> {1, 3}]

Str(x) == Val("string", x)
Field == [kind |-> "Str", default |-> Val("none", ""), scope |-> "Machine", secret |-> FALSE,
          local_only |-> FALSE, manageable |-> TRUE, enforceable |-> TRUE, min |-> 0, max |-> 9,
          allowed |-> {}]
MCManifest == [p \in {<<"lock">>, <<"free">>} |->
                 IF p = <<"lock">> THEN Field ELSE [Field EXCEPT !.manageable = FALSE]]
Doc(l, f) == [k \in {"lock", "free"} |-> Leaf(Str(IF k = "lock" THEN l ELSE f))]
MCDefault == Doc("d", "d")
MCDocs == {Doc("a", "b")}
MCPolicies == [v \in {1, 2} |->
  IF v = 1 THEN [enforced |-> Entry(<<"lock">>, Str("e")), recommended |-> Nothing,
                 max_cache_age |-> 0, stale_action |-> "refuse"]
  ELSE [enforced |-> Nothing, recommended |-> Entry(<<"lock">>, Str("r")),
        max_cache_age |-> 0, stale_action |-> "warn"]]
MCStartFiles == {Empty, Whole(0, Doc("a", "b")), Whole(1, Doc("a", "b")), Whole(3, Doc("a", "b"))}
Symmetry == Permutations(Threads) \cup Permutations(Writes)
=============================================================================
