--------------------------- MODULE MCSelfInstall ---------------------------
(* Instances of SelfInstall for TLC. *)
EXTENDS SelfInstall, TLC

CONSTANTS p1, p2

Symmetry == Permutations(Procs)

Enabled(c, m) == [enabled |-> TRUE, channel |-> c, minimum |-> m]

\* An enforced channel, a minimum version, or none of them.
AnyPolicy == {Enabled("none", 0), Enabled("stable", 0), Enabled("latest", 0), Enabled("none", 2)}
NoPolicy == {Enabled("none", 0)}
============================================================================
