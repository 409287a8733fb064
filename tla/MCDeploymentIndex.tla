------------------------- MODULE MCDeploymentIndex -------------------------
(* DeploymentIndex for two shells, two instances and two ids. *)
EXTENDS DeploymentIndex, TLC

CONSTANTS c1, c2, i1, i2, d1, d2

Shells == {c1, c2}
Instances == {i1, i2}
Ids == {d1, d2}

Symmetry == Permutations(Shells) \cup Permutations(Ids)

\* The bounds. i1 is launched with both providers and suffers what can befall an
\* instance; i2 is the bystander, which docker launches with success and destroys,
\* and which suffers only from edits of its rows. What a second mishap leads to is
\* not explored further.
Bystander ==
  /\ odd[i2] \subseteq {"lost"}
  /\ \A c \in Shells : pc[c] # "idle" /\ job[c].inst = i2 =>
       /\ job[c].provider = "docker"
       /\ job[c].want = "up" \/ job[c].op = "destroy"

FewOddities == Cardinality(odd[i1]) + Cardinality(odd[i2]) <= 1

Bounds == Bystander /\ FewOddities
=============================================================================
