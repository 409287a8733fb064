------------------------- MODULE MCDockerDeployment -------------------------
(* DockerDeployment for two commands, two sources and a few passwords. *)
EXTENDS DockerDeployment, TLC

CONSTANTS c1, c2, s1, s2, p1, p2, p3, p4

Commands == {c1, c2}
Sources == {s1, s2}
Passwords == {p1, p2, p3, p4}

Symmetry ==
  Permutations(Commands) \cup Permutations(Sources) \cup Permutations(Passwords)
=============================================================================
