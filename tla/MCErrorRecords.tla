--------------------------- MODULE MCErrorRecords --------------------------
(* Two named docker instances, one of them `last`, and a native one of a     *)
(* single directory.                                                        *)
EXTENDS ErrorRecords, TLC

MCInstances ==
  {[slug |-> "a", dir |-> "d", provider |-> "docker"],
   [slug |-> "last", dir |-> "d", provider |-> "docker"],
   [slug |-> "native", dir |-> "d", provider |-> "macos"]}

\* A directory, or the Launchfile in it: what the operator typed.
MCTyped == [d \in {"d"} |-> {"d", "d/Launchfile"}]

MCPhases == {"provision", "release", "run", "health"}

\* Slugs and hashes are names of files as they are.
MCFiles == Keys
MCSafeKey == [key \in Keys |-> key]
MCLastJson == <<"slug", "last">>

Interchangeable == Permutations(Shells)

============================================================================
