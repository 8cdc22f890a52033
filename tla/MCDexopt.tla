------------------------------ MODULE MCDexopt ------------------------------
(* One dex file, an apk or a secondary one, of an app that two users have. *)
(* What is done to the profiles alone and what is done to the compiled     *)
(* files are scenarios of their own; merging belongs to both.             *)
EXTENDS Dexopt, TLC

CONSTANTS s1, s2, s3
Symmetry == Permutations(Samples)

ProfileCalls ==
  {"merge", "clear", "snapshot", "destroy_snapshot", "dump", "copy", "prepare"}
MCScenarios ==
  {[secondary |-> FALSE, having |-> h, ops |-> ProfileCalls] : h \in {Users, {Owner}}}
  \cup {[secondary |-> FALSE, having |-> {Owner}, ops |-> {"merge", "dexopt", "move_ab", "delete_odex"}],
        [secondary |-> TRUE, having |-> {}, ops |-> {"dexopt", "reconcile"}]}
MCFlags ==
  {Call(FALSE, FALSE, TRUE, TRUE, FALSE), Call(TRUE, TRUE, TRUE, TRUE, FALSE),
   Call(TRUE, FALSE, FALSE, TRUE, TRUE), Call(FALSE, TRUE, FALSE, FALSE, FALSE)}
=============================================================================
