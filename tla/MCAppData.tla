----------------------------- MODULE MCAppData -----------------------------
(* Two volumes and two users; one user has everything done to its data, a  *)
(* move takes both along.                                                  *)
EXTENDS AppData

CONSTANTS f, g
Symmetry == Permutations(Files)

On(op, v, flags) == [op |-> op, vol |-> v, user |-> 0, flags |-> flags, id |-> 7, to |-> 2]

MCUsers == <<0, 10>>
InPlace ==
  {On(op, 1, Storages) : op \in {"create", "clear", "profiles", "snapshot", "restore",
                                 "forget", "destroy_user"}}
  \cup {On("migrate", 1, {s}) : s \in Storages}
  \cup {On("snapshot", 1, {"ce"}), On("restore", 1, {"de"}),
        On("destroy", 1, {"ce", "de", "ext"})}
Moving ==
  {On("move", 1, Storages), On("clear", 1, Storages), On("create", 2, Storages),
   On("destroy", 2, Storages)}
MCRepertoires == {InPlace, Moving}
=============================================================================
