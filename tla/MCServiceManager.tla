-------------------------- MODULE MCServiceManager --------------------------
(***************************************************************************)
(* Instances of ServiceManager for TLC.                                    *)
(***************************************************************************)
EXTENDS ServiceManager, TLC

CONSTANTS n1, n2, b1, b2, b3, c1, c2, h1, h2, h3

(* The longest name that fits into a reply of the list, and the longest    *)
(* that may be registered.                                                 *)
MCNameLen == [n \in Names |-> IF n = n1 THEN 109 ELSE 127]

(* b1 and b2 are two incarnations of one service, b3 is another service.   *)
OneNameEach == {<<b1, n1>>, <<b2, n1>>, <<b3, n2>>} \cap (Binders \X Names)

AnyName == Binders \X Names

OneMask == {{"DEFAULT"}}

(* 99999 is the last isolated uid of user 0, 1000 the system server.       *)
TwoUids == {1000, 99999}

Symmetry == Permutations(Clients) \cup Permutations(Handles)

(* For liveness: clients add and list.  A client that looks a name up,     *)
(* pings or is refused takes one turn of the loop and changes nothing.     *)
AddsAndLists ==
  \/ binder_loop
  \/ \E c \in Clients, prio \in Masks :
       \/ BeginList(c, prio) \/ NextInList(c) \/ EndList(c)
       \/ \E n \in Names, b \in Binders : CallAdd(c, n, b, FALSE, prio)
  \/ \E b \in Binders : BinderDies(b)

LiveSpec == Init /\ [][AddsAndLists]_vars /\ Fairness
=============================================================================
