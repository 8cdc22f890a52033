------------------------------ MODULE Registry ------------------------------
(***************************************************************************)
(* What the service manager promises its clients: a table from names to    *)
(* binder objects.  There are no handles, reference counts or death        *)
(* cookies here; a service is looked up and the very binder that was       *)
(* registered comes back, until its process dies or another registration   *)
(* takes the name.  ServiceManager implements this specification.          *)
(***************************************************************************)
EXTENDS Integers, FiniteSets

CONSTANTS
  Clients, Names, Binders, Masks,
  GoodNames,      \* the names that may be registered
  ListableNames,  \* the names that the list can show
  NoBinder, NoName

VARIABLES
  table,    \* the binder registered under each name, or NoBinder
  known,    \* the names that were ever registered
  attrs,    \* the attributes a known name was first registered with
  alive,    \* the binders whose process has not died
  request,  \* what each client waits for
  answer    \* what each client was last told

vars == <<table, known, attrs, alive, request, answer>>

None == [op |-> "idle"]
AddRequest == [op : {"add"}, name : Names, binder : Binders \cup {NoBinder},
               allow_isolated : BOOLEAN, dumpsys_priority : Masks]
FindRequest == [op : {"find"}, name : Names, isolated : BOOLEAN]
ListRequest == [op : {"list"}, n : 0 .. Cardinality(Names), prio : Masks]
OtherRequest == [op : {"ping", "bad"}]
Request == AddRequest \cup FindRequest \cup ListRequest \cup OtherRequest

NoAnswer == [kind |-> "none"]
Failed == [kind |-> "failed"]
Zero == [kind |-> "zero"]

Init ==
  /\ table = [n \in Names |-> NoBinder]
  /\ known = {}
  /\ attrs = [n \in Names |-> [allow_isolated |-> FALSE, dumpsys_priority |-> {}]]
  /\ alive = Binders
  /\ request = [c \in Clients |-> None]
  /\ answer = [c \in Clients |-> NoAnswer]

Ask(c) ==
  /\ request[c] = None
  /\ \E m \in Request : request' = [request EXCEPT ![c] = m]
  /\ answer' = [answer EXCEPT ![c] = NoAnswer]
  /\ UNCHANGED <<table, known, attrs, alive>>

Answered(c, a) ==
  /\ request' = [request EXCEPT ![c] = None]
  /\ answer' = [answer EXCEPT ![c] = a]

Accepted(m) == m.name \in GoodNames /\ m.binder # NoBinder

Add(c, m) ==
  /\ m.op = "add" /\ Accepted(m)
  /\ table' = [table EXCEPT ![m.name] = m.binder]
  /\ known' = known \cup {m.name}
  /\ attrs' = IF m.name \in known THEN attrs
              ELSE [attrs EXCEPT ![m.name] = [allow_isolated |-> m.allow_isolated,
                                              dumpsys_priority |-> m.dumpsys_priority]]
  /\ Answered(c, Zero)
  /\ UNCHANGED alive

Visible(m) ==
  table[m.name] # NoBinder /\ (m.isolated => attrs[m.name].allow_isolated)

Find(c, m) ==
  /\ m.op = "find"
  /\ Answered(c, IF Visible(m) THEN [kind |-> "binder", binder |-> table[m.name]] ELSE Zero)
  /\ UNCHANGED <<table, known, attrs, alive>>

Supporting(prio) == {n \in known : attrs[n].dumpsys_priority \cap prio # {}}

(* Entry number n exists exactly when there are more than n names to list, *)
(* and shows its name if that can be shown.                                *)
Shown(n) == IF n \in ListableNames THEN n ELSE NoName

List(c, m) ==
  /\ m.op = "list"
  /\ IF m.n < Cardinality(Supporting(m.prio))
       THEN \E n \in Supporting(m.prio) : Answered(c, [kind |-> "name", name |-> Shown(n)])
       ELSE Answered(c, Failed)
  /\ UNCHANGED <<table, known, attrs, alive>>

Ping(c, m) ==
  /\ m.op = "ping"
  /\ Answered(c, [kind |-> "empty"])
  /\ UNCHANGED <<table, known, attrs, alive>>

Refuse(c, m) ==
  /\ m.op = "bad" \/ (m.op = "add" /\ ~Accepted(m))
  /\ Answered(c, Failed)
  /\ UNCHANGED <<table, known, attrs, alive>>

Serve(c) ==
  LET m == request[c] IN
  Add(c, m) \/ Find(c, m) \/ List(c, m) \/ Ping(c, m) \/ Refuse(c, m)

(* Only the registration of a dead binder is ever withdrawn.               *)
Unregister(n) ==
  /\ table[n] \in Binders \ alive
  /\ table' = [table EXCEPT ![n] = NoBinder]
  /\ UNCHANGED <<known, attrs, alive, request, answer>>

Die(b) ==
  /\ alive' = alive \ {b}
  /\ UNCHANGED <<table, known, attrs, request, answer>>

Next ==
  \/ \E c \in Clients : Ask(c) \/ Serve(c)
  \/ \E n \in Names : Unregister(n)
  \/ \E b \in Binders : Die(b)

Spec == Init /\ [][Next]_vars
=============================================================================
