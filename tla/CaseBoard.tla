------------------------------ MODULE CaseBoard ------------------------------
(***************************************************************************)
(* What munit promises to the shells that use it, with none of its         *)
(* machinery: case kos come and go, calls enter and leave the cases of     *)
(* loaded kos, and a ko goes away only when no call is in any of its cases *)
(* and no new call can get in.                                             *)
(***************************************************************************)
CONSTANTS
  Procs, Kos, Cases, None,
  Owner     \* [Cases -> Kos]: the ko whose table holds the case

VARIABLES
  up,      \* the kos whose code and case table are in memory
  open,    \* the cases that can be entered
  in       \* the case each thread is in, or None

vars == <<up, open, in>>

Init == up = {} /\ open = {} /\ in = [p \in Procs |-> None]

Load(k) ==
  /\ k \notin up
  /\ up' = up \cup {k}
  /\ UNCHANGED <<open, in>>

\* Registration opens the cases of a loaded ko; removal closes them.
Publish(c) ==
  /\ Owner[c] \in up
  /\ open' = open \cup {c}
  /\ UNCHANGED <<up, in>>

Withdraw(c) ==
  /\ open' = open \ {c}
  /\ UNCHANGED <<up, in>>

Enter(p, c) ==
  /\ in[p] = None
  /\ c \in open
  /\ in' = [in EXCEPT ![p] = c]
  /\ UNCHANGED <<up, open>>

Leave(p) ==
  /\ in' = [in EXCEPT ![p] = None]
  /\ UNCHANGED <<up, open>>

Unload(k) ==
  /\ k \in up
  /\ \A c \in open : Owner[c] # k
  /\ \A p \in Procs : in[p] # None => Owner[in[p]] # k
  /\ up' = up \ {k}
  /\ UNCHANGED <<open, in>>

Next ==
  \/ \E k \in Kos : Load(k) \/ Unload(k)
  \/ \E c \in Cases : Publish(c) \/ Withdraw(c) \/ \E p \in Procs : Enter(p, c)
  \/ \E p \in Procs : Leave(p)

Spec == Init /\ [][Next]_vars
==============================================================================
