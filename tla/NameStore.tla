------------------------------ MODULE NameStore ------------------------------
(***************************************************************************)
(* What the image cache promises about its references: a command changes   *)
(* what the references of its own name stand for and nobody else's.  Only  *)
(* a command that fails half-way may lose the others, all at once, and     *)
(* only cleaning the cache takes them away on purpose.                     *)
(***************************************************************************)
CONSTANTS
  Refs,     \* references, pairs of a name and a suffix
  Nothing   \* what a reference stands for that is not in the cache

VARIABLES
  target,   \* what each reference stands for
  busy,     \* the names of the commands at work
  cleaning, \* whether the cache is being cleaned
  faults    \* how many commands have failed half-way

nvars == <<target, busy, cleaning, faults>>

Init ==
  /\ target = [r \in Refs |-> Nothing]
  /\ busy = {}
  /\ cleaning = FALSE
  /\ faults = 0

\* A command begins or ends; what the references stand for stays.
Turn == target' = target /\ faults' = faults

\* The command at work on name n changes what n stands for.
Update(n) ==
  /\ n \in busy
  /\ \A r \in Refs : r[1] # n => target'[r] = target[r]
  /\ faults' = faults

\* A command fails half-way: nothing but itself is affected, or everything is lost.
Break ==
  /\ faults' # faults
  /\ target' = target \/ target' = [r \in Refs |-> Nothing]

\* Cleaning takes references away.
Drop ==
  /\ cleaning
  /\ \A r \in Refs : target'[r] \in {target[r], Nothing}
  /\ faults' = faults

Next == Turn \/ (\E n \in busy : Update(n)) \/ Break \/ Drop

Spec == Init /\ [][Next]_nvars
===============================================================================
