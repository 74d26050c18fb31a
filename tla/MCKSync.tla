------------------------------- MODULE MCKSync -------------------------------
(***************************************************************************)
(* Two symbols and two objects: one uses both symbols, the other the first *)
(* only, and has the second's name within a longer word.                   *)
(***************************************************************************)
EXTENDS KSyncProps

CONSTANTS a, b, x, y

Word(s, inside, module) == [sym |-> s, inside |-> inside, module |-> module]
MCWords == [o \in {x, y} |->
  IF o = x THEN {Word(a, FALSE, TRUE), Word(b, FALSE, FALSE)}
  ELSE {Word(a, FALSE, FALSE), Word(b, TRUE, FALSE)}]
==============================================================================
