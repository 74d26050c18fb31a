------------------------------ MODULE MCUnifdef ------------------------------
(***************************************************************************)
(* An instance of unifdef for TLC: symbols that are defined with a number  *)
(* or a word, undefined, or to be ignored, and an undecided one, A.  Each  *)
(* world is followed on its own, so two of them show what many would.      *)
(***************************************************************************)
EXTENDS UnifdefCpp, TLC

CONSTANTS undef, word

\* -DON=2 -DWORD=word -UOFF, and -iDTEXT, -iUNOTE.
Table == [ON |-> 2, WORD |-> word, OFF |-> undef, TEXT |-> 1, NOTE |-> undef]
Ignored == {"TEXT", "NOTE"}

E == INSTANCE UnifdefEval WITH Value <- Table, Undef <- undef, Word <- word

TwoWorlds == {[A |-> undef], [A |-> 2]}

Symbols == {"ON", "OFF", "WORD", "A"}
Leaves == {E!Num(0), E!Num(2)} \cup {E!Sym(s) : s \in Symbols} \cup {E!Defined(s) : s \in Symbols}
Ops == {"||", "&&", "==", "<"}
Small == Leaves \cup {E!Not(a) : a \in Leaves}
Exprs == Small \cup {E!Bin(o, a, b) : o \in Ops, a \in Small, b \in Small}

Holds(e) == {w \in Worlds : E!CValue(e, w) # 0}

\* The #if conditions, with and without -K and -k, and the #ifdefs of the
\* symbols to be ignored.
AllConds ==
  {[cls |-> E!IfEval(e, strict, kill), ign |-> FALSE, holds |-> Holds(e)] :
      e \in Exprs, strict \in BOOLEAN, kill \in BOOLEAN}
  \cup {[cls |-> E!IfEval(E!Defined(s), FALSE, FALSE), ign |-> TRUE, holds |-> Holds(E!Defined(s))] :
      s \in Ignored}
==============================================================================
