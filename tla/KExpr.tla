------------------------------- MODULE KExpr -------------------------------
(***************************************************************************)
(* The dependency expressions of kconfig (expr.c).  An expression is       *)
(*   <<"sym", s>>   <<"not", e>>   <<"and", es>>   <<"or", es>>            *)
(*   <<"=", s, t>> and the other five comparisons,                         *)
(* with NoExpr for the NULL pointer.  The code builds && and || as binary  *)
(* nodes and says of them that parentheses are irrelevant within a level   *)
(* (expr.c:216); here a level is the sequence of its operands, so a pass   *)
(* that walks the leaves of a level walks that sequence.                   *)
(* ty[s] is the type of symbol s: bool, tri, int, hex, str or unk.         *)
(***************************************************************************)
EXTENDS Integers, Sequences, SequencesExt

no  == 0
mod == 1
yes == 2

AND3(a, b) == IF a < b THEN a ELSE b
OR3(a, b)  == IF a < b THEN b ELSE a

NoExpr == <<"null">>
Y == <<"sym", "y">>
M == <<"sym", "m">>
N == <<"sym", "n">>

TriConsts   == {"y", "m", "n"}
Levels      == {"and", "or"}
Comparisons == {"=", "!=", "<", "<=", ">", ">="}

IsYes(e) == e \in {NoExpr, Y}

\* The operand that changes nothing at a level, and the one that decides it.
Neutral(op)  == IF op = "and" THEN Y ELSE N
Deciding(op) == IF op = "and" THEN N ELSE Y

Operands(op, e) == IF e[1] = op THEN e[2] ELSE <<e>>
Level(op, es)   == IF Len(es) = 1 THEN es[1] ELSE <<op, es>>
Join(op, es)    == Level(op, FlattenSeq([i \in DOMAIN es |-> Operands(op, es[i])]))

AllocAnd(e, f) == CASE e = NoExpr -> f [] f = NoExpr -> e [] OTHER -> Join("and", <<e, f>>)
AllocOr(e, f)  == CASE e = NoExpr -> f [] f = NoExpr -> e [] OTHER -> Join("or", <<e, f>>)

\* The pairs of positions of two levels in the order the nested walks meet them.
Pairs(m, n) == [k \in 1..(m * n) |-> <<1 + ((k - 1) \div n), 1 + ((k - 1) % n)>>]

---------------------------------------------------------------------------
(* Equality and elimination.                                               *)

RECURSIVE EliminateYN(_)
EliminateYN(e) ==
  IF e[1] \notin Levels THEN e
  ELSE LET es   == [i \in DOMAIN e[2] |-> EliminateYN(e[2][i])]
           kept == SelectSeq(es, LAMBDA x : x # Neutral(e[1]))
       IN CASE \E i \in DOMAIN es : es[i] = Deciding(e[1]) -> Deciding(e[1])
            [] kept = << >> -> Neutral(e[1])
            [] OTHER -> Join(e[1], kept)

RECURSIVE Eq(_, _), EliminateLevel(_, _), EliminateEq(_)

\* Equal leaves of the two trees are both made neutral.
EliminateLevel(op, p) ==
  LET a == Operands(op, p[1])
      b == Operands(op, p[2])
      Cancel(ab, ij) ==
        LET x == ab[1][ij[1]]
            y == ab[2][ij[2]]
        IN IF (x = y /\ x \in {Y, N}) \/ ~Eq(x, y) THEN ab
           ELSE <<[ab[1] EXCEPT ![ij[1]] = Neutral(op)],
                  [ab[2] EXCEPT ![ij[2]] = Neutral(op)]>>
      r == FoldLeft(Cancel, <<a, b>>, Pairs(Len(a), Len(b)))
  IN <<Level(op, r[1]), Level(op, r[2])>>

EliminateEq(p) ==
  IF NoExpr \in {p[1], p[2]} THEN p
  ELSE LET q == IF p[1][1] \in Levels THEN EliminateLevel(p[1][1], p) ELSE p
           r == IF q[1][1] # q[2][1] /\ q[2][1] \in Levels THEN EliminateLevel(q[2][1], q) ELSE q
       IN <<EliminateYN(r[1]), EliminateYN(r[2])>>

Eq(e, f) ==
  CASE NoExpr \in {e, f}  -> IsYes(e) /\ IsYes(f)
    [] e[1] # f[1]        -> FALSE
    [] e[1] = "not"       -> Eq(e[2], f[2])
    [] e[1] \in Levels    -> LET r == EliminateEq(<<e, f>>)
                             IN r[1][1] = "sym" /\ r[1] = r[2]
    [] OTHER              -> e = f

---------------------------------------------------------------------------
(* Joining two operands of one level into one.                             *)

Simple == {"=", "!=", "sym"}

\* The symbol an operand speaks of, "" when the join looks no further.
FirstOf(e)  == CASE e[1] \in Simple -> e[2]
                 [] e[1] = "not" /\ e[2][1] \in Simple -> e[2][2]
                 [] OTHER -> ""
SecondOf(e) == CASE e[1] \in Simple -> e[2]
                 [] e[1] = "not" /\ e[2][1] = "sym" -> e[2][2]
                 [] OTHER -> ""

SameSym(ty, e, f) ==
  FirstOf(e) # "" /\ FirstOf(e) = SecondOf(f) /\ ty[FirstOf(e)] \in {"bool", "tri"}

\* e and f, in either order, have these operators; a and b are their constants.
Are(e, f, op, a, op2, b) ==
  \/ e[1] = op /\ f[1] = op2 /\ (op = "sym" \/ e[3] = a) /\ (op2 = "sym" \/ f[3] = b)
  \/ f[1] = op /\ e[1] = op2 /\ (op = "sym" \/ f[3] = a) /\ (op2 = "sym" \/ e[3] = b)

JoinOr(ty, e, f) ==
  LET s == FirstOf(e) IN
  CASE Eq(e, f) -> e
    [] ~SameSym(ty, e, f) -> NoExpr
    [] ty[s] = "tri" /\ Are(e, f, "=", "y", "=", "m") -> <<"!=", s, "n">>
    [] ty[s] = "tri" /\ Are(e, f, "=", "y", "=", "n") -> <<"!=", s, "m">>
    [] ty[s] = "tri" /\ Are(e, f, "=", "m", "=", "n") -> <<"!=", s, "y">>
    [] ty[s] = "bool" /\ (e = <<"not", f>> \/ f = <<"not", e>>) -> Y
    [] OTHER -> NoExpr

\* (a='b') && (a!='c'): only constants are known to differ.
EqualNotEqual(consts, e, f) ==
  CASE ~{e[3], f[3]} \subseteq consts -> NoExpr
    [] e[3] # f[3] -> e
    [] OTHER -> N

JoinAnd(ty, consts, e, f) ==
  LET s == FirstOf(e) IN
  CASE Eq(e, f) -> e
    [] ~SameSym(ty, e, f) -> NoExpr
    [] Are(e, f, "sym", "", "=", "y")  -> <<"=", s, "y">>
    [] Are(e, f, "sym", "", "!=", "n") -> <<"sym", s>>
    [] Are(e, f, "sym", "", "!=", "m") -> <<"=", s, "y">>
    [] ty[s] = "tri" /\ e[1] = "=" /\ f[1] = "!=" -> EqualNotEqual(consts, e, f)
    [] ty[s] = "tri" /\ e[1] = "!=" /\ f[1] = "=" -> EqualNotEqual(consts, f, e)
    [] ty[s] = "tri" /\ Are(e, f, "!=", "y", "!=", "n") -> <<"=", s, "m">>
    [] ty[s] = "tri" /\ Are(e, f, "!=", "y", "!=", "m") -> <<"=", s, "n">>
    [] ty[s] = "tri" /\ Are(e, f, "!=", "m", "!=", "n") -> <<"=", s, "y">>
    [] OTHER -> NoExpr

JoinOps(ty, consts, op, e, f) == IF op = "or" THEN JoinOr(ty, e, f) ELSE JoinAnd(ty, consts, e, f)

---------------------------------------------------------------------------
(* The passes menu_finalize runs over every condition.                     *)

\* One pass over the operands of a level; w counts the simplifications done.
RECURSIVE DupPass(_, _, _)
DupPass(ty, consts, lvl) ==
  LET op == lvl[1]
      Meet(acc, ij) ==
        LET i == ij[1]
            j == ij[2]
            x == acc.es[i]
            inner == IF x[1] \in Levels THEN DupPass(ty, consts, x) ELSE [e |-> x, w |-> 0]
            joined == JoinOps(ty, consts, op, inner.e, acc.es[j])
        IN IF i = j THEN acc
           ELSE IF joined = NoExpr
                THEN [es |-> [acc.es EXCEPT ![i] = inner.e], w |-> acc.w + inner.w]
                ELSE [es |-> [acc.es EXCEPT ![i] = Neutral(op), ![j] = joined],
                      w |-> acc.w + inner.w + 1]
      n == Len(lvl[2])
      r == FoldLeft(Meet, [es |-> lvl[2], w |-> 0], Pairs(n, n))
  IN [e |-> <<op, r.es>>, w |-> r.w]

RECURSIVE EliminateDups(_, _, _)
EliminateDups(ty, consts, e) ==
  IF e[1] \notin Levels THEN e
  ELSE LET r == DupPass(ty, consts, e)
       IN IF r.w = 0 THEN r.e ELSE EliminateDups(ty, consts, EliminateYN(r.e))

Opposite == [x \in Comparisons |->
  CASE x = "=" -> "!=" [] x = "!=" -> "=" [] x = "<" -> ">=" [] x = ">=" -> "<"
    [] x = ">" -> "<=" [] x = "<=" -> ">"]

\* Mutant: without a case for m.
BoolTestYN(e) == IF e[3] = (IF e[1] = "=" THEN "y" ELSE "n") THEN <<"sym", e[2]>> ELSE <<"not", <<"sym", e[2]>>>>

\* Comparisons of a bool with a constant become the symbol, its negation or a constant.
BoolTest(e) ==
  CASE e[3] = "m" -> IF e[1] = "=" THEN N ELSE Y
    [] e[3] = (IF e[1] = "=" THEN "y" ELSE "n") -> <<"sym", e[2]>>
    [] e[3] = (IF e[1] = "=" THEN "n" ELSE "y") -> <<"not", <<"sym", e[2]>>>>
    [] OTHER -> e

RECURSIVE Transform(_, _)
Transform(ty, e) ==
  CASE e[1] \in Levels -> Join(e[1], [i \in DOMAIN e[2] |-> Transform(ty, e[2][i])])
    [] e[1] \in {"=", "!="} /\ ty[e[2]] = "bool" -> BoolTest(e)
    [] e[1] = "not" ->
         LET x == Transform(ty, e[2]) IN
         (CASE x[1] = "not" -> Transform(ty, x[2])
           [] x[1] \in Comparisons -> <<Opposite[x[1]], x[2], x[3]>>
           [] x[1] \in Levels ->
                Transform(ty, <<IF x[1] = "and" THEN "or" ELSE "and",
                                [i \in DOMAIN x[2] |-> <<"not", x[2][i]>>]>>)
           [] x \in {Y, M, N} -> (IF x = Y THEN N ELSE IF x = N THEN Y ELSE M)
           [] OTHER -> <<"not", x>>)
    [] OTHER -> e

\* bool FOO!=n => FOO
RECURSIVE TransBool(_, _)
TransBool(ty, e) ==
  CASE e[1] \in Levels -> Join(e[1], [i \in DOMAIN e[2] |-> TransBool(ty, e[2][i])])
    [] e[1] = "not" -> <<"not", TransBool(ty, e[2])>>
    [] e[1] = "!=" /\ ty[e[2]] = "tri" /\ e[3] = "n" -> <<"sym", e[2]>>
    [] OTHER -> e

\* The expression "e = s" or "e != s", with the comparison moved to the symbols.
RECURSIVE TransCompare(_, _, _)
TransCompare(e, t, s) ==
  LET Signed(x) == IF t = "!=" THEN <<"not", x>> ELSE x
      Dual(op)  == IF (op = "and") = (s = "y") THEN "and" ELSE "or"
  IN CASE e = NoExpr -> Signed(<<"sym", s>>)
       [] e[1] \in Levels ->
            IF s = "m" THEN Signed(e)
            ELSE Signed(Join(Dual(e[1]), [i \in DOMAIN e[2] |-> TransCompare(e[2][i], "=", s)]))
       [] e[1] = "not" -> TransCompare(e[2], IF t = "=" THEN "!=" ELSE "=", s)
       [] e[1] = "sym" -> <<t, e[2], s>>
       [] OTHER -> IF s = "m" THEN (IF t = "=" THEN N ELSE Y)
                   ELSE IF (t = "=") = (s = "y") THEN e ELSE <<"not", e>>

RECURSIVE ContainsSym(_, _)
ContainsSym(e, s) ==
  CASE e[1] \in Levels -> \E i \in DOMAIN e[2] : ContainsSym(e[2][i], s)
    [] e[1] = "not" -> ContainsSym(e[2], s)
    [] e[1] \in Comparisons -> s \in {e[2], e[3]}
    [] OTHER -> e = <<"sym", s>>

RECURSIVE DependsOnSym(_, _)
DependsOnSym(e, s) ==
  CASE e[1] = "and" -> \E i \in DOMAIN e[2] : DependsOnSym(e[2][i], s)
    [] e[1] = "="   -> e[2] = s /\ e[3] \in {"y", "m"}
    [] e[1] = "!="  -> e[2] = s /\ e[3] = "n"
    [] OTHER        -> e = <<"sym", s>>

---------------------------------------------------------------------------
(* The value of an expression.  cur[s] is a tristate, or for an int, a hex *)
(* or a string an integer that stands for its text.                        *)

Empty     == -1000          \* the empty string
Undefined == -2000          \* the name of a symbol nobody defines
Word      == 2^16           \* numbers are signed and as wide as this, hex ones unsigned

\* Where the text of a symbol's value sorts; a tristate's are n, m and y.
Text(ty, cur, mods, s) ==
  CASE s = "m" -> 1
    [] s \in {"n", "y"} \/ ty[s] \in {"bool", "tri"} ->
         IF cur[s] = yes THEN 3 ELSE IF cur[s] = mod /\ mods # no THEN 1 ELSE 2
    [] OTHER -> cur[s]

Kind(ty, cur, s) ==
  CASE ty[s] \in {"bool", "tri"} -> "signed"
    [] cur[s] \in {Empty, Undefined} \/ ty[s] = "str" \/ s \in TriConsts -> "string"
    [] ty[s] = "hex" -> "unsigned"
    [] OTHER -> "signed"

\* expr_parse_string makes n, m and y the numbers 0, 1 and 2.
Number(ty, cur, mods, s) ==
  IF ty[s] \in {"bool", "tri"} /\ cur[s] = mod /\ mods = no THEN no ELSE cur[s]

SortKey(ty, cur, mods, kinds, s) ==
  CASE "string" \in kinds   -> Text(ty, cur, mods, s)
    [] "unsigned" \in kinds -> Number(ty, cur, mods, s) % Word
    [] OTHER                -> Number(ty, cur, mods, s)

Holds(op, a, b) ==
  CASE op = "=" -> a = b [] op = "!=" -> a # b [] op = "<" -> a < b
    [] op = "<=" -> a <= b [] op = ">" -> a > b [] op = ">=" -> a >= b

Compared(ty, cur, mods, op, kinds, s, t) == Holds(op, SortKey(ty, cur, mods, kinds, s), SortKey(ty, cur, mods, kinds, t))

RECURSIVE Eval(_, _, _, _)
Eval(ty, cur, mods, e) ==
  CASE e = NoExpr -> yes
    [] e[1] = "sym" -> IF ty[e[2]] \in {"bool", "tri"} \/ e[2] \in TriConsts THEN cur[e[2]] ELSE no
    [] e[1] = "not" -> yes - Eval(ty, cur, mods, e[2])
    [] e[1] = "and" -> FoldLeft(LAMBDA v, x : AND3(v, Eval(ty, cur, mods, x)), yes, e[2])
    [] e[1] = "or"  -> FoldLeft(LAMBDA v, x : OR3(v, Eval(ty, cur, mods, x)), no, e[2])
    [] OTHER -> IF Compared(ty, cur, mods, e[1], {Kind(ty, cur, e[2]), Kind(ty, cur, e[3])}, e[2], e[3])
                THEN yes ELSE no

\* The symbols an expression asks for, in the order expr_calc_value does.
RECURSIVE Asked(_)
Asked(e) ==
  CASE e = NoExpr -> << >>
    [] e[1] \in Levels -> FlattenSeq([i \in DOMAIN e[2] |-> Asked(e[2][i])])
    [] e[1] = "not" -> Asked(e[2])
    [] e[1] = "sym" -> <<e[2]>>
    [] OTHER -> <<e[2], e[3]>>
============================================================================
