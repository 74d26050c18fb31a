----------------------------- MODULE UnifdefEval -----------------------------
(***************************************************************************)
(* The expression evaluator of unifdef (unifdef.c:745-962) and the value C *)
(* gives to the same expression.  Expressions are syntax trees: the scan   *)
(* of the text and the precedence of the operators are left out.           *)
(***************************************************************************)
EXTENDS Integers, Sequences

CONSTANTS
  Value,     \* symbol table: -Dsym=value is a number or Word, -Usym is Undef
  Undef,     \* also: the symbol is not defined in a world
  Word       \* a value that is no number

Known == DOMAIN Value

Truth(v) == IF v # 0 THEN "TRUE" ELSE "FALSE"
Bit(b)   == IF b THEN 1 ELSE 0

Num(n)      == [op |-> "num", n |-> n]
Sym(s)      == [op |-> "sym", s |-> s]
Defined(s)  == [op |-> "defined", s |-> s]
Not(a)      == [op |-> "!", a |-> a]
Bin(o, a, b) == [op |-> o, a |-> a, b |-> b]

Compare(o, a, b) ==
  CASE o = "==" -> a = b [] o = "!=" -> a # b [] o = "<"  -> a < b
    [] o = ">"  -> a > b [] o = "<=" -> a <= b [] o = ">=" -> a >= b

\* The value of an operator on two values, as C has it.
Apply(o, a, b) ==
  CASE o = "||" -> Bit(a # 0 \/ b # 0) [] o = "&&" -> Bit(a # 0 /\ b # 0)
    [] OTHER    -> Bit(Compare(o, a, b))

\* op_strict, op_or and op_and: [lt, v] of two operands, strict being -K.
OpStrict(v, x, y) ==
  IF x.lt = "IF" \/ y.lt = "IF" THEN [x EXCEPT !.lt = "IF"] ELSE [lt |-> Truth(v), v |-> v]

Op(o, x, y, strict) ==
  IF o = "||" /\ ~strict /\ "TRUE" \in {x.lt, y.lt} THEN [lt |-> "TRUE", v |-> 1]
  ELSE IF o = "&&" /\ ~strict /\ "FALSE" \in {x.lt, y.lt} THEN [lt |-> "FALSE", v |-> 0]
  ELSE OpStrict(Apply(o, x.v, y.v), x, y)

\* eval_unary and eval_table.  A parse error anywhere is the answer; v is what
\* the variable val of the caller holds, 0 where nothing was assigned.
RECURSIVE Eval(_, _)
Eval(e, strict) ==
  CASE e.op = "num" -> [lt |-> Truth(e.n), v |-> e.n]
    [] e.op = "defined" ->
         IF e.s \notin Known THEN [lt |-> "IF", v |-> 0]
         ELSE LET d == Bit(Value[e.s] # Undef) IN [lt |-> Truth(d), v |-> d]
    [] e.op = "sym" ->
         IF e.s \notin Known THEN [lt |-> "IF", v |-> 0]
         ELSE IF Value[e.s] = Undef THEN [lt |-> "FALSE", v |-> 0]
         ELSE IF Value[e.s] = Word THEN [lt |-> "ERROR", v |-> 0]
         ELSE [lt |-> Truth(Value[e.s]), v |-> Value[e.s]]
    [] e.op = "!" ->
         LET x == Eval(e.a, strict) IN
         IF x.lt \in {"ERROR", "IF"} THEN x ELSE [lt |-> Truth(Bit(x.v = 0)), v |-> Bit(x.v = 0)]
    [] OTHER ->
         LET x == Eval(e.a, strict)
             y == Eval(e.b, strict)
         IN IF "ERROR" \in {x.lt, y.lt} THEN [lt |-> "ERROR", v |-> 0] ELSE Op(e.op, x, y, strict)

\* constexpr: no symbol was met.
RECURSIVE Constexpr(_)
Constexpr(e) ==
  CASE e.op \in {"sym", "defined"} -> FALSE
    [] e.op = "num" -> TRUE
    [] e.op = "!"   -> Constexpr(e.a)
    [] OTHER        -> Constexpr(e.a) /\ Constexpr(e.b)

\* ifeval: kill is -k; without it a constant expression is left alone.
IfEval(e, strict, kill) ==
  LET x == Eval(e, strict) IN
  IF (~kill /\ Constexpr(e)) \/ x.lt = "ERROR" THEN "IF" ELSE x.lt

-----------------------------------------------------------------------------
\* The value of an expression in C, where w gives the symbols that unifdef was
\* not told about a number or Undef.  An identifier that is no macro is 0.
RECURSIVE CValue(_, _)
CValue(e, w) ==
  LET Macro(s) == IF s \in Known THEN Value[s] ELSE w[s]
  IN CASE e.op = "num"     -> e.n
       [] e.op = "defined" -> Bit(Macro(e.s) # Undef)
       [] e.op = "sym"     -> IF Macro(e.s) \in {Undef, Word} THEN 0 ELSE Macro(e.s)
       [] e.op = "!"       -> Bit(CValue(e.a, w) = 0)
       [] OTHER            -> Apply(e.op, CValue(e.a, w), CValue(e.b, w))
==============================================================================
