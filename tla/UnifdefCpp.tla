----------------------------- MODULE UnifdefCpp -----------------------------
(***************************************************************************)
(* What unifdef promises: the preprocessor selects the same text from its  *)
(* output as from its input, whatever the undecided symbols turn out to    *)
(* be.  Two readers of the C language's rules follow the run, one of the   *)
(* lines that are read and one of the lines that are written.              *)
(***************************************************************************)
EXTENDS Unifdef

VARIABLES
  in,     \* a preprocessor that reads the input
  out     \* a preprocessor that reads the output

allvars == <<vars, in, out>>

\* A preprocessor: its open groups, whether it is inside a comment, and whether
\* what it read is not C.  Of a group: the worlds in which this branch is
\* compiled, those in which an earlier branch or this one was chosen, and
\* whether #else has been seen.
Start == [groups |-> << >>, comment |-> FALSE, broken |-> FALSE]

\* The worlds in which text is compiled.
Live(g)  == IF g = << >> THEN Worlds ELSE g[Len(g)].act
Below(g) == Live(SubSeq(g, 1, Len(g) - 1))

Group(act, taken, els) == [act |-> act, taken |-> taken, els |-> els]

\* The groups after a directive whose condition holds in the worlds of h.
After(g, dir, h) ==
  LET t == g[Len(g)].taken IN
  CASE dir = "if"    -> Append(g, Group(Live(g) \cap h, h, FALSE))
    [] dir = "elif"  -> [g EXCEPT ![Len(g)] = Group((Below(g) \ t) \cap h, t \cup h, FALSE)]
    [] dir = "else"  -> [g EXCEPT ![Len(g)] = Group(Below(g) \ t, Worlds, TRUE)]
    [] dir = "endif" -> SubSeq(g, 1, Len(g) - 1)
    [] OTHER         -> g

\* Is the directive out of place?
Misplaced(g, dir) ==
  \/ dir \in {"elif", "else", "endif"} /\ g = << >>
  \/ dir \in {"elif", "else"} /\ g # << >> /\ g[Len(g)].els

\* A preprocessor reads the line l, whose directive is (or has become) dir.
Reads(r, l, dir) ==
  IF r.comment /\ ~l.closes THEN r
  ELSE IF (l.closes /\ ~r.comment) \/ Misplaced(r.groups, dir) THEN [r EXCEPT !.broken = TRUE]
  ELSE [groups |-> After(r.groups, dir, l.whole.holds), comment |-> l.opens, broken |-> r.broken]

CppInit == Init /\ in = Start /\ out = Start

CppProcess(l) ==
  /\ Process(l)
  /\ in' = Reads(in, l, l.dir)
  /\ out' = IF wrote' = Nothing THEN out ELSE Reads(out, l, wrote')

CppNext ==
  \/ EndOfFile /\ UNCHANGED <<in, out>>
  \/ \E l \in LineSpace : CppProcess(l)

CppSpec == CppInit /\ [][CppNext]_allvars

-----------------------------------------------------------------------------

Groups == Seq([act : SUBSET Worlds, taken : SUBSET Worlds, els : BOOLEAN])
Readers == [groups : Groups, comment : BOOLEAN, broken : BOOLEAN]

\* The type of the state; the stack holds MAXDEPTH levels at most, and only the
\* bottom one is outside (trans_table, nest, unnest: unifdef.c:458-542).
TypeOK ==
  /\ stack \in Seq([is : Ifstates, ign : BOOLEAN])
  /\ Len(stack) \in 1..MAXDEPTH
  /\ \A k \in 1..Len(stack) : stack[k].is = "OUTSIDE" <=> k = 1
  /\ incomment \in BOOLEAN /\ dirty \in BOOLEAN
  /\ status \in {"run", "done", "error"}
  /\ wrote \in Directives \cup {"plain", "blank", Nothing}

\* A comment that opens in a block guarded by an -i symbol is never seen to end,
\* and the run ends in "EOF in comment".
Stuck == incomment /\ ignoring

Following == status # "error" /\ ~Stuck

\* unifdef deletes nothing that the preprocessor would select and keeps nothing
\* it would not, for any values of the symbols it was not told about: where a
\* plain line is kept, the output's preprocessor compiles it in the same worlds
\* as the input's, and where it is dropped, the input's compiles it in none
\* (trans_table, unifdef.c:458-502).
SameSelection ==
  Following =>
    Live(in.groups) = IF Top.is \in Dropping THEN {} ELSE Live(out.groups)

\* The output is well formed: no #else or #endif without its #if, no directive
\* after an #else, no end of a comment that was deleted; the text that is kept
\* is inside a comment in the output when it was in the input.
OutputWellFormed ==
  Following =>
    /\ ~in.broken /\ ~out.broken
    /\ out.comment = (in.comment /\ Top.is \notin Dropping)

\* A run that ends well has closed every group and comment it wrote
\* (done, unifdef.c:620-632).
DoneClosed == status = "done" => in = Start /\ out = Start
==============================================================================
