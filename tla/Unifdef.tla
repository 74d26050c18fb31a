------------------------------- MODULE Unifdef -------------------------------
(***************************************************************************)
(* unifdef (src/scripts/kbuild/unifdef/unifdef.c): the line automaton that *)
(* removes the #if groups whose conditions the -D and -U symbols decide.   *)
(*                                                                         *)
(* A line is read, classified (parseline) and handed to the transition     *)
(* function that trans_table names for the state of the innermost group.   *)
(* What the step wrote is visible in wrote, so that a module that extends  *)
(* this one can follow the output beside the input.                        *)
(*                                                                         *)
(* Of a line only the directive, its condition and its comments are kept:  *)
(*   dir     the directive, "plain" text, or "blank": space and comments   *)
(*   cond    the condition as far as the evaluator reads it                *)
(*   whole   the condition the line states; it differs from cond only when *)
(*           the condition goes on after a backslash-newline               *)
(*   closes  the line starts inside a comment and ends it                  *)
(*   opens   the line ends inside a comment                                *)
(*   cont    a plain line that ends with a backslash                       *)
(* Options: -e (IoccOk) and -iD/-iU (ign in a condition).                  *)
(***************************************************************************)
EXTENDS Integers, Sequences

CONSTANTS
  Worlds,      \* the values the undecided symbols can have
  Conds,       \* conditions: [cls, ign, holds], see CondSpace
  MAXDEPTH,    \* MAXDEPTH: levels of nesting, the outside included
  IoccOk,      \* iocccok: -e
  Leads,       \* directives that may follow the end of a comment on their line
  SplitConds   \* may a condition go on after a backslash-newline?

\* What parseline makes of a condition: cls is the answer of ifeval or of the
\* symbol table, ign says that an #ifdef names an -iD or -iU symbol, and holds
\* is the set of the worlds in which the condition is true.
CondSpace ==
  [cls : {"TRUE", "FALSE", "IF"}, ign : BOOLEAN, holds : SUBSET Worlds]

\* The answers of ifeval and findsym are right in every world.
ASSUME CondsSound ==
  /\ Conds \subseteq CondSpace /\ Conds # {}
  /\ \A c \in Conds :
       /\ c.cls = "TRUE" => c.holds = Worlds
       /\ c.cls = "FALSE" => c.holds = {}

ASSUME OptionsTyped ==
  /\ MAXDEPTH \in Nat \ {0}
  /\ IoccOk \in BOOLEAN /\ SplitConds \in BOOLEAN
  /\ Leads \subseteq {"if", "elif", "else", "endif"}

Nothing == "nothing"

VARIABLES
  stack,      \* ifstate and ignoring: stack[k + 1] is the level k
  incomment,  \* the comment parser is inside a C comment
  dirty,      \* linestate is LS_DIRTY at the start of the next line
  status,     \* "run", "done" or "error" (exit 2)
  wrote       \* the directive last written, "plain", "blank", or Nothing

vars == <<stack, incomment, dirty, status, wrote>>

Ifstates == {"OUTSIDE", "FALSE_PREFIX", "TRUE_PREFIX", "PASS_MIDDLE", "FALSE_MIDDLE",
             "TRUE_MIDDLE", "PASS_ELSE", "FALSE_ELSE", "TRUE_ELSE", "FALSE_TRAILER"}

\* The states whose row drops plain lines.
Dropping == {"FALSE_PREFIX", "FALSE_MIDDLE", "FALSE_ELSE", "FALSE_TRAILER"}

depth    == Len(stack) - 1
Top      == stack[Len(stack)]
ignoring == Top.ign

Directives == {"if", "elif", "else", "endif"}

LineSpace ==
  [dir : Directives \cup {"plain", "blank"}, cond : Conds, whole : Conds,
   closes : BOOLEAN, opens : BOOLEAN, cont : BOOLEAN]

\* LT_DODGY: the line began or ends in a comment.
Dodgy(l) == l.closes \/ l.opens

\* What stands for the condition of a line that has none.
NoCond == CHOOSE c \in Conds : TRUE

\* The lines that can come next: a comment is closed where one is open, a line
\* that is all comment is blank, and the continuation of a line holds no
\* directive.  The text that -iD and -iU guard holds no comments.
Readable(l) ==
  /\ l.whole = l.cond \/ (SplitConds /\ l.dir \in {"if", "elif"} /\ ~Dodgy(l))
  /\ l.closes => incomment /\ l.dir \in Leads \cup {"plain", "blank"}
  /\ incomment /\ ~l.closes => l.dir = "blank" /\ ~l.opens
  /\ ignoring => ~l.closes /\ ~l.opens /\ ~l.cont
  /\ l.cont => l.dir = "plain" /\ ~l.opens
  /\ dirty => l.dir \notin Directives
  /\ l.dir \notin {"if", "elif"} => l.cond = NoCond

\* linestate after the newline: a directive or text before a comment that goes
\* on makes the lines of the comment, and what follows it, part of one line.
DirtyAfter(l) ==
  /\ ~ignoring
  /\ \/ l.cont
     \/ l.opens /\ (dirty \/ l.dir # "blank")
     \/ incomment /\ ~l.closes /\ dirty

(***************************************************************************)
(* parseline                                                               *)
(***************************************************************************)

\* Only #ifdef and #ifndef ask whether a symbol is to be ignored; #elif does not.
Linetype(l) ==
  CASE l.dir = "if" /\ l.cond.ign /\ l.cond.cls = "TRUE"  -> "TRUEI"
    [] l.dir = "if" /\ l.cond.ign /\ l.cond.cls = "FALSE" -> "FALSEI"
    [] l.dir = "if" /\ (l.cond.cls = "IF" \/ ~l.cond.ign) -> l.cond.cls
    [] l.dir = "elif"  -> CASE l.cond.cls = "TRUE"  -> "ELTRUE"
                            [] l.cond.cls = "FALSE" -> "ELFALSE"
                            [] OTHER                -> "ELIF"
    [] l.dir = "else"  -> "ELSE"
    [] l.dir = "endif" -> "ENDIF"
    [] OTHER           -> "PLAIN"

(***************************************************************************)
(* trans_table: the function for a state and a line                        *)
(***************************************************************************)

\* Slip: a group that opens in a dropped block is judged on its own.
OpenMoveAfresh(is, lt, dodgy) ==
  CASE lt = "IF" -> "Fpass"
    [] lt = "TRUE" -> "Ftrue"
    [] lt = "TRUEI" -> "Itrue"
    [] OTHER -> IF lt = "FALSE" THEN "Ffalse" ELSE "Ifalse"

\* Lines that open a group: the columns TRUEI to FALSE.
OpenMove(is, lt, dodgy) ==
  CASE is \in Dropping -> IF lt \in {"TRUEI", "FALSEI"} THEN "Idrop" ELSE "Fdrop"
    [] is \notin Dropping /\ lt = "IF" -> "Fpass"
    [] is \notin Dropping /\ lt # "IF" /\ dodgy ->
         IF lt \in {"TRUEI", "FALSEI"} THEN "Oiffy" ELSE "Oif"
    [] OTHER -> CASE lt = "TRUEI" -> "Itrue" [] lt = "FALSEI" -> "Ifalse"
                  [] lt = "TRUE"  -> "Ftrue" [] OTHER         -> "Ffalse"

\* Lines that go on with a group or end it: the columns ELIF to ENDIF.
Of(lt, elif, eltrue, elfalse, els, endif) ==
  CASE lt = "ELIF" -> elif [] lt = "ELTRUE" -> eltrue [] lt = "ELFALSE" -> elfalse
    [] lt = "ELSE" -> els  [] lt = "ENDIF"  -> endif

CleanMove(is, lt) ==
  CASE is = "OUTSIDE"       -> Of(lt, "Eelif",  "Eelif",  "Eelif",  "Eelse", "Eendif")
    [] is = "FALSE_PREFIX"  -> Of(lt, "Mpass",  "Strue",  "Sfalse", "Selse", "Dendif")
    [] is = "TRUE_PREFIX"   -> Of(lt, "Dfalse", "Dfalse", "Dfalse", "Delse", "Dendif")
    [] is = "PASS_MIDDLE"   -> Of(lt, "Pelif",  "Mtrue",  "Delif",  "Pelse", "Pendif")
    [] is = "FALSE_MIDDLE"  -> Of(lt, "Pelif",  "Mtrue",  "Delif",  "Pelse", "Pendif")
    [] is = "TRUE_MIDDLE"   -> Of(lt, "Melif",  "Melif",  "Melif",  "Melse", "Pendif")
    [] is = "PASS_ELSE"     -> Of(lt, "Eelif",  "Eelif",  "Eelif",  "Eelse", "Pendif")
    [] is = "FALSE_ELSE"    -> Of(lt, "Eelif",  "Eelif",  "Eelif",  "Eelse", "Dendif")
    [] is = "TRUE_ELSE"     -> Of(lt, "Eelif",  "Eelif",  "Eelif",  "Eelse", "Dendif")
    [] is = "FALSE_TRAILER" -> Of(lt, "Dfalse", "Dfalse", "Dfalse", "Delse", "Dendif")

\* The same columns of the dodgy lines.
DodgyMove(is, lt) ==
  CASE is = "FALSE_PREFIX"  -> Of(lt, "Mpass",  "Eioccc", "Eioccc", "Eioccc", "Eioccc")
    [] is = "TRUE_PREFIX"   -> Of(lt, "Eioccc", "Eioccc", "Eioccc", "Eioccc", "Eioccc")
    [] is = "PASS_MIDDLE"   -> Of(lt, "Pelif",  "Oelif",  "Oelif",  "Pelse",  "Pendif")
    [] is = "FALSE_MIDDLE"  -> Of(lt, "Eioccc", "Eioccc", "Eioccc", "Eioccc", "Eioccc")
    [] is = "TRUE_MIDDLE"   -> Of(lt, "Eioccc", "Eioccc", "Eioccc", "Eioccc", "Pendif")
    [] is \in {"FALSE_ELSE", "TRUE_ELSE", "FALSE_TRAILER"} /\ lt = "ENDIF" -> "Eioccc"
    [] OTHER -> CleanMove(is, lt)

\* Slip: the rows of the dodgy lines are those of the clean ones.
MoveClean(is, lt, dodgy) ==
  CASE lt = "PLAIN" -> IF is \in Dropping THEN "drop" ELSE "print"
    [] lt \in {"ELIF", "ELTRUE", "ELFALSE", "ELSE", "ENDIF"} -> CleanMove(is, lt)
    [] OTHER -> OpenMove(is, lt, dodgy)

\* Slip: an #elif after a true one is dropped and closes nothing.
MoveOpen(is, lt, dodgy) ==
  IF is = "TRUE_MIDDLE" /\ lt \in {"ELIF", "ELTRUE", "ELFALSE"} /\ ~dodgy THEN "Dfalse"
  ELSE IF lt = "PLAIN" THEN IF is \in Dropping THEN "drop" ELSE "print"
  ELSE IF lt \in {"ELIF", "ELTRUE", "ELFALSE", "ELSE", "ENDIF"}
    THEN (IF dodgy THEN DodgyMove(is, lt) ELSE CleanMove(is, lt))
  ELSE OpenMove(is, lt, dodgy)

Move(is, lt, dodgy) ==
  CASE lt = "PLAIN" -> IF is \in Dropping THEN "drop" ELSE "print"
    [] lt \in {"ELIF", "ELTRUE", "ELFALSE", "ELSE", "ENDIF"} ->
         IF dodgy THEN DodgyMove(is, lt) ELSE CleanMove(is, lt)
    [] OTHER -> OpenMove(is, lt, dodgy)

(***************************************************************************)
(* The state machine utility functions                                     *)
(***************************************************************************)

\* error: the output is closed as it stands and the program exits with 2.
Error == status' = "error" /\ wrote' = Nothing /\ UNCHANGED stack

Flush(text) == wrote' = text /\ UNCHANGED status

\* state, after ignoreoff.
Fresh(is) == stack' = [stack EXCEPT ![Len(stack)] = [is |-> is, ign |-> stack[Len(stack) - 1].ign]]

\* state on its own: the group goes on as it was, ignored or not.
State(is) == stack' = [stack EXCEPT ![Len(stack)] = [is |-> is, ign |-> Top.ign]]

\* Slip: the check of the depth is off by one.
NestDeep(text, is, ign) ==
  IF depth = MAXDEPTH
  THEN Error
  ELSE Flush(text) /\ stack' = Append(stack, [is |-> is, ign |-> ign])

\* nest, then the state and the ignore flag of the new level.
Nest(text, is, ign) ==
  IF depth = MAXDEPTH - 1
  THEN Error
  ELSE Flush(text) /\ stack' = Append(stack, [is |-> is, ign |-> ign])

Unnest == stack' = SubSeq(stack, 1, Len(stack) - 1)

(***************************************************************************)
(* The transition functions, dir being the directive of the line           *)
(***************************************************************************)
Transition(move, dir) ==
  CASE move = "print"  -> Flush(dir) /\ UNCHANGED stack
    [] move = "drop"   -> Flush(Nothing) /\ UNCHANGED stack
    [] move = "Strue"  -> Flush(Nothing) /\ Fresh("TRUE_PREFIX")
    [] move = "Sfalse" -> Flush(Nothing) /\ Fresh("FALSE_PREFIX")
    [] move = "Selse"  -> Flush(Nothing) /\ State("TRUE_ELSE")
    [] move = "Pelif"  -> Flush(dir) /\ Fresh("PASS_MIDDLE")
    [] move = "Pelse"  -> Flush(dir) /\ State("PASS_ELSE")
    [] move = "Pendif" -> Flush(dir) /\ Unnest
    [] move = "Dfalse" -> Flush(Nothing) /\ Fresh("FALSE_TRAILER")
    [] move = "Delif"  -> Flush(Nothing) /\ Fresh("FALSE_MIDDLE")
    [] move = "Delse"  -> Flush(Nothing) /\ State("FALSE_ELSE")
    [] move = "Dendif" -> Flush(Nothing) /\ Unnest
    [] move = "Fdrop"  -> Nest(Nothing, "FALSE_TRAILER", ignoring)
    [] move = "Fpass"  -> Nest(dir, "PASS_MIDDLE", ignoring)
    [] move = "Ftrue"  -> Nest(Nothing, "TRUE_PREFIX", ignoring)
    [] move = "Ffalse" -> Nest(Nothing, "FALSE_PREFIX", ignoring)
    [] move = "Oiffy"  -> IF IoccOk THEN Nest(dir, "PASS_MIDDLE", TRUE) ELSE Error
    [] move = "Oif"    -> IF IoccOk THEN Nest(dir, "PASS_MIDDLE", ignoring) ELSE Error
    [] move = "Oelif"  -> IF IoccOk THEN Flush(dir) /\ Fresh("PASS_MIDDLE") ELSE Error
    [] move = "Idrop"  -> Nest(Nothing, "FALSE_TRAILER", TRUE)
    [] move = "Itrue"  -> Nest(Nothing, "TRUE_PREFIX", TRUE)
    [] move = "Ifalse" -> Nest(Nothing, "FALSE_PREFIX", TRUE)
    [] move = "Mpass"  -> Flush("if") /\ Fresh("PASS_MIDDLE")
    [] move = "Mtrue"  -> Flush("else") /\ State("TRUE_MIDDLE")
    [] move = "Melif"  -> Flush("endif") /\ State("FALSE_TRAILER")
    [] move = "Melse"  -> Flush("endif") /\ State("FALSE_ELSE")
    [] OTHER           -> Error

(***************************************************************************)
(* process                                                                 *)
(***************************************************************************)
Init ==
  /\ stack = << [is |-> "OUTSIDE", ign |-> FALSE] >>
  /\ incomment = FALSE /\ dirty = FALSE /\ status = "run"
  /\ wrote = Nothing

Process(l) ==
  /\ status = "run"
  /\ Readable(l)
  /\ Transition(Move(Top.is, Linetype(l), Dodgy(l)), l.dir)
  /\ incomment' = IF ignoring THEN incomment ELSE l.opens \/ (incomment /\ ~l.closes)
  /\ dirty' = DirtyAfter(l)

\* The row of LT_EOF, and done.
EndOfFile ==
  /\ status = "run"
  /\ status' = IF Top.is = "OUTSIDE" /\ ~incomment THEN "done" ELSE "error"
  /\ wrote' = Nothing
  /\ UNCHANGED <<stack, incomment, dirty>>

Next == EndOfFile \/ \E l \in LineSpace : Process(l)

Spec == Init /\ [][Next]_vars
==============================================================================
