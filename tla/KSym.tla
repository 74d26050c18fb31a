-------------------------------- MODULE KSym --------------------------------
(***************************************************************************)
(* The values of kconfig's symbols (symbol.c).  A value is calculated when *)
(* it is asked for and kept until sym_clear_all_valid; calculating one     *)
(* symbol calculates what it asks for first (t.asks, in the order of       *)
(* t.order, where a symbol comes after those it asks for).  st is the      *)
(* state of all symbols:                                                   *)
(*   user     symbols with SYMBOL_DEF_USER; def their user values          *)
(*   val      curr.tri of a bool or tristate, else the number or text      *)
(*   vis, dir, rev, imp   visible, dir_dep, rev_dep and implied            *)
(*   pv       visible.tri of the prompt of each node                       *)
(*   pick, pickdef        curr.val and def[S_DEF_USER].val of a choice     *)
(*   valid, write         symbols with SYMBOL_VALID and SYMBOL_WRITE       *)
(*   need     choices with SYMBOL_NEED_SET_CHOICE_VALUES; on a member it   *)
(*            only has the choice calculated first, as the order does      *)
(*   mods     modules_val;  changed  conf_changed;  warned conf_warnings   *)
(***************************************************************************)
EXTENDS KMenu

CONSTANT Num    \* the number that is the name of an untyped symbol, as in 'range 1 9'

Tri(t, s)      == t.type[s] \in {"bool", "tri"}
Member(t, s)   == t.choice[s] # None
Choice(t, s)   == s \in t.choices
Optional(t, s) == t.raw[t.nodes[s][1]].optional

\* A symbol is changed by its answers only: a process starts with none.
Fresh(t) ==
  [ user    |-> {},
    def     |-> [s \in t.syms |-> IF Tri(t, s) THEN no ELSE Undefined],
    val     |-> [s \in t.syms |-> CASE s = "y" -> yes [] s = "m" -> mod
                                    [] s = "n" \/ Tri(t, s) -> no [] OTHER -> Empty],
    vis     |-> [s \in t.syms |-> no],
    dir     |-> [s \in t.syms |-> no],
    rev     |-> [s \in t.syms |-> no],
    imp     |-> [s \in t.syms |-> no],
    pv      |-> [n \in DOMAIN t.raw |-> no],
    pick    |-> [s \in t.syms |-> None],
    pickdef |-> [s \in t.syms |-> None],
    valid   |-> TriConsts,
    write   |-> {},
    need    |-> {},
    mods    |-> no,
    changed |-> FALSE,
    warned  |-> FALSE ]

GetType(t, st, s) ==
  IF t.type[s] = "tri" /\ (st.mods = no \/ (Member(t, s) /\ st.vis[s] = yes))
  THEN "bool" ELSE t.type[s]

\* mod is yes to a symbol that is a bool now.
Promoted(t, st, s, v) == IF v = mod /\ GetType(t, st, s) = "bool" THEN yes ELSE v

Val(t, st, e) == Eval(t.type, st.val, st.val[t.modules], e)

\* The first property, each ending with its condition, whose condition is not no.
FirstProp(t, st, props) == SelectInSeq(props, LAMBDA p : Val(t, st, Last(p)) # no)

\* Non-assigned members of a choice are set to no.
SetAllChoiceValues(t, st, c) ==
  [st EXCEPT !.def   = [s \in t.syms |-> IF t.choice[s] = c /\ s \notin st.user THEN no ELSE @[s]],
             !.user  = @ \cup {c},
             !.valid = @ \ {c},
             !.need  = @ \ {c}]

---------------------------------------------------------------------------
(* sym_calc_visibility                                                     *)

\* One of a choice's tristate members is not shown at 'm' while the choice is y.
PromptValue(t, st, s, v) ==
  IF Member(t, s) /\ t.type[s] = "tri" /\ v = mod /\ st.val[t.choice[s]] = yes THEN no ELSE v

CalcPrompts(t, st, s) ==
  [st EXCEPT !.pv = [n \in DOMAIN @ |-> IF n \in t.prompts[s] THEN PromptValue(t, st, s, Val(t, st, t.cond[n]))
                                        ELSE @[n]]]

\* Only a tristate is visible at 'm', and with modules only.
Whole(t, st, s, v) == IF v = mod /\ (t.type[s] # "tri" \/ st.mods = no) THEN yes ELSE v
CalcVisible(t, st, s) ==
  [st EXCEPT !.vis[s] = Whole(t, st, s, Max({no} \cup {st.pv[n] : n \in t.prompts[s]}))]

\* dir_dep, rev_dep or implied, with what it is where there is no such expression.
Limit(t, st, s, e, none) == IF e = NoExpr THEN none ELSE Promoted(t, st, s, Val(t, st, e))
CalcLimits(t, st, s) ==
  IF Member(t, s) THEN st
  ELSE [st EXCEPT !.dir[s] = Limit(t, st, s, t.dir[s], yes),
                  !.rev[s] = Limit(t, st, s, t.rev[s], no),
                  !.imp[s] = Limit(t, st, s, t.imp[s], no)]

CalcVisibility(t, st, s) == CalcLimits(t, CalcVisible(t, CalcPrompts(t, st, s), s), s)

---------------------------------------------------------------------------
(* The choices.                                                            *)

VisibleOf(t, st, c) == {s \in ToSet(t.members[c]) : st.vis[s] # no}

\* sym_choice_default: a default that is visible, else the first visible member.
ChoiceDefault(t, st, c) ==
  LET i == SelectInSeq(t.defaultsOf[c], LAMBDA d : Val(t, st, d[2]) # no /\ st.vis[d[1][2]] # no)
      j == SelectInSeq(t.members[c], LAMBDA s : st.vis[s] # no)
  IN CASE i # 0 -> t.defaultsOf[c][i][1][2]
       [] j # 0 -> t.members[c][j]
       [] OTHER -> None

\* A choice is not answered while one of its visible members is not.
DropUser(st, c, visible) == IF visible \subseteq st.user THEN st ELSE [st EXCEPT !.user = @ \ {c}]

Picked(st, c, s) == [st EXCEPT !.pick[c] = s, !.val[c] = IF s = None THEN no ELSE @]
PickVisible(t, st, c) ==
  Picked(DropUser(st, c, VisibleOf(t, st, c)), c,
         IF st.pickdef[c] \in VisibleOf(t, st, c) THEN st.pickdef[c] ELSE ChoiceDefault(t, st, c))

\* sym_calc_choice
CalcChoice(t, st, c) ==
  IF Choice(t, c) /\ st.val[c] = yes
  THEN PickVisible(t, FoldLeft(LAMBDA u, s : CalcVisibility(t, u, s), st, t.members[c]), c)
  ELSE st

---------------------------------------------------------------------------
(* sym_calc_value                                                          *)

\* strtoll of a value's text
AsNumber(v) == IF v \in {Empty, Undefined} THEN 0 ELSE v

Within(v, lo, hi) == IF v < lo THEN lo ELSE IF v > hi THEN hi ELSE v

\* The bounds of the range of a number that is in force, << >> where there is none.
Bounds(t, st, s, i) ==
  IF i = 0 THEN << >> ELSE <<AsNumber(st.val[t.rangesOf[s][i][1]]), AsNumber(st.val[t.rangesOf[s][i][2]])>>
RangeOf(t, st, s) ==
  IF t.type[s] \in {"int", "hex"} THEN Bounds(t, st, s, FirstProp(t, st, t.rangesOf[s])) ELSE << >>

\* sym_validate_range: a number out of its range becomes the bound it missed.
Ranged(st, s, r) ==
  IF r = << >> \/ Within(AsNumber(st.val[s]), r[1], r[2]) = AsNumber(st.val[s]) THEN st
  ELSE [st EXCEPT !.val[s] = Within(AsNumber(@), r[1], r[2])]
ValidateRange(t, st, s) == Ranged(st, s, RangeOf(t, st, s))

\* The default of a bool or a tristate, and what implies it.
DefaultTri(t, st, s, i) ==
  IF i = 0 THEN no
  ELSE AND3(Val(t, st, t.defaultsOf[s][i][1]), Val(t, st, Last(t.defaultsOf[s][i])))
\* Mutant: beyond what it depends on.
ImpliedUnlimited(st, s, v) == OR3(v, st.imp[s])
ImpliedTri(st, s, v) == IF st.imp[s] # no THEN AND3(OR3(v, st.imp[s]), st.dir[s]) ELSE v

SetTri(t, st, s, v) == [st EXCEPT !.val[s] = Promoted(t, st, s, v)]
OwnTri(t, st, s, v) ==
  SetTri(t, [st EXCEPT !.write = IF {st.rev[s], st.imp[s], v} # {no} THEN @ \cup {s} ELSE @],
         s, OR3(ImpliedTri(st, s, v), st.rev[s]))

\* Mutant: without a look at which member the choice has.
CalcTriOwn(t, st, s) ==
  IF st.vis[s] # no /\ s \in st.user THEN SetTri(t, st, s, OR3(AND3(st.def[s], st.vis[s]), st.rev[s]))
  ELSE OwnTri(t, st, s, IF Choice(t, s) THEN no ELSE DefaultTri(t, st, s, FirstProp(t, st, t.defaultsOf[s])))

\* The user's value up to what is visible, else its own, and never less than selected.
CalcTri(t, st, s) ==
  CASE Member(t, s) /\ st.vis[s] = yes -> SetTri(t, st, s, IF st.pick[t.choice[s]] = s THEN yes ELSE no)
    [] st.vis[s] # no /\ s \in st.user -> SetTri(t, st, s, OR3(AND3(st.def[s], st.vis[s]), st.rev[s]))
    [] OTHER -> OwnTri(t, st, s, IF Choice(t, s) THEN no
                                 ELSE DefaultTri(t, st, s, FirstProp(t, st, t.defaultsOf[s])))

DefaultText(t, st, s, i) == IF i = 0 THEN Empty ELSE st.val[t.defaultsOf[s][i][1][2]]
OwnText(t, st, s, i) ==
  [st EXCEPT !.val[s] = DefaultText(t, st, s, i), !.write = IF i = 0 THEN @ ELSE @ \cup {s}]
CalcText(t, st, s) ==
  IF st.vis[s] # no /\ s \in st.user THEN [st EXCEPT !.val[s] = st.def[s]]
  ELSE OwnText(t, st, s, FirstProp(t, st, t.defaultsOf[s]))

CalcOwn(t, st, s) == IF Tri(t, s) THEN CalcTri(t, st, s) ELSE CalcText(t, st, s)

\* The flags and the value a calculation starts from, and what it ends with: the
\* modules, and a choice's visible members, written with it.
Begin(t, st, s) ==
  [st EXCEPT !.write = IF st.vis[s] # no THEN @ \cup {s} ELSE @ \ {s},
             !.val[s] = IF Tri(t, s) THEN no ELSE Empty,
             !.pick[s] = None]
End(t, st, s) ==
  [st EXCEPT !.mods  = IF s = t.modules THEN st.val[s] ELSE @,
             !.write = IF ~Choice(t, s) THEN @
                       ELSE (IF s \in @ THEN @ \cup VisibleOf(t, st, s) ELSE @) \ {s}]

CalcTyped(t, st, s) ==
  End(t, ValidateRange(t, CalcChoice(t, CalcOwn(t, Begin(t, CalcVisibility(t, st, s), s), s), s), s), s)

\* The name of a symbol without a type is its value.
CalcUntyped(st, s) == [st EXCEPT !.val[s] = IF s \in DOMAIN Num THEN Num[s] ELSE Undefined]

NeedSet(t, st, s) == IF s \in st.need THEN SetAllChoiceValues(t, st, s) ELSE st

CalcOne(t, st, s) ==
  CASE s \in st.valid -> st
    [] t.type[s] = "unk" -> CalcUntyped([st EXCEPT !.valid = @ \cup {s}], s)
    [] OTHER -> NeedSet(t, CalcTyped(t, [st EXCEPT !.valid = @ \cup {s}], s), s)

CalcSyms(t, st, syms) == FoldLeft(LAMBDA u, s : CalcOne(t, u, s), st, syms)
Calc(t, st, s) == CalcSyms(t, st, t.asks[s])
CalcAll(t, st) == CalcSyms(t, st, t.order)

---------------------------------------------------------------------------
(* Setting values.                                                         *)

\* Mutant: nobody learns of the change.
ClearQuietly(st) == [st EXCEPT !.valid = TriConsts]
\* sym_clear_all_valid; whoever asks next calculates, modules first.
ClearAllValid(st) == [st EXCEPT !.valid = TriConsts, !.changed = TRUE]

\* sym_tristate_within_range
TristateWithinRange(t, st, s, v) ==
  /\ st.vis[s] # no
  /\ Tri(t, s)
  /\ ~(GetType(t, st, s) = "bool" /\ v = mod)
  /\ st.vis[s] > st.rev[s]
  /\ IF Member(t, s) /\ st.vis[s] = yes THEN v = yes
     ELSE v >= st.rev[s] /\ v <= st.vis[s]

CanSetTristate(t, st, s, v) == v = st.val[s] \/ TristateWithinRange(t, st, s, v)

\* sym_set_tristate_value, where CanSetTristate allows it: a member that is set to y
\* answers for its choice and for the others on show.
AnswerMember(t, st, s) ==
  [st EXCEPT !.pickdef[t.choice[s]] = s,
             !.user = @ \cup {t.choice[s]} \cup VisibleOf(t, st, t.choice[s])]
Answer(t, st, s, v) ==
  [(IF Member(t, s) /\ v = yes THEN AnswerMember(t, st, s) ELSE st) EXCEPT !.user = @ \cup {s}, !.def[s] = v]

\* Mutant: the calculated values stay.
SetTristateOnly(t, st, s, v) == [Answer(t, st, s, v) EXCEPT !.changed = TRUE]
SetTristate(t, st, s, v) ==
  IF v = st.val[s] THEN Answer(t, st, s, v) ELSE ClearAllValid(Answer(t, st, s, v))

\* sym_string_valid and sym_string_within_range
StringValid(t, s, v) == t.type[s] = "str" \/ v \notin {Empty, Undefined}

InRange(v, r) == r = << >> \/ Within(v, r[1], r[2]) = v
StringWithinRange(t, st, s, v) == StringValid(t, s, v) /\ InRange(v, RangeOf(t, st, s))

\* sym_set_string_value of a number or text, where it is within range.  The text
\* it had is compared even if SYMBOL_DEF_USER says it has none.
EnterString(st, s, v) == [st EXCEPT !.user = @ \cup {s}, !.def[s] = v]
SetString(st, s, v) ==
  IF st.def[s] = v THEN EnterString(st, s, v) ELSE ClearAllValid(EnterString(st, s, v))

\* sym_get_string_default, which savedefconfig compares the value with
Boolean(t, st, s, v) ==
  IF v = mod /\ (t.type[s] = "bool" \/ (~Member(t, s) /\ st.val[t.modules] = no)) THEN yes ELSE v
StringDefault(t, st, s) ==
  IF Tri(t, s)
  THEN OR3(Boolean(t, st, s, OR3(DefaultTri(t, st, s, FirstProp(t, st, t.defaultsOf[s])), st.rev[s])), st.imp[s])
  ELSE DefaultText(t, st, s, FirstProp(t, st, t.defaultsOf[s]))

Changeable(st, s) == st.vis[s] > st.rev[s]
=============================================================================
