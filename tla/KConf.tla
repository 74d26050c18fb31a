-------------------------------- MODULE KConf --------------------------------
(***************************************************************************)
(* Reading and writing configurations (confdata.c), what is visible in a   *)
(* menu (menu.c) and what conf does to all symbols at once (conf.c).  A    *)
(* configuration file is a sequence of <<name, value>>; NotSet is the      *)
(* value of a '# CONFIG_A is not set' line, Empty that of CONFIG_A= or     *)
(* CONFIG_A="".  Absent is the file that is not there.                     *)
(***************************************************************************)
EXTENDS KSym

NotSet == -3000
Absent == << >>            \* and <<lines>> the one that is

\* The symbols for_all_symbols visits: n, m and y are not in the hash table.
Hashed(t) == t.syms \ TriConsts

---------------------------------------------------------------------------
(* conf_read_simple(name, S_DEF_USER)                                      *)

Forget(t, st) ==
  [st EXCEPT !.warned  = FALSE,
             !.valid   = TriConsts,
             !.user    = t.choices,
             !.def     = [s \in t.syms |-> IF Tri(t, s) THEN no ELSE Undefined],
             !.pickdef = [s \in t.syms |-> None]]

\* Values conf_set_sym_val takes for a symbol of this type.
Takes(t, s, v) ==
  CASE t.type[s] = "bool" -> v \in {no, yes, NotSet}
    [] t.type[s] = "tri"  -> v \in {no, mod, yes, NotSet}
    [] OTHER -> v # NotSet /\ StringValid(t, s, v)

\* What the line of a member says of its choice.
ReadMember(st, s, c, v) ==
  [st EXCEPT !.def[c]     = OR3(@, v),
             !.pickdef[c] = IF v = yes THEN s ELSE @,
             !.user       = IF v = mod /\ st.def[c] = yes THEN @ \ {c} ELSE @,
             !.warned     = @ \/ (v = mod /\ st.def[c] = yes) \/ (v = yes /\ st.def[c] # no)]

ReadValue(t, st, s, v) ==
  LET read == [st EXCEPT !.def[s] = v, !.user = @ \cup {s}]
  IN IF Member(t, s) THEN ReadMember(read, s, t.choice[s], v) ELSE read

\* Mutant: 'is not set' is not turned into n.
ReadLineAsIs(t, st, s, v) ==
  CASE s \notin Hashed(t) -> [st EXCEPT !.changed = TRUE]
    [] t.type[s] = "unk" \/ (v = NotSet /\ ~Tri(t, s)) -> st
    [] ~Takes(t, s, v) -> [st EXCEPT !.warned = TRUE]
    [] OTHER -> ReadValue(t, st, s, v)

ReadLine(t, st, s, v) ==
  LET override == [st EXCEPT !.warned = @ \/ s \in st.user]
  IN CASE s \notin Hashed(t) -> [st EXCEPT !.changed = TRUE]
       [] t.type[s] = "unk" \/ (v = NotSet /\ ~Tri(t, s)) -> override
       [] ~Takes(t, s, v) -> [st EXCEPT !.warned = TRUE]
       [] OTHER -> ReadValue(t, override, s, IF v = NotSet THEN no ELSE v)

ReadSimple(t, st, lines) == FoldLeft(LAMBDA u, l : ReadLine(t, u, l[1], l[2]), Forget(t, st), lines)

---------------------------------------------------------------------------
(* conf_read                                                               *)

\* Does the calculated value agree with the saved one?
Agrees(t, st, s) ==
  \/ Choice(t, s)
  \/ s \in st.user /\ s \in st.write /\ st.def[s] = st.val[s]
  \/ s \notin st.user /\ s \notin st.write

\* The second loop: generated values and values out of range are forgotten.
Reset(t, acc, s) ==
  CASE s \notin acc.st.user \/ Member(t, s) -> acc
    [] ~Tri(t, s) /\ t.type[s] # "unk" /\ ~StringWithinRange(t, acc.st, s, acc.st.def[s]) ->
         [unsaved |-> TRUE, st |-> [acc.st EXCEPT !.valid = @ \ {s}, !.user = @ \ {s}]]
    [] acc.st.vis[s] = no /\ ~acc.unsaved -> [acc EXCEPT !.st.user = @ \ {s}]
    [] OTHER -> acc

\* order is the order of the hash table.
ConfRead(t, st, file, order) ==
  LET Checked(u) == [st |-> u, unsaved |-> \E s \in Hashed(t) : ~Agrees(t, u, s)]
      Done(acc)  == [acc.st EXCEPT !.changed = @ \/ acc.unsaved \/ acc.st.warned]
  IN IF file = Absent THEN [st EXCEPT !.changed = TRUE]
     ELSE Done(FoldLeft(LAMBDA acc, s : Reset(t, acc, s),
                        Checked(CalcAll(t, ReadSimple(t, [st EXCEPT !.changed = FALSE], file[1]))), order))

---------------------------------------------------------------------------
(* menu_is_visible                                                         *)

\* Visible without looking at the entries below.
ShownItself(t, st, n) ==
  IF SymOf(t, n) # None THEN st.pv[n] # no ELSE Val(t, st, t.cond[n]) # no

RECURSIVE MenuVisible(_, _, _), HeldBy(_, _, _)
MenuVisible(t, st, n) ==
  \/ n = 0
  \/ /\ t.raw[n].prompt
     /\ Val(t, st, t.raw[n].visible) # no
     /\ \/ ShownItself(t, st, n)
        \/ /\ SymOf(t, n) # None /\ Tri(t, SymOf(t, n)) /\ st.val[SymOf(t, n)] # no
           /\ \E i \in DOMAIN t.kids[n] : MenuVisible(t, st, t.kids[n][i])

\* A symbol that is shown because of an entry below it counts as having a value
\* once it is looked at.
HeldBy(t, st, n) ==
  IF n = 0 \/ ~MenuVisible(t, st, n) \/ ShownItself(t, st, n) THEN {}
  ELSE {SymOf(t, n)} \cup
       HeldBy(t, st, t.kids[n][SelectInSeq(t.kids[n], LAMBDA k : MenuVisible(t, st, k))])

Looked(t, st, nodes) == [st EXCEPT !.user = @ \cup UNION {HeldBy(t, st, n) : n \in nodes}]

---------------------------------------------------------------------------
(* conf_write and conf_write_defconfig                                     *)

Shown(t, st, s) == <<s, IF Tri(t, s) /\ st.val[s] = no THEN NotSet ELSE st.val[s]>>
Names(lines)    == {lines[i][1] : i \in DOMAIN lines}

\* The lines of the symbols in kept, each once, in the order of the menu.
Lines(t, st, kept) ==
  FoldLeft(LAMBDA l, n : IF SymOf(t, n) \in kept \ Names(l) THEN Append(l, Shown(t, st, SymOf(t, n))) ELSE l,
           << >>, t.entries)
\* Mutant: without the options that are not set.
WrittenIfSet(t, st) == {s \in st.write : t.type[s] # "unk" /\ st.val[s] # no}
Written(t, st) == {s \in st.write : t.type[s] # "unk"}

\* Values are calculated afresh only when nothing has changed since the last load or save.
Recalc(t, st) == CalcAll(t, IF st.changed THEN st ELSE ClearAllValid(st))

\* What differs from the defaults; a choice's own default goes without saying, but
\* for a tristate and where all members may be n.
Differs(t, st, s) ==
  /\ Changeable(st, s)
  /\ st.val[s] # StringDefault(t, st, s)
  /\ ~(/\ Member(t, s) /\ ~Optional(t, t.choice[s])
       /\ s = ChoiceDefault(t, st, t.choice[s])
       /\ t.type[s] = "bool" /\ st.val[s] = yes)
DefconfigLines(t, st) == Lines(t, st, {s \in Written(t, st) : Differs(t, st, s)})

---------------------------------------------------------------------------
(* What conf does to all symbols at once.                                  *)

\* The first loop of conf_set_all_new_symbols; rnd are rand()'s values.
NewSymbols(t, st) == {s \in Hashed(t) \ (st.user \cup st.valid) : Tri(t, s)}

AnswerAll(t, st, mode, new, rnd) ==
  LET v == [s \in t.syms |-> CASE mode = "random" -> rnd[s] [] mode = "yes" -> yes
                               [] mode = "mod" -> mod [] OTHER -> no]
  IN IF mode = "default" THEN st
     ELSE [st EXCEPT !.def  = [s \in t.syms |-> IF s \in new THEN v[s] ELSE @[s]],
                     !.user = @ \cup (IF mode = "random" THEN new \ t.choices ELSE new)]

\* randomize_choice_values
Randomize(t, st, c, picked) ==
  LET members == ToSet(t.members[c])
  IN IF st.val[c] # yes THEN st
     ELSE [st EXCEPT !.def  = [s \in t.syms |-> IF s \notin members THEN @[s]
                                                ELSE IF s = picked THEN yes ELSE no],
                     !.pickdef[c] = picked,
                     !.user  = @ \cup members \cup {c},
                     !.valid = @ \ (members \cup {c})]

\* The last loop, for one choice.
SetChoice(t, st, c, mode, picks) ==
  IF mode = "random" THEN Randomize(t, st, c, picks[c]) ELSE SetAllChoiceValues(t, st, c)

\* conf_set_all_new_symbols
NeedChoices(t, st, mode) == [st EXCEPT !.need = IF mode = "random" THEN @ ELSE t.choices \ st.user]
SetAllNew(t, st, mode, order, rnd, picks) ==
  FoldLeft(LAMBDA u, c : IF c \in u.user THEN u ELSE SetChoice(t, Calc(t, u, c), c, mode, picks),
           NeedChoices(t, ClearAllValid(AnswerAll(t, st, mode, NewSymbols(t, st), rnd)), mode),
           SelectSeq(order, LAMBDA s : s \in t.choices))

\* randconfig goes on until a pass finds nothing new.
RECURSIVE RandomPass(_, _, _, _, _)
RandomPass(t, st, order, rnd, picks) ==
  LET next == SetAllNew(t, st, "random", order, rnd, picks)
  IN IF NewSymbols(t, st) = {} /\ next.user \subseteq st.user THEN next
     ELSE RandomPass(t, next, order, rnd, picks)

\* conf_rewrite_mod_or_yes
Rewrite(t, st, from, to) ==
  ClearAllValid([st EXCEPT !.def =
    [s \in t.syms |-> IF GetType(t, st, s) = "tri" /\ @[s] = from THEN to ELSE @[s]]])
==============================================================================
