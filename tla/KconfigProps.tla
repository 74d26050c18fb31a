----------------------------- MODULE KconfigProps -----------------------------
(***************************************************************************)
(* Properties of the configuration programs.                               *)
(***************************************************************************)
EXTENDS KScreens

\* What a program would find if it calculated every symbol from here.
Settled == CalcAll(t, st)
Plain(s)   == Tri(t, s) /\ ~Member(t, s) /\ ~Choice(t, s)
Options(f) == {s \in Hashed(t) \ t.choices : s \in f.write}

\* The symbols of a program keep their types: flags are set on symbols of the hash
\* table only, and a bool or a tristate is n, m or y (symbol.c, confdata.c).
KTypeOK ==
  /\ st.user \cup st.write \cup st.need \subseteq Hashed(t)
  /\ TriConsts \subseteq st.valid /\ st.valid \subseteq t.syms
  /\ \A s \in t.syms : Tri(t, s) =>
       {st.val[s], st.def[s], st.vis[s], st.dir[s], st.rev[s], st.imp[s]} \subseteq {no, mod, yes}
  /\ st.mods \in {no, mod, yes}
  /\ \A c \in t.choices : {st.pick[c], st.pickdef[c]} \subseteq ToSet(t.members[c]) \cup {None}
  /\ prog \in {"shell", "failed", "ask", "mconf", "nconf", "gconf", "qconf"}

\* A choice answered 'y' before its members were forgets the answer while it is
\* calculated (sym_calc_choice), and the value at the next calculation.
Steady == \A c \in t.choices : st.val[c] = yes => c \in st.user \/ st.rev[c] = yes

\* The cache is never stale: a value that SYMBOL_VALID keeps is the one that
\* calculating everything again gives.
SameValues(f) == \A s \in st.valid : f.val[s] = st.val[s] /\ f.pick[s] = st.pick[s]
CacheCoherent == (prog # "failed" /\ Steady) => SameValues(CalcAll(t, [st EXCEPT !.valid = TriConsts]))

\* A choice that is y has one member that is y; one that is not has none.
OnePicked(f) ==
  \A c \in t.choices :
    Cardinality({s \in ToSet(t.members[c]) : f.val[s] = yes}) = IF f.val[c] = yes THEN 1 ELSE 0
ChoiceExclusive == (prog # "failed" /\ runs > 0) => OnePicked(Settled)

\* Only a select takes an option beyond what it depends on, and no option is below
\* what selects it; a number with a range is in it.
InForce(f, s, i) == \A j \in 1..i : (Val(t, f, t.rangesOf[s][j][3]) # no) = (j = i)
Bounded(f, s) ==
  \A i \in DOMAIN t.rangesOf[s] :
    InForce(f, s, i) => /\ f.val[t.rangesOf[s][i][1]] <= AsNumber(f.val[s])
                        /\ AsNumber(f.val[s]) <= f.val[t.rangesOf[s][i][2]]
Allowed(f, s) ==
  LET dir == IF t.dir[s] = NoExpr THEN yes ELSE Promoted(t, f, s, Val(t, f, t.dir[s]))
      rev == IF t.rev[s] = NoExpr THEN no ELSE Promoted(t, f, s, Val(t, f, t.rev[s]))
  IN f.val[s] >= rev /\ (f.val[s] > dir => f.val[s] = rev)
AllAllowed(f) ==
  \A s \in Hashed(t) : (Plain(s) => Allowed(f, s)) /\ (t.type[s] = "int" => Bounded(f, s))
DepsRespected == (prog # "failed" /\ runs > 0) => AllAllowed(Settled)

\* An entry that is shown by itself is shown in the menu it was put under, up to
\* the main menu: menu_finalize hides nothing.
UpShown(f) ==
  \A n \in DOMAIN t.raw : (t.up[n] # 0 /\ MenuVisible(t, f, n)) => MenuVisible(t, f, t.up[n])
EntryReachable == prog # "failed" => UpShown(Settled)

\* While conf_changed is not set, leaving the program without saving loses nothing:
\* one of the user's files, read by the next program, gives every option the value
\* it has on the screen (conf_read, conf_write, sym_set_*_value and the exits).
SameOptions(f, g) == Options(f) = Options(g) /\ \A s \in Options(f) : f.val[s] = g.val[s]
NothingLost ==
  (prog \notin {"shell", "failed"} /\ ~st.changed) =>
    \E file \in {"main", "alt"} : disk[file] # Absent /\ SameOptions(Settled, CalcAll(t, Read(file)))

\* When conf has nothing left to ask, neither has the next one: every option on
\* show has an answer that the file it saves keeps.
Saved(f) == <<Lines(t, f, Written(t, f))>>
NoneNew(g) ==
  \A n \in DOMAIN t.raw : SymOf(t, n) # None /\ MenuVisible(t, g, n) => ~New(g, SymOf(t, n))
NothingNewLeft ==
  (prog = "ask" /\ ui.agenda = << >> /\ ~ui.first /\ ui.cnt = 0) =>
    NoneNew(CalcAll(t, ConfRead(t, Fresh(t), Saved(Recalc(t, st)), order)))

---------------------------------------------------------------------------
(* What the statements said before menu_finalize worked on them.           *)

RECURSIVE Around(_)
Around(n) == IF n = 0 THEN << >> ELSE <<n>> \o Around(t.raw[n].up)

SaidCond(n) ==
  FoldLeft(LAMBDA e, k : AllocAnd(AllocAnd(e, t.raw[k].dep), IF k = n THEN NoExpr ELSE t.raw[k].visible),
           t.raw[n].cond, Around(n))

Triable == {s \in Hashed(t) : Tri(t, s)}
Worlds ==
  {w \in [Triable -> {no, mod, yes}] :
     /\ \A s \in Triable : t.type[s] = "bool" => w[s] # mod
     /\ t.modules \in Triable /\ w[t.modules] = no => \A s \in Triable : w[s] # mod}

\* Whatever the options are, the condition a prompt ended up with after expr_transform,
\* expr_eliminate_dups and expr_trans_bool says what the statements said: the same
\* value for a tristate, and the same of being n for anything else.
MeaningKept ==
  (runs = 0 /\ t.choices = {} /\ t.modules # "n") =>
    \A w \in Worlds, n \in DOMAIN t.raw :
      LET cur  == [s \in t.syms |-> IF s \in Triable THEN w[s] ELSE st.val[s]]
          said == Eval(t.type, [cur EXCEPT !["m"] = IF w[t.modules] = no THEN no ELSE mod], w[t.modules], SaidCond(n))
          is   == Eval(t.type, cur, w[t.modules], t.cond[n])
      IN t.raw[n].prompt =>
           IF SymOf(t, n) # None /\ t.type[SymOf(t, n)] = "tri" THEN is = said ELSE (is = no) = (said = no)
===============================================================================
