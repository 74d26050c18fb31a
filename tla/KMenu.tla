------------------------------- MODULE KMenu -------------------------------
(***************************************************************************)
(* From the statements of a Kconfig file to the menu tree and the          *)
(* conditions the front ends work on (menu.c, parser.y, and the search for *)
(* recursive dependencies of symbol.c).                                    *)
(*                                                                         *)
(* raw is the sequence of statements in file order:                        *)
(*   kind     config, menuconfig, choice, menu, if or comment              *)
(*   up       the enclosing statement, 0 at the top                        *)
(*   sym      the symbol, "" where there is none; type its type or "unk"   *)
(*   prompt, cond      has it a prompt, and under which condition          *)
(*   dep, visible      depends on, visible if                              *)
(*   defaults          <<expr, cond>>; ranges <<low, high, cond>>          *)
(*   selects, implies  <<symbol, cond>>                                    *)
(*   optional          of a choice                                         *)
(***************************************************************************)
EXTENDS KExpr, FiniteSets

None == ""

\* The symbols of a statement list, those only mentioned in expressions included.
Mentioned(r) ==
  {r.sym} \cup ToSet(Asked(r.cond)) \cup ToSet(Asked(r.dep)) \cup ToSet(Asked(r.visible))
  \cup UNION {ToSet(Asked(r.defaults[i][1]) \o Asked(r.defaults[i][2])) : i \in DOMAIN r.defaults}
  \cup UNION {{r.ranges[i][1], r.ranges[i][2]} \cup ToSet(Asked(r.ranges[i][3])) : i \in DOMAIN r.ranges}
  \cup UNION {{r.selects[i][1]} \cup ToSet(Asked(r.selects[i][2])) : i \in DOMAIN r.selects}
  \cup UNION {{r.implies[i][1]} \cup ToSet(Asked(r.implies[i][2])) : i \in DOMAIN r.implies}

SymsOf(raw) == (UNION {Mentioned(raw[i]) : i \in DOMAIN raw} \cup TriConsts) \ {None}

\* 'm' becomes 'm' && MODULES, so that it is 'n' when running without modules.
RECURSIVE RewriteM(_, _)
RewriteM(e, modules) ==
  CASE e = M -> Join("and", <<M, <<"sym", modules>>>>)
    [] e[1] = "not" -> <<"not", RewriteM(e[2], modules)>>
    [] e[1] \in Levels -> Join(e[1], [i \in DOMAIN e[2] |-> RewriteM(e[2][i], modules)])
    [] OTHER -> e

---------------------------------------------------------------------------
(* The tree under construction: t has for every node (0 is the root menu)  *)
(* its kids and its up, for every node its dep and the condition of its    *)
(* prompt, its defaults and ranges, and for every symbol type, rev_dep,    *)
(* implied, dir_dep, choice and members.                                   *)

PosOf(seq, x) == CHOOSE i \in DOMAIN seq : seq[i] = x

\* What the parser leaves: prompts carry the visibility of the menus above.
Parsed(raw, consts, modules) ==
  LET nodes == DOMAIN raw
      syms  == SymsOf(raw)
      Own(s) == {i \in nodes : raw[i].sym = s}
      Typed(s) == {i \in Own(s) : raw[i].type # "unk"}
      \* The statements around a statement, innermost first.
      Outer[i \in {0} \cup nodes] == IF i = 0 \/ raw[i].up = 0 THEN << >>
                                     ELSE <<raw[i].up>> \o Outer[raw[i].up]
      Cond(i) == IF raw[i].kind \in {"menu", "comment"} THEN raw[i].cond
                 ELSE FoldLeft(LAMBDA e, j : AllocAnd(e, raw[j].visible), raw[i].cond, Outer[i])
  IN [ raw      |-> raw,
       consts   |-> consts,
       modules  |-> modules,
       syms     |-> syms,
       kids     |-> [n \in {0} \cup nodes |->
                       SelectSeq([i \in nodes |-> i], LAMBDA i : raw[i].up = n)],
       up       |-> [i \in nodes |-> raw[i].up],
       dep      |-> [i \in nodes |-> raw[i].dep],
       cond     |-> [i \in nodes |-> Cond(i)],
       defaults |-> [i \in nodes |-> raw[i].defaults],
       ranges   |-> [i \in nodes |-> raw[i].ranges],
       type     |-> [s \in syms |-> IF Typed(s) = {} THEN "unk"
                                    ELSE raw[CHOOSE i \in Typed(s) : \A j \in Typed(s) : i <= j].type],
       dir      |-> [s \in syms |-> NoExpr],
       rev      |-> [s \in syms |-> NoExpr],
       imp      |-> [s \in syms |-> NoExpr],
       choice   |-> [s \in syms |-> None],
       members  |-> [s \in syms |-> << >>] ]

IsChoice(t, n) == n # 0 /\ t.raw[n].kind = "choice"
SymOf(t, n)    == IF n = 0 THEN None ELSE t.raw[n].sym

\* A choice takes the type of its first typed member, the others the choice's.
ChoiceTypes(t, n) ==
  LET kidSyms == [i \in DOMAIN t.kids[n] |-> SymOf(t, t.kids[n][i])]
      typed   == SelectSeq(kidSyms, LAMBDA s : s # None /\ t.type[s] # "unk")
      own     == IF t.type[SymOf(t, n)] # "unk" \/ typed = << >> THEN t.type[SymOf(t, n)]
                 ELSE t.type[typed[1]]
  IN [t EXCEPT !.type = [s \in t.syms |->
        IF s = SymOf(t, n) \/ (s \in ToSet(kidSyms) /\ t.type[s] = "unk") THEN own ELSE t.type[s]]]

\* A condition of node n under the dependencies in force there.
Simplified(t, base, e) ==
  EliminateDups(t.type, t.consts, AllocAnd(base, Transform(t.type, RewriteM(e, t.modules))))

\* One child: its dependencies, its properties' conditions, its selects and implies.
Propagate(t, parentdep, n) ==
  LET base == Simplified(t, parentdep, t.dep[n])
      s    == SymOf(t, n)
      Cond(e) == LET x == Simplified(t, base, e)
                 IN IF s # None /\ t.type[s] # "tri" THEN TransBool(t.type, x) ELSE x
      Depended(old, targets) ==
        FoldLeft(LAMBDA f, p : [f EXCEPT ![p[1]] =
                   AllocOr(@, AllocAnd(<<"sym", s>>, Cond(p[2])))], old, targets)
  IN [t EXCEPT !.dep[n]      = base,
               !.cond[n]     = Cond(@),
               !.defaults[n] = [i \in DOMAIN @ |-> <<@[i][1], Cond(@[i][2])>>],
               !.ranges[n]   = [i \in DOMAIN @ |-> <<@[i][1], @[i][2], Cond(@[i][3])>>],
               !.rev         = Depended(@, t.raw[n].selects),
               !.imp         = Depended(@, t.raw[n].implies)]

\* Mutant: any entry that mentions the symbol.
BelongsIfMentioned(t, n, k) == ContainsSym(IF t.raw[k].prompt THEN t.cond[k] ELSE t.dep[k], SymOf(t, n))

\* Does node k, placed right after node n, belong into a submenu of n's symbol?
BelongsUnder(t, n, k) ==
  LET s     == SymOf(t, n)
      Shown(e) == EliminateDups(t.type, t.consts, Transform(t.type, TransCompare(e, "!=", "n")))
      basedep  == Shown(IF t.raw[n].prompt THEN t.cond[n] ELSE NoExpr)
      dep      == IF t.raw[k].prompt THEN t.cond[k] ELSE t.dep[k]
  IN /\ ContainsSym(dep, s)
     /\ DependsOnSym(dep, s) \/ IsYes(EliminateEq(<<Shown(dep), basedep>>)[2])

RECURSIVE Finalize(_, _), FinalizeKids(_, _, _), Submenu(_, _), Settle(_, _, _)

FinalizeKids(t, n, i) ==
  IF i > Len(t.kids[n]) THEN t ELSE FinalizeKids(Finalize(t, t.kids[n][i]), n, i + 1)

\* Consecutive entries that depend on the symbol of n move below n.
Submenu(t, n) ==
  LET up == t.up[n]
      at == PosOf(t.kids[up], n)
  IN IF at = Len(t.kids[up]) \/ ~BelongsUnder(t, n, t.kids[up][at + 1]) THEN t
     ELSE LET k == t.kids[up][at + 1]
              f == Finalize(t, k)
          IN Submenu([f EXCEPT !.kids[up] = RemoveAt(@, at + 1),
                               !.kids[n]  = Append(@, k), !.up[k] = n], n)

\* The members of a choice are registered; entries below an 'if' or below a
\* symbol without a prompt move up beside it.
Settle(t, n, i) ==
  IF i > Len(t.kids[n]) THEN t
  ELSE LET k == t.kids[n][i]
           s == SymOf(t, k)
           c == SymOf(t, n)
           joins == IsChoice(t, n) /\ s # None /\ t.choice[s] = None
           only  == joins /\ t.type[c] = "tri" /\ t.type[s] # "tri"
           Too(e) == IF only THEN AllocAnd(<<"=", c, "y">>, e) ELSE e
           u == IF ~joins THEN t
                ELSE [t EXCEPT !.choice[s] = c, !.members[c] = Append(@, s),
                               !.dep[k] = Too(@), !.cond[k] = Too(@),
                               !.defaults[k] = [j \in DOMAIN @ |-> <<@[j][1], Too(@[j][2])>>]]
           flat == t.kids[k] # << >> /\ ~t.raw[k].prompt
           v == IF ~flat THEN u
                ELSE [u EXCEPT !.kids[n] = SubSeq(@, 1, i) \o t.kids[k] \o SubSeq(@, i + 1, Len(@)),
                               !.kids[k] = << >>,
                               !.up = [j \in DOMAIN @ |-> IF j \in ToSet(t.kids[k]) THEN n ELSE @[j]]]
       IN Settle(v, n, i + 1)

\* menu_finalize
Finalize(t, n) ==
  LET s == SymOf(t, n)
      children ==
        LET typed == IF IsChoice(t, n) THEN ChoiceTypes(t, n) ELSE t
            pd == IF IsChoice(t, n) THEN <<"sym", s>> ELSE IF n = 0 THEN NoExpr ELSE t.dep[n]
        IN FinalizeKids(FoldLeft(LAMBDA u, k : Propagate(u, pd, k), typed, t.kids[n]), n, 1)
      alone == LET u == Submenu(t, n) IN [u EXCEPT !.dir[s] = AllocOr(@, t.dep[n])]
      a == IF t.kids[n] # << >> THEN children ELSE IF s # None THEN alone ELSE t
      b == Settle(a, n, 1)
  IN \* A choice that is not optional is selected at 'm' while it is visible.
     IF IsChoice(b, n) /\ ~b.raw[n].optional /\ b.raw[n].prompt
     THEN [b EXCEPT !.rev[s] = AllocOr(@, AllocAnd(b.cond[n], M))] ELSE b

---------------------------------------------------------------------------
(* sym_check_deps: does a symbol's value ask for itself?                   *)

\* What sym_check_sym_deps follows from a symbol; select and imply are followed
\* at their targets.
DepsOf(t, s) ==
  LET own == {n \in DOMAIN t.raw : t.raw[n].sym = s}
      Of(e) == ToSet(Asked(e))
  IN Of(t.dir[s]) \cup Of(t.rev[s]) \cup Of(t.imp[s])
     \cup UNION {Of(t.cond[n]) : n \in {m \in own : t.raw[m].prompt}}
     \cup UNION {UNION {Of(t.defaults[n][i][2]) \cup
                        (IF IsChoice(t, n) THEN {} ELSE Of(t.defaults[n][i][1]))
                        : i \in DOMAIN t.defaults[n]} : n \in own}
     \cup UNION {UNION {Of(t.ranges[n][i][3]) : i \in DOMAIN t.ranges[n]} : n \in own}

\* A choice and its members are one vertex: the check starts from the choice and
\* does not follow what its members ask of it.
Vertex(t, s) == IF t.choice[s] # None THEN t.choice[s] ELSE s
Edges(t) ==
  {<<Vertex(t, s), Vertex(t, d)>> : <<s, d>> \in
     {p \in t.syms \X t.syms : p[2] \in DepsOf(t, p[1]) /\ ~(t.choice[p[1]] # None /\ p[2] = t.choice[p[1]])}}

RECURSIVE ReachesFrom(_, _)
ReachesFrom(E, S) == LET T == S \cup {e[2] : e \in {x \in E : x[1] \in S}}
                     IN IF T = S THEN S ELSE ReachesFrom(E, T)

RecursiveDependency(t) ==
  LET E == Edges(t)
  IN \E s \in {e[1] : e \in E} : s \in ReachesFrom(E, {e[2] : e \in {x \in E : x[1] = s}})

---------------------------------------------------------------------------
(* What the programs find in the finished tree: the nodes of each symbol   *)
(* and their properties, and the order in which values ask for each other. *)

\* The symbols whose values a symbol's calculation asks for; a choice asks for what
\* decides which of its members are visible.
Before(t, s) ==
  LET BoundsOf(n) == UNION {{t.ranges[n][i][1], t.ranges[n][i][2]} : i \in DOMAIN t.ranges[n]}
      AskedBy(x) == DepsOf(t, x) \cup UNION {BoundsOf(n) : n \in {m \in DOMAIN t.raw : t.raw[m].sym = x}}
      mates == IF t.choice[s] # None THEN {t.choice[s]} ELSE {}
  IN (UNION {AskedBy(x) : x \in {s} \cup ToSet(t.members[s])}
      \ UNION {{c} \cup ToSet(t.members[c]) : c \in {s} \cup mates}) \cup mates

RECURSIVE Ordered(_, _, _)
Ordered(before, done, todo) ==
  LET ready == {s \in todo : before[s] \cap todo = {}}
      next  == CHOOSE s \in (IF ready = {} THEN todo ELSE ready) : TRUE
  IN IF todo = {} THEN done ELSE Ordered(before, Append(done, next), todo \ {next})

\* The nodes below n in the order of the menu.
RECURSIVE PreOrder(_, _)
PreOrder(t, n) ==
  FlattenSeq([i \in DOMAIN t.kids[n] |-> <<t.kids[n][i]>> \o PreOrder(t, t.kids[n][i])])

Indexed(t) ==
  LET nodes   == [s \in t.syms |-> SelectSeq([i \in DOMAIN t.raw |-> i], LAMBDA i : t.raw[i].sym = s)]
      Of(props) == [s \in t.syms |-> FlattenSeq([i \in DOMAIN nodes[s] |-> props[nodes[s][i]]])]
      choices == {t.raw[n].sym : n \in {m \in DOMAIN t.raw : IsChoice(t, m)}}
      before  == [s \in t.syms |-> Before(t, s)]
      asking  == UNION {{s} \X before[s] : s \in t.syms}
      Asks(s) == ReachesFrom(asking, {s})
      first   == Ordered(before, << >>, Asks(t.modules))
      all     == Ordered(before, first, t.syms \ ToSet(first))
      \* A choice may have to be calculated once more, see sym_calc_value.
      order   == FlattenSeq([i \in DOMAIN all |-> IF all[i] \in choices THEN <<all[i], all[i]>> ELSE <<all[i]>>])
  IN t @@ [ nodes      |-> nodes,
            prompts    |-> [s \in t.syms |-> {n \in ToSet(nodes[s]) : t.raw[n].prompt}],
            defaultsOf |-> Of(t.defaults),
            rangesOf   |-> Of(t.ranges),
            choices    |-> choices,
            order      |-> order,
            asks       |-> [s \in t.syms |-> SelectSeq(order, LAMBDA x : x \in Asks(s) \cup Asks(t.modules))],
            entries    |-> PreOrder(t, 0),
            looping    |-> RecursiveDependency(t) ]

\* conf_parse: the finished tree.
ConfParse(raw, consts, modules) == Indexed(Finalize(Parsed(raw, consts, modules), 0))
============================================================================
