------------------------------- MODULE Kconfig -------------------------------
(***************************************************************************)
(* The configuration programs over one Kconfig file: conf with its modes   *)
(* (conf.c) and menuconfig (mconf.c), run one after the other on .config.  *)
(*   t      the finished menu tree                                         *)
(*   order  the order in which the hash table lists the symbols            *)
(*   st     the symbols of the running program                             *)
(*   disk   .config ("main"), another file of the user's ("alt") and the   *)
(*          file savedefconfig writes ("def")                              *)
(*   prog   shell, failed, ask (conf in an asking mode) or a program that  *)
(*          shows the menus: mconf, and those of KScreens                  *)
(*   ui     of menuconfig: the menus opened and the file to save to; of    *)
(*          conf: the agenda of check_conf and conf, conf_cnt, rootEntry,  *)
(*          and whether it is still in oldaskconfig                        *)
(*   runs, keys   the programs started, and what the user did in this one  *)
(*   plan   how many programs are run, and which                           *)
(* A menu has the tree of a Kconfig file, as ConfParse leaves it, the      *)
(* .config files to start from, and the programs that are run on it.       *)
(* Between two steps a program that shows or asks has calculated all.      *)
(***************************************************************************)
EXTENDS KConf

CONSTANTS
  Menus,
  Entries,           \* the numbers and texts a user enters
  LoadsMissing,      \* does the user try to load a file that is not there before saving?
  MaxKeys

VARIABLES t, order, plan, st, disk, prog, ui, runs, keys

vars == <<t, order, plan, st, disk, prog, ui, runs, keys>>

Idle == [file |-> "main", at |-> << >>, agenda |-> << >>, cnt |-> 0, root |-> 0, first |-> FALSE]

Init ==
  \E m \in Menus :
    /\ t = m.tree
    /\ LET buckets == FoldSet(LAMBDA s, q : Append(q, s), << >>, Hashed(t))
       IN order \in IF m.runs = 0 THEN {buckets} ELSE {buckets, Reverse(buckets)}
    /\ st = Fresh(t)
    /\ disk \in {[main |-> c, alt |-> Absent, def |-> Absent] : c \in m.configs}
    /\ prog = IF m.tree.looping THEN "failed" ELSE "shell"
    /\ ui = Idle
    /\ runs = 0
    /\ plan = [runs |-> m.runs, progs |-> m.progs]
    /\ keys = 0

\* conf_write, after which nothing has changed.
Save(file, u) ==
  /\ st' = [Recalc(t, u) EXCEPT !.changed = FALSE]
  /\ disk' = [disk EXCEPT ![file] = <<Lines(t, st', Written(t, st'))>>]

Start(p) == prog = "shell" /\ p \in plan.progs /\ runs < plan.runs /\ runs' = runs + 1 /\ keys' = 0 /\ UNCHANGED <<t, order, plan>>
Read(file) == ConfRead(t, Fresh(t), disk[file], order)
Quit == prog' = "shell" /\ ui' = Idle

---------------------------------------------------------------------------
(* The modes of conf that do not ask.                                      *)

OldDefConfig == Start("conf") /\ Save("main", Read("main")) /\ Quit

AllConfig ==
  \E mode \in {"yes", "mod", "no", "default"} :
    Start("conf") /\ Save("main", SetAllNew(t, Fresh(t), mode, order, << >>, << >>)) /\ Quit

RandConfig ==
  \E v \in {no, mod, yes}, s \in Hashed(t) :
    LET rnd   == [x \in t.syms |-> IF x = s THEN v ELSE yes]
        picks == [x \in t.choices |-> IF s \in ToSet(t.members[x]) THEN s ELSE t.members[x][1]]
    IN Start("conf") /\ Save("main", RandomPass(t, Fresh(t), order, rnd, picks)) /\ Quit

\* yes2modconfig and mod2yesconfig
RewriteConfig ==
  \E v \in {<<yes, mod>>, <<mod, yes>>} :
    Start("conf") /\ Save("main", Rewrite(t, Read("main"), v[1], v[2])) /\ Quit

SaveDefConfig ==
  /\ Start("conf")
  /\ st' = CalcAll(t, ClearAllValid(Read("main")))
  /\ disk' = [disk EXCEPT !.def = <<DefconfigLines(t, st')>>]
  /\ Quit

DefConfig ==
  /\ disk.def # Absent
  /\ Start("conf")
  /\ Save("main", SetAllNew(t, Read("def"), "default", order, << >>, << >>))
  /\ Quit

---------------------------------------------------------------------------
(* conf asking: check_conf looks for new symbols, conf asks for the        *)
(* entries of a menu.  The agenda holds what is left to do of both.        *)

AskConfig ==
  /\ Start("conf")
  /\ st' = CalcAll(t, Read("main"))
  /\ prog' = "ask"
  /\ \E old \in BOOLEAN : ui' = [Idle EXCEPT !.agenda = <<IF old THEN <<"check", 0>> ELSE <<"conf", 0>> >>,
                                            !.first = ~old]
  /\ UNCHANGED disk

Todo(kind, nodes) == [i \in DOMAIN nodes |-> <<kind, nodes[i]>>]
HasMenuPrompt(n)  == n = 0 \/ (t.raw[n].prompt /\ t.raw[n].kind \in {"menu", "menuconfig"})

RECURSIVE ParentMenu(_)
ParentMenu(n) == IF HasMenuPrompt(n) THEN n ELSE ParentMenu(t.up[n])

Doing(kind) == prog = "ask" /\ ui.agenda # << >> /\ Head(ui.agenda)[1] = kind
Node == Head(ui.agenda)[2]
Left == Tail(ui.agenda)

Went(u, agenda) ==
  st' = u /\ ui' = [ui EXCEPT !.agenda = agenda] /\ UNCHANGED <<t, order, plan, disk, prog, runs, keys>>

\* An entry without an answer that could have one.
New(u, s) == s \notin u.user /\ (Changeable(u, s) \/ (Choice(t, s) /\ u.val[s] = yes))

CheckConf ==
  LET u    == Looked(t, st, {Node})
      kids == Todo("check", t.kids[Node])
      root == ParentMenu(Node)
  IN /\ Doing("check")
     /\ CASE ~MenuVisible(t, st, Node) -> Went(u, Left)
          [] SymOf(t, Node) = None \/ ~New(u, SymOf(t, Node)) -> Went(u, kids \o Left)
          [] OTHER -> /\ st' = u
                      /\ ui' = [ui EXCEPT !.cnt = 1, !.root = root,
                                          !.agenda = <<<<"conf", root>>>> \o kids \o Left]
                      /\ UNCHANGED <<t, order, plan, disk, prog, runs, keys>>

\* conf: a menu other than the one asked for is only checked for new symbols.
ConfMenu ==
  LET u    == Looked(t, st, {Node})
      s    == SymOf(t, Node)
      kids == Todo("conf", t.kids[Node])
  IN /\ Doing("conf")
     /\ Went(u, (CASE ~MenuVisible(t, st, Node) -> << >>
                   [] HasMenuPrompt(Node) /\ ~ui.first /\ ui.root # Node -> <<<<"check", Node>>>>
                   [] s = None     -> kids
                   [] Choice(t, s) -> <<<<"choice", Node, s \in u.user>>, <<"members", Node>>>>
                   [] Tri(t, s)    -> <<<<"tri", Node>>>> \o kids
                   [] OTHER        -> <<<<"text", Node>>>> \o kids) \o Left)

\* conf_askvalue: is there a question at all?
Asks(s) == Changeable(st, s) /\ (ui.first \/ s \notin st.user)

\* What the user may answer to conf_sym; Enter is the value it has.
Tristates(s) == {v \in {no, mod, yes} : CanSetTristate(t, st, s, v)}

Answered == keys < MaxKeys /\ keys' = keys + 1 /\ UNCHANGED <<t, order, plan, disk, prog, runs>>

ConfSym ==
  LET s == SymOf(t, Node)
  IN /\ Doing("tri")
     /\ IF ~Asks(s) THEN Went(st, Left)
        ELSE \E v \in Tristates(s) :
               Answered /\ st' = CalcAll(t, SetTristate(t, st, s, v)) /\ ui' = [ui EXCEPT !.agenda = Left]

ConfString ==
  LET s == SymOf(t, Node)
  IN /\ Doing("text")
     /\ IF ~Asks(s) THEN Went(st, Left)
        ELSE \E v \in {w \in Entries \cup {st.val[s]} : StringWithinRange(t, st, s, w)} :
               Answered /\ st' = CalcAll(t, SetString(st, s, v)) /\ ui' = [ui EXCEPT !.agenda = Left]

\* conf_choice asks for the value of the choice, then for the member.
ConfChoice ==
  LET s == SymOf(t, Node)
      next(v) == (IF v = yes THEN <<<<"pick", Node, Head(ui.agenda)[3]>>>> ELSE << >>) \o Left
  IN /\ Doing("choice")
     /\ IF ~Asks(s) THEN Went(st, next(st.val[s]))
        ELSE \E v \in Tristates(s) :
               /\ Answered
               /\ st' = CalcAll(t, SetTristate(t, st, s, v))
               /\ ui' = [ui EXCEPT !.agenda = next(st'.val[s])]

\* The members on show.
OnShow(n) == SelectSeq(t.kids[n], LAMBDA k : MenuVisible(t, st, k))
TakeMember(u, s) == IF CanSetTristate(t, u, s, yes) THEN CalcAll(t, SetTristate(t, u, s, yes)) ELSE u

PickMember ==
  LET seen == SelectSeq(OnShow(Node), LAMBDA k : SymOf(t, k) # None)
      def  == SelectSeq(seen, LAMBDA k : SymOf(t, k) = st.pick[SymOf(t, Node)])
      free == Len(seen) > 1 /\ (ui.first \/ ~Head(ui.agenda)[3])
  IN /\ Doing("pick")
     /\ IF free THEN Answered ELSE UNCHANGED <<t, order, plan, disk, prog, runs, keys>>
     /\ \E k \in IF free THEN ToSet(seen) ELSE {IF Len(seen) = 1 THEN seen[1] ELSE def[1]} :
          /\ st' = TakeMember(Looked(t, st, ToSet(t.kids[Node])), SymOf(t, k))
          /\ ui' = [ui EXCEPT !.agenda = Todo("conf", t.kids[k]) \o Left]

\* After a choice only the members of one that is 'm' are asked for one by one.
ConfMembers ==
  /\ Doing("members")
  /\ Went(st, (IF st.val[SymOf(t, Node)] = mod THEN Todo("conf", t.kids[Node]) ELSE << >>) \o Left)

\* Until a pass has asked nothing.
AskAgain ==
  /\ prog = "ask" /\ ui.agenda = << >> /\ (ui.first \/ ui.cnt > 0)
  /\ ui' = [ui EXCEPT !.agenda = <<<<"check", 0>>>>, !.cnt = 0, !.first = FALSE]
  /\ UNCHANGED <<t, order, plan, st, disk, prog, runs, keys>>

AskDone ==
  /\ prog = "ask" /\ ui.agenda = << >> /\ ~ui.first /\ ui.cnt = 0
  /\ Save("main", st)
  /\ Quit
  /\ UNCHANGED <<t, order, plan, runs, keys>>

---------------------------------------------------------------------------
(* menuconfig: a trail of opened menus.  Every key ends in building the    *)
(* items of the menu anew, which calculates what they show.                *)

\* The entries build_conf comes to in menu cur, at and below n: it stops at other menus,
\* and of a choice that is y it goes on with the member that is chosen.
DefaultsOf(f, n) == SelectSeq(t.kids[n], LAMBDA k : SymOf(t, k) = f.pick[SymOf(t, n)] /\ MenuVisible(t, f, k))
Beyond(f, n) == IF t.kids[Last(DefaultsOf(f, n))] = << >> THEN {} ELSE {Last(DefaultsOf(f, n))}
GoesOn(f, cur, n) ==
  CASE ~MenuVisible(t, f, n) -> {}
    [] n = cur -> ToSet(t.kids[n])
    [] SymOf(t, n) = None \/ t.raw[n].kind = "menuconfig" -> {}
    [] IsChoice(t, n) /\ f.val[SymOf(t, n)] = yes -> IF DefaultsOf(f, n) = << >> THEN {} ELSE Beyond(f, n)
    [] OTHER -> ToSet(t.kids[n])

RECURSIVE Walk(_, _, _)
Walk(f, cur, n) == {n} \cup UNION {Walk(f, cur, k) : k \in GoesOn(f, cur, n)}

\* Building the items also looks at the members of a choice and below a menuconfig.
Seen(f, walked) ==
  walked \cup UNION {ToSet(t.kids[n]) :
                     n \in {k \in walked \ {0} : t.raw[k].kind \in {"choice", "menuconfig"} /\ MenuVisible(t, f, k)}}
Drawn(f, n) == Looked(t, f, Seen(f, Walk(f, n, n)))
View(u, n)  == Drawn(CalcAll(t, u), n)

\* What the user can do with an entry: open a menu, set a tristate or a text, or nothing.
Tag(s, n) ==
  CASE s = None -> IF t.raw[n].kind = "menu" THEN "m" ELSE ":"
    [] Choice(t, s) -> IF Changeable(st, s) \/ DefaultsOf(st, n) # << >> THEN "t" ELSE ":"
    [] Member(t, s) /\ st.val[s] = yes -> ":"
    [] Tri(t, s) -> "t"
    [] OTHER -> "s"

At == IF ui.at = << >> THEN 0 ELSE Last(ui.at)
Entry(tags) ==
  {n \in Walk(st, At, At) \ {At} : MenuVisible(t, st, n) /\ Tag(SymOf(t, n), n) \in tags}

MenuConfig ==
  /\ Start("mconf")
  /\ st' = View(Read("main"), 0)
  /\ prog' = "mconf"
  /\ ui' = Idle
  /\ UNCHANGED disk

Pressed(p) == prog = p /\ keys < MaxKeys /\ keys' = keys + 1 /\ UNCHANGED <<t, order, plan, prog, runs>>
Key == Pressed("mconf")
Set(u) == st' = View(u, At) /\ UNCHANGED <<disk, ui>>

\* Select on a menu, or on a menuconfig symbol.
OpenMenu ==
  /\ Key
  /\ \E n \in {k \in Entry({"m", "t"}) : t.raw[k].kind \in {"menu", "menuconfig"}} :
       st' = Drawn(st, n) /\ ui' = [ui EXCEPT !.at = Append(@, n)]
  /\ UNCHANGED disk

CloseMenu ==
  /\ Key /\ ui.at # << >>
  /\ st' = Drawn(st, IF Len(ui.at) = 1 THEN 0 ELSE ui.at[Len(ui.at) - 1])
  /\ ui' = [ui EXCEPT !.at = Front(@)]
  /\ UNCHANGED disk

\* The keys y (which takes m where it cannot have y), n and m, and the space bar: the
\* next value that can be set, in the order n, m, y.
Takeable(s, v) == IF v = yes /\ ~CanSetTristate(t, st, s, yes) THEN mod ELSE v
NextValue(s) ==
  LET Nth(i) == (st.val[s] + i) % 3
  IN Nth(CHOOSE k \in 1..3 : CanSetTristate(t, st, s, Nth(k)) /\ \A j \in 1..(k - 1) : ~CanSetTristate(t, st, s, Nth(j)))

PressTristate ==
  /\ Key
  /\ \E n \in Entry({"t"}) :
       \E v \in {Takeable(SymOf(t, n), w) : w \in {no, mod, yes}} \cup {NextValue(SymOf(t, n))} :
         CanSetTristate(t, st, SymOf(t, n), v) /\ Set(SetTristate(t, st, SymOf(t, n), v))

\* conf_choice: the list of the members on show.
SelectMember ==
  /\ Key
  /\ \E n \in {k \in Entry({"t"}) : IsChoice(t, k) /\ st.val[SymOf(t, k)] = yes} :
       \E s \in {SymOf(t, k) : k \in ToSet(OnShow(n))} \ {None} :
         CanSetTristate(t, st, s, yes) /\ Set(SetTristate(t, Looked(t, st, ToSet(t.kids[n])), s, yes))

EnterText ==
  /\ Key
  /\ \E n \in Entry({"s"}) :
       \E v \in {w \in Entries : StringWithinRange(t, st, SymOf(t, n), w)} : Set(SetString(st, SymOf(t, n), v))

\* conf_read of a file that is not there has cleared conf_changed before it fails.
Missing(file) == disk[file] = Absent /\ (LoadsMissing \/ ~st.changed)
LoadFile ==
  /\ Key
  /\ \E file \in {"main", "alt"} :
       \/ /\ disk[file] # Absent
          /\ st' = View([ConfRead(t, st, disk[file], order) EXCEPT !.changed = TRUE], At)
          /\ ui' = [ui EXCEPT !.file = file]
       \/ /\ Missing(file)
          /\ st' = Drawn([st EXCEPT !.changed = FALSE], At)
          /\ UNCHANGED ui
  /\ UNCHANGED disk

SaveFile ==
  /\ Key
  /\ \E file \in {"main", "alt"} :
       /\ st' = Drawn([Recalc(t, st) EXCEPT !.changed = FALSE], At)
       /\ disk' = [disk EXCEPT ![file] = <<Lines(t, st', Written(t, st'))>>]
       /\ ui' = [ui EXCEPT !.file = file]

\* handle_exit, also on an interrupt, asks whether to save if something has changed.
Exit ==
  /\ prog = "mconf"
  /\ \/ st.changed /\ Save(ui.file, st)
     \/ UNCHANGED <<st, disk>>
  /\ Quit
  /\ UNCHANGED <<t, order, plan, runs, keys>>

---------------------------------------------------------------------------
Next ==
  \/ OldDefConfig \/ AllConfig \/ RandConfig \/ RewriteConfig \/ SaveDefConfig \/ DefConfig
  \/ AskConfig \/ CheckConf \/ ConfMenu \/ ConfSym \/ ConfString \/ ConfChoice
  \/ PickMember \/ ConfMembers \/ AskAgain \/ AskDone
  \/ MenuConfig \/ OpenMenu \/ CloseMenu \/ PressTristate \/ SelectMember
  \/ EnterText \/ LoadFile \/ SaveFile \/ Exit

Spec == Init /\ [][Next]_vars
==============================================================================
