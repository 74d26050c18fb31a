------------------------------ MODULE MCKconfig ------------------------------
(***************************************************************************)
(* Kconfig files for TLC.                                                  *)
(***************************************************************************)
EXTENDS KconfigProps

S(s)      == <<"sym", s>>
And(e, f) == <<"and", <<e, f>>>>
Or(e, f)  == <<"or", <<e, f>>>>
Not(e)    == <<"not", e>>
Eq2(s, v) == <<"=", s, v>>
Ne2(s, v) == <<"!=", s, v>>

Blank == [kind |-> "config", up |-> 0, sym |-> None, type |-> "unk", prompt |-> FALSE, cond |-> NoExpr,
          dep |-> NoExpr, visible |-> NoExpr, defaults |-> << >>, ranges |-> << >>,
          selects |-> << >>, implies |-> << >>, optional |-> FALSE]
Config(s, type) == [Blank EXCEPT !.sym = s, !.type = type, !.prompt = TRUE]
Hidden(s, type) == [Blank EXCEPT !.sym = s, !.type = type]
Block(kind)     == [Blank EXCEPT !.kind = kind, !.prompt = kind # "if"]

Modules == Config("MODULES", "bool")
First   == {"conf", "mconf"}
Run(menu, p) == [menu EXCEPT !.runs = 1, !.progs = {p}]

\* Tristates that depend on, select and imply each other.
TriMenu ==
  [ stmts |-> << Modules,
                 Config("A", "tri"),
                 [Config("B", "tri") EXCEPT !.dep = S("A"), !.defaults = <<<<M, NoExpr>>>>],
                 [Config("C", "bool") EXCEPT !.dep = S("MODULES"), !.selects = <<<<"A", NoExpr>>>>],
                 [Hidden("D", "tri") EXCEPT !.defaults = <<<<S("B"), NoExpr>>>>] >>,
    modules |-> "MODULES", runs |-> 2, progs |-> First,
    configs |-> {Absent, << << <<"MODULES", yes>>, <<"A", mod>>, <<"B", mod>>, <<"D", mod>>, <<"GONE", yes>> >> >>} ]

\* An option that implies another, in a menu that is not always visible.
ImplyMenu ==
  [ stmts |-> << Modules,
                 [Config("A", "bool") EXCEPT !.implies = <<<<"B", NoExpr>>>>],
                 [Block("menu") EXCEPT !.visible = S("A")],
                 [Config("B", "tri") EXCEPT !.up = 3, !.dep = S("C")],
                 [Config("C", "tri") EXCEPT !.defaults = <<<<M, Eq2("A", "n")>>>>] >>,
    modules |-> "MODULES", runs |-> 1, progs |-> First,
    configs |-> {Absent} ]

\* Entries that mention, but do not all depend on, the entry before them.
ReachMenu ==
  [ stmts |-> << Config("K", "bool"),
                 [Config("A", "bool") EXCEPT !.dep = S("K")],
                 [Config("E", "bool") EXCEPT !.dep = Not(S("A"))],
                 [Hidden("H", "bool") EXCEPT !.dep = S("E"), !.defaults = <<<<Y, NoExpr>>>>],
                 [Config("L", "bool") EXCEPT !.dep = And(S("H"), S("K"))] >>,
    modules |-> "n", runs |-> 1, progs |-> First, configs |-> {Absent} ]

\* A choice of tristates, one of them with a dependency.
ChoiceMenu ==
  [ stmts |-> << Modules,
                 [Config("CH", "unk") EXCEPT !.kind = "choice", !.defaults = <<<<S("Q"), NoExpr>>>>],
                 [Config("P", "tri") EXCEPT !.up = 2],
                 [Config("Q", "tri") EXCEPT !.up = 2, !.dep = S("K")],
                 [Config("R", "bool") EXCEPT !.dep = S("P")],
                 Config("K", "bool") >>,
    modules |-> "MODULES", runs |-> 2, progs |-> First,
    configs |-> {Absent, << << <<"MODULES", yes>>, <<"P", mod>>, <<"K", yes>>, <<"Q", yes>> >> >>} ]

\* Numbers with a range and texts.
TextMenu ==
  [ stmts |-> << Config("F", "bool"),
                 [Config("G", "bool") EXCEPT !.kind = "menuconfig"],
                 [Config("I", "int") EXCEPT !.dep = S("F"), !.ranges = <<<<"1", "9", S("G")>>>>,
                                      !.defaults = <<<<S("3"), S("G")>>, <<S("12"), NoExpr>>>>],
                 [Hidden("J", "int") EXCEPT !.defaults = <<<<S("I"), NoExpr>>>>],
                 [Config("T", "str") EXCEPT !.up = 2, !.dep = S("G"), !.defaults = <<<<S("text"), NoExpr>>>>] >>,
    modules |-> "n", runs |-> 2, progs |-> First,
    configs |-> {Absent, << << <<"F", yes>>, <<"G", NotSet>>, <<"I", 12>>, <<"J", 12>> >> >>, << << <<"F", yes>> >> >>} ]

\* Symbols that ask for each other.
LoopMenu ==
  [ stmts |-> << [Config("A", "bool") EXCEPT !.dep = S("B")], [Config("B", "bool") EXCEPT !.dep = S("A")] >>,
    modules |-> "n", runs |-> 1, progs |-> First, configs |-> {Absent} ]

\* Conditions of every shape, over a tristate and a bool.
Tests == {S("A"), S("B"), M, Eq2("A", "y"), Eq2("A", "m"), Ne2("A", "n"), Ne2("B", "n"), Eq2("B", "n"),
          Eq2("A", "C"), Not(S("A")), Eq2("B", "m"), Not(Ne2("A", "y"))}
Conditions ==
  UNION {{And(e, f), Or(e, f), Not(And(e, f)), Not(Or(e, f)), And(Or(e, f), Or(f, S("C"))),
          Or(And(e, S("C")), Not(f))} : <<e, f>> \in Tests \X Tests}
CondMenu(e) ==
  [ stmts |-> << Modules, Config("A", "tri"), Config("B", "bool"), Config("C", "tri"),
                 [Block("if") EXCEPT !.dep = e],
                 [Config("X", "tri") EXCEPT !.up = 5],
                 [Config("Y", "bool") EXCEPT !.up = 5, !.dep = S("A"), !.cond = S("C")] >>,
    modules |-> "MODULES", runs |-> 0, progs |-> First, configs |-> {Absent} ]

\* A file whose number is out of a range that is in force, with a number calculated from it.
StaleMenu == [TextMenu EXCEPT !.configs = {<< << <<"F", yes>>, <<"G", yes>>, <<"I", 12>>, <<"J", 12>> >> >>}]

Trees(menus) == {[tree |-> ConfParse(m.stmts, {"text"}, m.modules), runs |-> m.runs, progs |-> m.progs, configs |-> m.configs] : m \in menus}
MCMenus ==
  LET all == {TriMenu, ImplyMenu, ReachMenu, ChoiceMenu, TextMenu, LoopMenu} \cup {CondMenu(e) : e \in Conditions}
             \cup {Run(ChoiceMenu, "nconf"), Run(TextMenu, "nconf"), Run(TriMenu, "gconf"), Run(TextMenu, "gconf"),
                   Run(ChoiceMenu, "gconf"), Run(ImplyMenu, "qconf"), Run(TextMenu, "qconf"), Run(ChoiceMenu, "qconf")}
  IN Trees(all)
StaleMenus == LET one == {StaleMenu} IN Trees(one)
MCNum == ("1" :> 1) @@ ("9" :> 9) @@ ("3" :> 3) @@ ("12" :> 12) @@ ("text" :> 100)
==============================================================================
