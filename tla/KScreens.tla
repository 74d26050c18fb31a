------------------------------- MODULE KScreens -------------------------------
(***************************************************************************)
(* The other programs that show the menus: nconfig (nconf.c), gconfig      *)
(* (gconf.c) and xconfig (qconf.cc).  They share the symbols, the menus    *)
(* and the files with Kconfig and differ in what a key or a click does.    *)
(*                                                                         *)
(* nconf has mconf's menus, but the list of a choice (conf_choice) is a    *)
(* loop of its own in which the user can load, save and exit as in a menu: *)
(* ui.root is the choice whose list is open, 0 if none is.                 *)
(*                                                                         *)
(* The two window programs are modelled in their full view, where every    *)
(* visible entry has a row.  gconf keeps no name of a file: its save goes  *)
(* to .config.                                                             *)
(***************************************************************************)
EXTENDS Kconfig

CONSTANT ClicksUnanswered   \* does the user of gconf click on texts that have no answer?

Reading(p, view) == Start(p) /\ st' = view /\ prog' = p /\ ui' = Idle /\ UNCHANGED disk

\* The question whether to save, asked if something has changed, and the end of the program.
Leave(p) ==
  /\ prog = p
  /\ UNCHANGED <<t, order, plan, runs, keys>>
  /\ Quit

---------------------------------------------------------------------------
(* nconf *)

Nconf == Reading("nconf", View(Read("main"), 0))
InConf   == Pressed("nconf") /\ ui.root = 0
InChoice == Pressed("nconf") /\ ui.root # 0

\* build_conf makes the items build_conf of mconf.c makes.
Item(tags) == Entry(tags)

\* What is on the screen after a key: the list of the choice, or the menu.
Rebuilt(u) ==
  IF ui.root # 0 THEN Looked(t, CalcAll(t, u), ToSet(t.kids[ui.root])) ELSE View(u, At)

\* Enter or Right on a menu, or on a menuconfig symbol; Space only on a menu.
NOpenMenu ==
  /\ InConf
  /\ \E n \in {k \in Item({"m", "t"}) : t.raw[k].kind \in {"menu", "menuconfig"}} :
       st' = Drawn(st, n) /\ ui' = [ui EXCEPT !.at = Append(@, n)]
  /\ UNCHANGED disk

\* Left, or Esc, or F5 where it is not the main menu.
NBack ==
  /\ InConf /\ ui.at # << >>
  /\ st' = Drawn(st, IF Len(ui.at) = 1 THEN 0 ELSE ui.at[Len(ui.at) - 1])
  /\ ui' = [ui EXCEPT !.at = Front(@)]
  /\ UNCHANGED disk

\* Space, and Enter on what has no list, toggle; y takes m where it cannot have y.
NPress ==
  /\ InConf
  /\ \E n \in Item({"t"}) :
       \E v \in {NextValue(SymOf(t, n))} \cup {Takeable(SymOf(t, n), w) : w \in {no, mod, yes}} :
         CanSetTristate(t, st, SymOf(t, n), v) /\ Set(SetTristate(t, st, SymOf(t, n), v))

\* conf_choice: its list stays open until a member is taken or the user leaves it.
NOpenChoice ==
  /\ InConf
  /\ \E n \in {k \in Item({"t"}) : IsChoice(t, k) /\ st.val[SymOf(t, k)] = yes} :
       /\ st' = Looked(t, st, ToSet(t.kids[n]))
       /\ ui' = [ui EXCEPT !.root = n]
  /\ UNCHANGED disk

NTakeMember ==
  /\ InChoice
  /\ \E s \in {SymOf(t, k) : k \in ToSet(OnShow(ui.root))} \ {None} : st' = View(TakeMember(st, s), At)
  /\ ui' = [ui EXCEPT !.root = 0]
  /\ UNCHANGED disk

NLeaveChoice ==
  /\ InChoice
  /\ st' = Drawn(st, At)
  /\ ui' = [ui EXCEPT !.root = 0]
  /\ UNCHANGED disk

NEnterText ==
  /\ InConf
  /\ \E n \in Item({"s"}) :
       \E v \in {w \in Entries : StringWithinRange(t, st, SymOf(t, n), w)} : Set(SetString(st, SymOf(t, n), v))

\* F7 and F6, in a menu or in the list of a choice.
NLoad ==
  /\ Pressed("nconf")
  /\ \E file \in {"main", "alt"} :
       \/ /\ disk[file] # Absent
          /\ st' = Rebuilt([ConfRead(t, st, disk[file], order) EXCEPT !.changed = TRUE])
          /\ ui' = [ui EXCEPT !.file = file]
       \/ /\ Missing(file)
          /\ st' = Rebuilt([st EXCEPT !.changed = FALSE])
          /\ UNCHANGED ui
  /\ UNCHANGED disk

NSave ==
  /\ Pressed("nconf")
  /\ \E file \in {"main", "alt"} :
       /\ st' = Rebuilt([Recalc(t, st) EXCEPT !.changed = FALSE])
       /\ disk' = [disk EXCEPT ![file] = <<Lines(t, st', Written(t, st'))>>]
       /\ ui' = [ui EXCEPT !.file = file]

\* do_exit: Esc in the main menu, F9 anywhere.
NExit == Leave("nconf") /\ (UNCHANGED <<st, disk>> \/ (st.changed /\ Save(ui.file, st)))

---------------------------------------------------------------------------
(* gconf *)

\* display_tree and update_tree look at every entry of the main menu.
Shows(u) == Looked(t, CalcAll(t, u), DOMAIN t.raw)
Row(kinds) ==
  {n \in DOMAIN t.raw : /\ MenuVisible(t, st, n) /\ SymOf(t, n) # None
                        /\ (IF Tri(t, SymOf(t, n)) THEN "tri" ELSE "text") \in kinds}

Gconf == Reading("gconf", Shows(Read("main")))
Click == Pressed("gconf")

Redrawn(u) == st' = Shows(u) /\ UNCHANGED <<disk, ui>>

\* toggle_sym_value: also of a number or text, which then counts as answered; it
\* keeps the value it had calculated, but has no other answer than it had before.
Toggled(u, s) == IF Tri(t, s) THEN SetTristate(t, u, s, NextValue(s)) ELSE [u EXCEPT !.user = @ \cup {s}]
GToggle ==
  /\ Click
  /\ \E n \in Row({"tri", "text"}) :
       /\ Tri(t, SymOf(t, n)) \/ ClicksUnanswered \/ st.def[SymOf(t, n)] # Undefined
       /\ Redrawn(Toggled(st, SymOf(t, n)))

\* change_sym_value, a click in the columns N, M and Y: y where it cannot have the value.
Wanted(s, v) == IF TristateWithinRange(t, st, s, v) THEN v ELSE yes
GColumn ==
  /\ Click
  /\ \E n \in Row({"tri"}) :
       \E v \in {Wanted(SymOf(t, n), w) : w \in {no, mod, yes}} :
         CanSetTristate(t, st, SymOf(t, n), v) /\ Redrawn(SetTristate(t, st, SymOf(t, n), v))

\* renderer_edited
GEdit ==
  /\ Click
  /\ \E n \in Row({"text"}) :
       \E v \in {w \in Entries : StringWithinRange(t, st, SymOf(t, n), w)} : Redrawn(SetString(st, SymOf(t, n), v))

\* load_filename leaves conf_changed as conf_read has set it.
GLoad ==
  /\ Click
  /\ \E file \in {"main", "alt"} :
       \/ /\ disk[file] # Absent
          /\ st' = Shows(ConfRead(t, st, disk[file], order))
       \/ /\ Missing(file)
          /\ st' = [st EXCEPT !.changed = FALSE]
  /\ UNCHANGED <<disk, ui>>

\* Saving to .config is possible only while something has changed.
GSave   == Click /\ st.changed /\ Save("main", st) /\ UNCHANGED ui
GSaveAs == Click /\ (\E file \in {"main", "alt"} : Save(file, st)) /\ UNCHANGED ui
GClose == Leave("gconf") /\ (UNCHANGED <<st, disk>> \/ (st.changed /\ Save("main", st)))

---------------------------------------------------------------------------
(* qconf *)

Qconf == Reading("qconf", Shows(Read("main")))
Event == Pressed("qconf")

\* changeValue
QChange ==
  Event /\ \E n \in Row({"tri"}) : Redrawn(SetTristate(t, st, SymOf(t, n), NextValue(SymOf(t, n))))

\* setValue, the keys N, M and Y
QSet ==
  /\ Event
  /\ \E n \in Row({"tri"}), v \in {no, mod, yes} :
       CanSetTristate(t, st, SymOf(t, n), v) /\ Redrawn(SetTristate(t, st, SymOf(t, n), v))

\* createEditor and setModelData of the delegate
QEdit ==
  /\ Event
  /\ \E n \in Row({"text"}) :
       \E v \in {w \in Entries : StringWithinRange(t, st, SymOf(t, n), w)} : Redrawn(SetString(st, SymOf(t, n), v))

\* The name of the file is taken over even if it could not be read.
QLoad ==
  /\ Event
  /\ \E file \in {"main", "alt"} :
       /\ \/ disk[file] # Absent /\ st' = Shows(ConfRead(t, st, disk[file], order))
          \/ Missing(file) /\ st' = Shows([st EXCEPT !.changed = FALSE])
       /\ ui' = [ui EXCEPT !.file = file]
  /\ UNCHANGED disk

QSave == Event /\ st.changed /\ Save(ui.file, st) /\ UNCHANGED ui
QSaveAs == Event /\ \E file \in {"main", "alt"} : Save(file, st) /\ ui' = [ui EXCEPT !.file = file]
QClose == Leave("qconf") /\ (UNCHANGED <<st, disk>> \/ (st.changed /\ Save(ui.file, st)))

---------------------------------------------------------------------------
ScreensNext ==
  \/ Next
  \/ Nconf \/ NOpenMenu \/ NBack \/ NPress \/ NOpenChoice \/ NTakeMember \/ NLeaveChoice
  \/ NEnterText \/ NLoad \/ NSave \/ NExit
  \/ Gconf \/ GToggle \/ GColumn \/ GEdit \/ GLoad \/ GSave \/ GSaveAs \/ GClose
  \/ Qconf \/ QChange \/ QSet \/ QEdit \/ QLoad \/ QSave \/ QSaveAs \/ QClose

ScreensSpec == Init /\ [][ScreensNext]_vars
===============================================================================
