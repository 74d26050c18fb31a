-------------------------------- MODULE KSync --------------------------------
(***************************************************************************)
(* Configuration files and the build: how a change of .config reaches the  *)
(* objects compiled from it.  One program runs at a time, menuconfig       *)
(* (mconf) or the conf --syncconfig that make starts (sync); both write    *)
(* .config (conf_write) and then auto.conf, autoconf.h and the dependency  *)
(* files include/config/SYMBOL (conf_write_autoconf, confdata.c).  make    *)
(* compiles an object again when a dependency file that fixdep listed for  *)
(* it is newer (Kbuild.include).  Each step below is one system call's     *)
(* worth of change, and a crash may come between any two.                  *)
(*   kc        of each symbol: is it defined in the Kconfig files, gone    *)
(*             from them, or only mentioned in an expression there         *)
(*   config    .config;  backup .config.old;  tmp the file being written   *)
(*   auto      auto.conf, header autoconf.h                                *)
(*   fresh     is the stamp of the last sync newer than .config            *)
(*   outdated  objects older than one of their dependency files            *)
(*   built     what each object was compiled with                          *)
(*   proc, pc, mem, todo   the program, its step, the values it has, and   *)
(*             the symbols whose dependency files it has still to touch    *)
(*   saved     for the properties: the configuration saved last            *)
(***************************************************************************)
EXTENDS Naturals, FiniteSets

CONSTANTS
  Syms, Objects,
  Values, No,       \* values; No is not written to auto.conf
  New,              \* .config has no line for the symbol
  None,             \* the file is not there
  Words,            \* the words with CONFIG_ in the source of each object
  Removals,         \* how a symbol can leave the Kconfig files
  MayFail,          \* the programs a write may fail for
  MaxEdits, MaxCrashes, MaxFailures

Nothing  == [s \in Syms |-> New]
Contents == [Syms -> Values \cup {New}]

ASSUME NoAssumption   == No \in Values /\ New \notin Values
ASSUME NoneAssumption == None \notin Contents /\ None \notin [Syms -> Values]
ASSUME WordAssumption == Words \in [Objects -> SUBSET [inside : BOOLEAN, sym : Syms, module : BOOLEAN]]
ASSUME KindAssumption == Removals \subseteq {"gone", "mentioned"} /\ MayFail \subseteq {"mconf", "sync"}
ASSUME BoundAssumption == {MaxEdits, MaxCrashes, MaxFailures} \subseteq Nat

VARIABLES kc, config, backup, tmp, auto, header, fresh, outdated, built,
          proc, pc, mem, todo, saved, edits, crashes, failures

files  == <<config, backup, tmp, saved>>
output == <<auto, header, outdated>>
make   == <<fresh, built>>
bounds == <<edits, crashes, failures>>
vars   == <<kc, files, output, make, proc, pc, mem, todo, bounds>>

\* parse_config_file: CONFIG_ within a longer word is no use of a symbol, and
\* CONFIG_FOO_MODULE is one of FOO.
Uses(o) == {w.sym : w \in {v \in Words[o] : ~v.inside}}

\* The value auto.conf and autoconf.h give a symbol.
AutoValue(m)  == [s \in Syms |-> IF m[s] \in Values THEN m[s] ELSE No]
Old           == IF auto = None THEN [s \in Syms |-> No] ELSE auto

Init ==
  /\ kc \in [Syms -> {"defined", "gone"}]
  /\ config = None /\ backup = None /\ tmp = None /\ saved = None
  /\ auto = None /\ header = None
  /\ outdated = Objects /\ built = [o \in Objects |-> None]
  /\ fresh = FALSE
  /\ proc = "none" /\ pc = "off" /\ mem = Nothing /\ todo = {}
  /\ edits = 0 /\ crashes = 0 /\ failures = 0

---------------------------------------------------------------------------
(* The programs.                                                           *)

At(label) == proc # "none" /\ pc = label
Goto(label) == pc' = label /\ UNCHANGED proc

\* Symbols that are not defined have no value.
Configurations == {m \in Contents : \A s \in Syms : (m[s] = New) = (kc[s] # "defined")}

Start(p, m) == proc = "none" /\ proc' = p /\ pc' = "write" /\ mem' = m

\* The user saves what he likes.
StartMconf ==
  /\ edits < MaxEdits /\ edits' = edits + 1
  /\ \E m \in Configurations : Start("mconf", m)
  /\ UNCHANGED <<kc, files, output, make, todo, crashes, failures>>

\* make finds .config newer than the stamp.  Symbols that are new are asked for.
StartSync ==
  /\ config # None /\ ~fresh
  /\ \E m \in Configurations :
       /\ \A s \in Syms : kc[s] = "defined" /\ config[s] # New => m[s] = config[s]
       /\ Start("sync", m)
  /\ UNCHANGED <<kc, files, output, make, todo, bounds>>

\* conf_write
WriteTmp == At("write") /\ tmp' = mem /\ Goto("compare")
            /\ UNCHANGED <<kc, config, backup, saved, output, make, mem, todo, bounds>>

NoChange == At("compare") /\ tmp = config /\ tmp' = None /\ Goto("written")
            /\ UNCHANGED <<kc, config, backup, saved, output, make, mem, todo, bounds>>

\* Mutant: the old file is removed.
RemoveOld == At("compare") /\ tmp # config /\ config' = None /\ Goto("rename")
             /\ UNCHANGED <<kc, backup, tmp, saved, output, make, mem, todo, bounds>>

RenameOld == At("compare") /\ tmp # config /\ Goto("rename")
             /\ backup' = (IF config = None THEN backup ELSE config) /\ config' = None
             /\ UNCHANGED <<kc, tmp, saved, output, make, mem, todo, bounds>>

RenameNew == At("rename") /\ config' = tmp /\ tmp' = None /\ saved' = tmp /\ fresh' = FALSE /\ Goto("written")
             /\ UNCHANGED <<kc, backup, output, built, mem, todo, bounds>>

\* conf_write_autoconf: menuconfig only writes an auto.conf that is not there.
SkipAuto == At("written") /\ proc = "mconf" /\ auto # None /\ Goto("end")
            /\ UNCHANGED <<kc, files, output, make, mem, todo, bounds>>

\* conf_read_simple and conf_touch_deps: what auto.conf had and Kconfig no longer
\* has, and what has another value now.  A symbol that is still mentioned is found,
\* but has no type to read a value for.
Touched(s) == CASE kc[s] = "defined"   -> Old[s] # AutoValue(mem)[s]
                [] kc[s] = "gone"      -> Old[s] # No
                [] kc[s] = "mentioned" -> FALSE

\* Mutant: without what Kconfig no longer has.
ReadAutoDefined ==
  /\ At("written") /\ (proc = "sync" \/ auto = None) /\ Goto("touch")
  /\ todo' = {s \in Syms : kc[s] = "defined" /\ Touched(s)}
  /\ UNCHANGED <<kc, files, output, make, mem, bounds>>

ReadAuto ==
  /\ At("written") /\ (proc = "sync" \/ auto = None) /\ Goto("touch")
  /\ todo' = {s \in Syms : Touched(s)}
  /\ UNCHANGED <<kc, files, output, make, mem, bounds>>

TouchDep(s) ==
  /\ At("touch") /\ s \in todo
  /\ todo' = todo \ {s}
  /\ outdated' = outdated \cup {o \in Objects : s \in Uses(o)}
  /\ UNCHANGED <<kc, files, auto, header, make, proc, pc, mem, bounds>>

RenameHeader == At("touch") /\ todo = {} /\ header' = AutoValue(mem) /\ Goto("last")
                /\ UNCHANGED <<kc, files, auto, outdated, make, mem, todo, bounds>>

RenameAuto == At("last") /\ auto' = AutoValue(mem) /\ Goto("end")
              /\ UNCHANGED <<kc, files, header, outdated, make, mem, todo, bounds>>

\* Mutant: the stamp is touched only when there is something to compile.
EndIfOutdated ==
  /\ At("end") /\ proc' = "none" /\ pc' = "off" /\ mem' = Nothing /\ todo' = {}
  /\ fresh' = (fresh \/ (proc = "sync" /\ outdated # {}))
  /\ UNCHANGED <<kc, files, output, built, bounds>>

\* Whatever conf returned, make touches the stamp.
End ==
  /\ At("end") /\ proc' = "none" /\ pc' = "off" /\ mem' = Nothing /\ todo' = {}
  /\ fresh' = (fresh \/ proc = "sync")
  /\ UNCHANGED <<kc, files, output, built, bounds>>

---------------------------------------------------------------------------
(* Failures.                                                               *)

\* A file cannot be written or renamed: the program gives up.
Fail ==
  /\ proc \in MayFail /\ pc # "end" /\ failures < MaxFailures
  /\ failures' = failures + 1
  /\ Goto("end")
  /\ UNCHANGED <<kc, files, output, make, mem, todo, edits, crashes>>

\* The machine stops, make with it.
Crash ==
  /\ proc # "none" /\ crashes < MaxCrashes
  /\ crashes' = crashes + 1
  /\ proc' = "none" /\ pc' = "off" /\ mem' = Nothing /\ todo' = {}
  /\ UNCHANGED <<kc, files, output, make, edits, failures>>

---------------------------------------------------------------------------
(* The developer and make.                                                 *)

\* No rule of make depends on the Kconfig files.
EditKconfig ==
  /\ proc = "none" /\ edits < MaxEdits /\ edits' = edits + 1
  /\ \E s \in Syms, k \in {"defined"} \cup Removals : k # kc[s] /\ kc' = [kc EXCEPT ![s] = k]
  /\ UNCHANGED <<files, output, make, proc, pc, mem, todo, crashes, failures>>

\* if_changed_dep, once the configuration is in sync.
Compile(o) ==
  /\ proc = "none" /\ config # None /\ fresh /\ auto # None
  /\ o \in outdated
  /\ outdated' = outdated \ {o}
  /\ built' = [built EXCEPT ![o] = [s \in Uses(o) |-> header[s]]]
  /\ UNCHANGED <<kc, files, auto, header, fresh, proc, pc, mem, todo, bounds>>

---------------------------------------------------------------------------
Step == \/ WriteTmp \/ NoChange \/ RenameOld \/ RenameNew
        \/ SkipAuto \/ ReadAuto \/ (\E s \in Syms : TouchDep(s)) \/ RenameHeader \/ RenameAuto \/ End
Make == StartSync \/ \E o \in Objects : Compile(o)
Next == Step \/ Make \/ StartMconf \/ EditKconfig \/ Fail \/ Crash

\* A program that runs goes on, and make is run until it has nothing to do.
Spec == Init /\ [][Next]_vars /\ WF_vars(Step) /\ WF_vars(Make)
==============================================================================
