----------------------------- MODULE KSyncProofs -----------------------------
(***************************************************************************)
(* Proofs of KSync's safety properties for every set of symbols, objects   *)
(* and values and every number of edits, crashes and failed writes.  What  *)
(* is compiled is current from two facts of the environment: conf          *)
(* --syncconfig is not let fail, and a symbol that leaves the Kconfig      *)
(* files leaves their expressions too.  ConfigKept needs neither.          *)
(***************************************************************************)
EXTENDS KSyncProps, TLAPS

\* No symbol is left in expressions only, and a program has no value for a symbol
\* that is not defined.
KindsInv ==
  /\ \A s \in Syms : kc[s] # "mentioned"
  /\ proc # "none" => \A s \in Syms : kc[s] # "defined" => mem[s] = New

\* The temporary file holds what the program writes, and sync has saved it when it
\* reads auto.conf.
SaveInv ==
  /\ proc # "none" /\ pc \in {"compare", "rename"} => tmp = mem
  /\ proc = "sync" /\ pc \in {"written", "touch", "last", "end"} => config = mem

\* What was saved last is .config, or .config.old when that is away.
KeptInv ==
  /\ config # None => config = saved
  /\ config = None /\ saved # None => saved = backup

\* The stamp is older than .config while sync runs and while anything is written, and
\* else newer only than an auto.conf that says what .config says.
StampInv ==
  /\ fresh => auto # None /\ header = auto /\ proc # "sync"
  /\ fresh /\ config # None => auto = AutoValue(config)
  /\ proc = "mconf" /\ pc \in {"touch", "last"} => auto = None
  /\ pc \in {"touch", "last"} => ~fresh
  /\ pc = "last" => header = AutoValue(mem)
  /\ proc = "sync" /\ pc = "end" => auto = AutoValue(mem) /\ header = auto

\* The objects up to date were compiled with auto.conf as it is, and use no symbol
\* that is about to change and whose dependency file has been dealt with.
BuiltInv ==
  \A o \in Objects \ outdated :
    /\ auto # None
    /\ \A s \in Uses(o) : built[o][s] = auto[s]
    /\ pc = "touch" => \A s \in Uses(o) : s \notin todo => auto[s] = AutoValue(mem)[s]
    /\ pc = "last" => \A s \in Uses(o) : auto[s] = AutoValue(mem)[s]

SyncInv == SyncTypeOK /\ KindsInv /\ SaveInv /\ StampInv /\ BuiltInv

---------------------------------------------------------------------------
(* The values and the kinds.                                               *)

LEMMA AutoValueType == \A m \in Contents : AutoValue(m) \in [Syms -> Values] /\ AutoValue(m) # None
BY NoAssumption, NoneAssumption DEF AutoValue, Contents

LEMMA UsesType == \A o \in Objects : Uses(o) \subseteq Syms
BY WordAssumption DEF Uses

LEMMA NothingType == Nothing \in Contents
BY DEF Nothing, Contents

\* A symbol that is not touched keeps its value in auto.conf.
LEMMA UntouchedKept ==
  ASSUME SyncInv, proc # "none", auto # None, NEW s \in Syms, ~Touched(s)
  PROVE  auto[s] = AutoValue(mem)[s]
<1>1. kc[s] \in {"defined", "gone"} BY DEF SyncInv, KindsInv, SyncTypeOK
<1>2. CASE kc[s] = "defined" BY <1>2 DEF Touched, Old
<1>3. CASE kc[s] = "gone"
  <2>1. mem[s] = New BY <1>3 DEF SyncInv, KindsInv
  <2>2. AutoValue(mem)[s] = No BY <2>1, NoAssumption DEF AutoValue
  <2>3. auto[s] = No BY <1>3 DEF Touched, Old
  <2> QED BY <2>2, <2>3
<1> QED BY <1>1, <1>2, <1>3

---------------------------------------------------------------------------
(* Each action keeps the invariant.                                        *)

LEMMA SyncInvInit == Init => SyncInv
<1> SUFFICES ASSUME Init PROVE SyncInv OBVIOUS
<1>1. SyncTypeOK BY NothingType DEF Init, SyncTypeOK
<1>2. KindsInv /\ SaveInv /\ StampInv /\ BuiltInv
  BY DEF Init, KindsInv, SaveInv, StampInv, BuiltInv
<1> QED BY <1>1, <1>2 DEF SyncInv

USE DEF SyncInv, At, Goto, files, output, make, bounds

LEMMA StartMconfKeeps == ASSUME SyncInv, StartMconf PROVE SyncInv'
<1>1. SyncTypeOK' BY BoundAssumption DEF StartMconf, SyncTypeOK, Start, Configurations
<1>2. KindsInv' BY DEF StartMconf, KindsInv, Start, Configurations
<1>3. SaveInv' BY DEF StartMconf, SyncTypeOK, SaveInv, Start, Configurations
<1>4. StampInv' BY DEF StartMconf, SyncTypeOK, StampInv, Start, Configurations
<1>5. BuiltInv' BY DEF StartMconf, SyncTypeOK, BuiltInv, Start, Configurations
<1> QED BY <1>1, <1>2, <1>3, <1>4, <1>5

LEMMA StartSyncKeeps == ASSUME SyncInv, StartSync PROVE SyncInv'
<1>1. SyncTypeOK' BY DEF StartSync, SyncTypeOK, Start, Configurations
<1>2. KindsInv' BY DEF StartSync, KindsInv, Start, Configurations
<1>3. SaveInv' BY DEF StartSync, SyncTypeOK, SaveInv, Start, Configurations
<1>4. StampInv' BY DEF StartSync, SyncTypeOK, StampInv, Start, Configurations
<1>5. BuiltInv' BY DEF StartSync, SyncTypeOK, BuiltInv, Start, Configurations
<1> QED BY <1>1, <1>2, <1>3, <1>4, <1>5

LEMMA WriteTmpKeeps == ASSUME SyncInv, WriteTmp PROVE SyncInv'
<1>1. SyncTypeOK' BY DEF WriteTmp, SyncTypeOK
<1>2. KindsInv' BY DEF WriteTmp, KindsInv
<1>3. SaveInv' BY DEF WriteTmp, SyncTypeOK, SaveInv
<1>4. StampInv' BY DEF WriteTmp, SyncTypeOK, StampInv
<1>5. BuiltInv' BY DEF WriteTmp, SyncTypeOK, BuiltInv
<1> QED BY <1>1, <1>2, <1>3, <1>4, <1>5

LEMMA NoChangeKeeps == ASSUME SyncInv, NoChange PROVE SyncInv'
<1>1. SyncTypeOK' BY DEF NoChange, SyncTypeOK
<1>2. KindsInv' BY DEF NoChange, KindsInv
<1>3. SaveInv' BY DEF NoChange, SyncTypeOK, SaveInv
<1>4. StampInv' BY DEF NoChange, SyncTypeOK, StampInv
<1>5. BuiltInv' BY DEF NoChange, SyncTypeOK, BuiltInv
<1> QED BY <1>1, <1>2, <1>3, <1>4, <1>5

LEMMA RenameOldKeeps == ASSUME SyncInv, RenameOld PROVE SyncInv'
<1>1. SyncTypeOK' BY DEF RenameOld, SyncTypeOK
<1>2. KindsInv' BY DEF RenameOld, KindsInv
<1>3. SaveInv' BY DEF RenameOld, SyncTypeOK, SaveInv
<1>4. StampInv' BY DEF RenameOld, SyncTypeOK, StampInv
<1>5. BuiltInv' BY DEF RenameOld, SyncTypeOK, BuiltInv
<1> QED BY <1>1, <1>2, <1>3, <1>4, <1>5

LEMMA RenameNewKeeps == ASSUME SyncInv, RenameNew PROVE SyncInv'
<1>1. SyncTypeOK' BY DEF RenameNew, SyncTypeOK
<1>2. KindsInv' BY DEF RenameNew, KindsInv
<1>3. SaveInv' BY DEF RenameNew, SyncTypeOK, SaveInv
<1>4. StampInv' BY DEF RenameNew, SyncTypeOK, StampInv
<1>5. BuiltInv' BY DEF RenameNew, SyncTypeOK, BuiltInv
<1> QED BY <1>1, <1>2, <1>3, <1>4, <1>5

LEMMA SkipAutoKeeps == ASSUME SyncInv, SkipAuto PROVE SyncInv'
<1>1. SyncTypeOK' BY DEF SkipAuto, SyncTypeOK
<1>2. KindsInv' BY DEF SkipAuto, KindsInv
<1>3. SaveInv' BY DEF SkipAuto, SyncTypeOK, SaveInv
<1>4. StampInv' BY DEF SkipAuto, SyncTypeOK, StampInv
<1>5. BuiltInv' BY DEF SkipAuto, SyncTypeOK, BuiltInv
<1> QED BY <1>1, <1>2, <1>3, <1>4, <1>5

LEMMA ReadAutoKeeps == ASSUME SyncInv, ReadAuto PROVE SyncInv'
<1>1. SyncTypeOK' BY DEF ReadAuto, SyncTypeOK
<1>2. KindsInv' BY DEF ReadAuto, KindsInv
<1>3. SaveInv' BY DEF ReadAuto, SyncTypeOK, SaveInv
<1>4. StampInv' BY DEF ReadAuto, SyncTypeOK, StampInv
<1>5. BuiltInv'
  <2> SUFFICES ASSUME NEW o \in Objects \ outdated, NEW s \in Uses(o), s \notin todo'
               PROVE  auto[s] = AutoValue(mem)[s]
    BY DEF ReadAuto, BuiltInv
  <2>1. s \in Syms /\ ~Touched(s) BY UsesType DEF ReadAuto
  <2>2. auto # None BY DEF BuiltInv
  <2> QED BY <2>1, <2>2, UntouchedKept DEF ReadAuto
<1> QED BY <1>1, <1>2, <1>3, <1>4, <1>5

LEMMA TouchDepKeeps == ASSUME NEW s \in Syms, SyncInv, TouchDep(s) PROVE SyncInv'
<1>1. SyncTypeOK' BY DEF TouchDep, SyncTypeOK
<1>2. KindsInv' BY DEF TouchDep, KindsInv
<1>3. SaveInv' BY DEF TouchDep, SyncTypeOK, SaveInv
<1>4. StampInv' BY DEF TouchDep, SyncTypeOK, StampInv
<1>5. BuiltInv'
  <2>1. \A o \in Objects \ outdated' : o \in Objects \ outdated /\ s \notin Uses(o)
    BY DEF TouchDep
  <2>2. auto' = auto /\ built' = built /\ pc' = pc /\ mem' = mem /\ todo' = todo \ {s} /\ pc = "touch"
    BY DEF TouchDep
  <2> QED BY <2>1, <2>2 DEF BuiltInv, Uses, AutoValue
<1> QED BY <1>1, <1>2, <1>3, <1>4, <1>5

LEMMA RenameHeaderKeeps == ASSUME SyncInv, RenameHeader PROVE SyncInv'
<1>1. SyncTypeOK' BY AutoValueType DEF RenameHeader, SyncTypeOK
<1>2. KindsInv' BY DEF RenameHeader, KindsInv
<1>3. SaveInv' BY DEF RenameHeader, SyncTypeOK, SaveInv
<1>4. StampInv' BY DEF RenameHeader, SyncTypeOK, StampInv
<1>5. BuiltInv' BY DEF RenameHeader, SyncTypeOK, BuiltInv
<1> QED BY <1>1, <1>2, <1>3, <1>4, <1>5

LEMMA RenameAutoKeeps == ASSUME SyncInv, RenameAuto PROVE SyncInv'
<1>1. SyncTypeOK' BY AutoValueType DEF RenameAuto, SyncTypeOK
<1>2. KindsInv' BY DEF RenameAuto, KindsInv
<1>3. SaveInv' BY DEF RenameAuto, SyncTypeOK, SaveInv
<1>4. StampInv' BY DEF RenameAuto, SyncTypeOK, StampInv
<1>5. BuiltInv'
  <2>1. AutoValue(mem) # None BY AutoValueType DEF SyncTypeOK
  <2>2. \A o \in Objects \ outdated : \A s \in Uses(o) : built[o][s] = AutoValue(mem)[s]
    BY DEF RenameAuto, BuiltInv
  <2>3. auto' = AutoValue(mem) /\ pc' = "end" /\ UNCHANGED <<outdated, built>>
    BY DEF RenameAuto
  <2> QED BY <2>1, <2>2, <2>3 DEF BuiltInv, Uses
<1> QED BY <1>1, <1>2, <1>3, <1>4, <1>5

LEMMA EndKeeps == ASSUME SyncInv, End PROVE SyncInv'
<1>1. SyncTypeOK' BY NothingType DEF End, SyncTypeOK
<1>2. KindsInv' BY DEF End, KindsInv
<1>3. SaveInv' BY DEF End, SyncTypeOK, SaveInv
<1>4. StampInv' BY AutoValueType DEF End, SyncTypeOK, StampInv, SaveInv
<1>5. BuiltInv' BY DEF End, SyncTypeOK, BuiltInv
<1> QED BY <1>1, <1>2, <1>3, <1>4, <1>5

LEMMA FailKeeps == ASSUME "sync" \notin MayFail, SyncInv, Fail PROVE SyncInv'
<1>1. SyncTypeOK' BY BoundAssumption, KindAssumption DEF Fail, SyncTypeOK
<1>2. KindsInv' BY DEF Fail, KindsInv
<1>3. SaveInv' BY DEF Fail, SyncTypeOK, SaveInv
<1>4. StampInv' BY KindAssumption DEF Fail, SyncTypeOK, StampInv
<1>5. BuiltInv' BY DEF Fail, SyncTypeOK, BuiltInv
<1> QED BY <1>1, <1>2, <1>3, <1>4, <1>5

LEMMA CrashKeeps == ASSUME SyncInv, Crash PROVE SyncInv'
<1>1. SyncTypeOK' BY NothingType, BoundAssumption DEF Crash, SyncTypeOK
<1>2. KindsInv' BY DEF Crash, KindsInv
<1>3. SaveInv' BY DEF Crash, SyncTypeOK, SaveInv
<1>4. StampInv' BY DEF Crash, SyncTypeOK, StampInv
<1>5. BuiltInv' BY DEF Crash, SyncTypeOK, BuiltInv
<1> QED BY <1>1, <1>2, <1>3, <1>4, <1>5

LEMMA EditKconfigKeeps == ASSUME "mentioned" \notin Removals, SyncInv, EditKconfig PROVE SyncInv'
<1>1. SyncTypeOK' BY BoundAssumption, KindAssumption DEF EditKconfig, SyncTypeOK
<1>2. KindsInv' BY KindAssumption DEF EditKconfig, KindsInv, SyncTypeOK
<1>3. SaveInv' BY DEF EditKconfig, SyncTypeOK, SaveInv
<1>4. StampInv' BY DEF EditKconfig, SyncTypeOK, StampInv
<1>5. BuiltInv' BY DEF EditKconfig, SyncTypeOK, BuiltInv
<1> QED BY <1>1, <1>2, <1>3, <1>4, <1>5

LEMMA CompileKeeps == ASSUME NEW o \in Objects, SyncInv, Compile(o) PROVE SyncInv'
<1>1. SyncTypeOK'
  <2>1. header \in [Syms -> Values] BY DEF Compile, StampInv, SyncTypeOK
  <2> DEFINE now == [s \in Uses(o) |-> header[s]]
  <2>2. now \in [Uses(o) -> Values] BY <2>1, UsesType
  <2>3. built' = [built EXCEPT ![o] = now] /\ outdated' = outdated \ {o}
    BY DEF Compile
  <2> HIDE DEF now
  <2>4. \A p \in Objects \ outdated' : built'[p] \in [Uses(p) -> Values]
    BY <2>2, <2>3 DEF SyncTypeOK
  <2>5. DOMAIN built' = Objects BY <2>3 DEF SyncTypeOK
  <2>6. \A p : Uses(p)' = Uses(p) BY DEF Uses
  <2> QED BY <2>3, <2>4, <2>5, <2>6 DEF Compile, SyncTypeOK
<1>2. KindsInv' BY DEF Compile, KindsInv
<1>3. SaveInv' BY DEF Compile, SyncTypeOK, SaveInv
<1>4. StampInv' BY DEF Compile, SyncTypeOK, StampInv
<1>5. BuiltInv'
  <2>1. header = auto /\ auto # None /\ pc = "off" BY DEF Compile, StampInv, SyncTypeOK
  <2> SUFFICES ASSUME NEW p \in Objects \ outdated', NEW s \in Uses(p)
               PROVE  built'[p][s] = auto[s]
    BY <2>1 DEF Compile, BuiltInv, Uses
  <2>2. CASE p = o BY <2>1, <2>2 DEF Compile, SyncTypeOK
  <2>3. CASE p # o BY <2>3 DEF Compile, BuiltInv, SyncTypeOK
  <2> QED BY <2>2, <2>3
<1> QED BY <1>1, <1>2, <1>3, <1>4, <1>5

LEMMA StutterKeeps == ASSUME SyncInv, UNCHANGED vars PROVE SyncInv'
<1>1. SyncTypeOK' BY DEF vars, SyncTypeOK
<1>2. KindsInv' /\ SaveInv' BY DEF vars, KindsInv, SaveInv
<1>3. StampInv' BY DEF vars, StampInv
<1>4. BuiltInv' BY DEF vars, BuiltInv
<1> QED BY <1>1, <1>2, <1>3, <1>4

---------------------------------------------------------------------------
(* The theorems.                                                           *)

LEMMA SyncInvNext ==
  ASSUME "sync" \notin MayFail, "mentioned" \notin Removals, SyncInv, [Next]_vars
  PROVE  SyncInv'
<1>1. CASE Step
  BY <1>1, WriteTmpKeeps, NoChangeKeeps, RenameOldKeeps, RenameNewKeeps, SkipAutoKeeps, ReadAutoKeeps,
     TouchDepKeeps, RenameHeaderKeeps, RenameAutoKeeps, EndKeeps DEF Step
<1>2. CASE Make BY <1>2, StartSyncKeeps, CompileKeeps DEF Make
<1>3. CASE StartMconf \/ EditKconfig \/ Fail \/ Crash
  BY <1>3, StartMconfKeeps, EditKconfigKeeps, FailKeeps, CrashKeeps
<1>4. CASE UNCHANGED vars BY <1>4, StutterKeeps
<1> QED BY <1>1, <1>2, <1>3, <1>4 DEF Next

LEMMA KeptInvNext == ASSUME KeptInv, [Next]_vars PROVE KeptInv'
<1> USE DEF KeptInv
<1>1. CASE RenameOld BY <1>1 DEF RenameOld
<1>2. CASE RenameNew BY <1>2 DEF RenameNew
<1>3. CASE Step /\ ~RenameOld /\ ~RenameNew
  BY <1>3 DEF Step, WriteTmp, NoChange, SkipAuto, ReadAuto, TouchDep, RenameHeader, RenameAuto, End
<1>4. CASE Make BY <1>4 DEF Make, StartSync, Compile
<1>5. CASE StartMconf \/ EditKconfig \/ Fail \/ Crash
  BY <1>5 DEF StartMconf, EditKconfig, Fail, Crash
<1>6. CASE UNCHANGED vars BY <1>6 DEF vars
<1> QED BY <1>1, <1>2, <1>3, <1>4, <1>5, <1>6 DEF Next

LEMMA SyncInvCurrent == SyncInv => BuiltCurrent
<1> SUFFICES ASSUME SyncInv, InSync, NEW o \in Objects \ outdated, NEW s \in Uses(o)
             PROVE  built[o][s] = AutoValue(config)[s]
  BY DEF BuiltCurrent
<1>1. auto = AutoValue(config) BY DEF InSync, StampInv
<1>2. built[o][s] = auto[s] BY DEF BuiltInv
<1> QED BY <1>1, <1>2

\* Whatever crashes, and whatever writes of menuconfig fail, the files of the
\* configuration hold whole values and the programs are at one of their steps.
THEOREM KSyncTypeOK ==
  ASSUME "sync" \notin MayFail, "mentioned" \notin Removals
  PROVE  Spec => []SyncTypeOK
<1>1. SyncInv /\ [Next]_vars => SyncInv' BY SyncInvNext
<1>2. SyncInv => SyncTypeOK BY DEF SyncInv
<1> QED BY SyncInvInit, <1>1, <1>2, PTL DEF Spec

\* conf_write_autoconf renames auto.conf last, and make compiles only what a newer
\* dependency file asks for: no crash and no failed save leaves an object that make
\* takes to be up to date compiled with another value than .config has.
THEOREM KSyncBuiltCurrent ==
  ASSUME "sync" \notin MayFail, "mentioned" \notin Removals
  PROVE  Spec => []BuiltCurrent
<1>1. SyncInv /\ [Next]_vars => SyncInv' BY SyncInvNext
<1> QED BY SyncInvInit, <1>1, SyncInvCurrent, PTL DEF Spec

\* Between and after its two renames, conf_write keeps the configuration saved last
\* in .config or in .config.old.
THEOREM KSyncConfigKept == Spec => []ConfigKept
<1>1. Init => KeptInv BY DEF Init, KeptInv
<1>2. KeptInv /\ [Next]_vars => KeptInv' BY KeptInvNext
<1>3. KeptInv => ConfigKept BY DEF KeptInv, ConfigKept
<1> QED BY <1>1, <1>2, <1>3, PTL DEF Spec
==============================================================================
