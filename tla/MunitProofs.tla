------------------------------ MODULE MunitProofs ------------------------------
(***************************************************************************)
(* Theorems about the munit driver, for every set of threads, kos, case    *)
(* tables and names.                                                       *)
(***************************************************************************)
EXTENDS MunitRunInv, SequenceTheorems, TLAPS

\* A case belongs to the one ko whose table lists it.
LEMMA OwnerOfCase ==
  /\ \A c \in Cases : KoOf(c) \in Kos /\ c \in CasesOf(KoOf(c))
  /\ \A k \in Kos : \A c \in CasesOf(k) : c \in Cases /\ KoOf(c) = k
<1>1. \A c \in Cases : KoOf(c) \in Kos /\ c \in CasesOf(KoOf(c))
  BY TableAssumption DEF KoOf
<1>2. ASSUME NEW k \in Kos, NEW c \in CasesOf(k)
      PROVE  c \in Cases /\ KoOf(c) = k
  <2>1. c \in Cases
    BY TableAssumption DEF CasesOf
  <2>2. \A j \in Kos : c \in CasesOf(j) => j = k
    BY TableAssumption
  <2> QED
    BY <2>1, <2>2 DEF KoOf
<1> QED
  BY <1>1, <1>2

\* The entries of a case table.
LEMMA TableEntries ==
  \A k \in Kos : /\ CaseTable[k] \in Seq(Cases)
                 /\ \A j \in DOMAIN CaseTable[k] : /\ CaseTable[k][j] \in Cases
                                                   /\ CaseTable[k][j] \in CasesOf(k)
                                                   /\ KoOf(CaseTable[k][j]) = k
<1>1. ASSUME NEW k \in Kos
      PROVE  CaseTable[k] \in Seq(Cases)
  BY TableAssumption
<1>2. ASSUME NEW k \in Kos, NEW j \in DOMAIN CaseTable[k]
      PROVE  CaseTable[k][j] \in Cases /\ CaseTable[k][j] \in CasesOf(k)
  BY <1>1 DEF CasesOf
<1>3. \A k \in Kos : \A c \in CasesOf(k) : KoOf(c) = k
  BY OwnerOfCase
<1> QED
  BY <1>1, <1>2, <1>3

\* None is no thread, ko, case or file.
LEMMA NoneIsNone ==
  None \notin Procs /\ None \notin Kos /\ None \notin Cases /\ None \notin Files
BY NoneAssumption

LEMMA PcsAre ==
  Pcs = {"idle", "r_add", "r_fs", "r_log", "r_func", "u_lock", "u_fs", "u_drain",
         "w_clear", "w_body", "w_succ", "w_res", "w_end",
         "l_find", "l_case", "l_len", "l_cat",
         "d_chk", "d_cnt", "d_copy", "d_next", "oops"}
BY DEF Pcs, InPcs, RunPcs, LogPcs, ReadPcs

\* What one thread's step does to the threads.
LEMMA Becomes ==
  ASSUME th \in [Procs -> Thread], NEW p \in Procs, NEW t \in Thread, Become(p, t)
  PROVE  /\ th' \in [Procs -> Thread]
         /\ th'[p] = t
         /\ \A q \in Procs \ {p} : th'[q] = th[q]
BY DEF Become

LEMMA Goes ==
  ASSUME th \in [Procs -> Thread], NEW p \in Procs, NEW l \in Pcs, Goto(p, l)
  PROVE  /\ th'[p].pc = l /\ th'[p].ko = th[p].ko /\ th'[p].f = th[p].f
         /\ th'[p].i = th[p].i /\ th'[p].rm = th[p].rm
         /\ \A q \in Procs \ {p} : th'[q] = th[q]
<1> DEFINE t == [th[p] EXCEPT !.pc = l]
<1>1. t \in Thread
  BY DEF Thread
<1>2. th'[p] = t /\ \A q \in Procs \ {p} : th'[q] = th[q]
  BY <1>1, Becomes DEF Goto
<1>3. /\ t.pc = l /\ t.ko = th[p].ko /\ t.f = th[p].f /\ t.i = th[p].i /\ t.rm = th[p].rm
  BY DEF Thread
<1> QED
  BY <1>2, <1>3

\* The changes a step makes to its thread's record keep it a thread.
LEMMA ThreadUpdates ==
  ASSUME NEW t \in Thread, NEW l \in Pcs
  PROVE  /\ [t EXCEPT !.pc = l] \in Thread
         /\ \A k \in Kos : [t EXCEPT !.pc = l, !.ko = k] \in Thread
         /\ \A i \in Nat : [t EXCEPT !.pc = l, !.i = i] \in Thread
         /\ \A i \in Nat : [t EXCEPT !.i = i] \in Thread
         /\ \A f \in Files \cup {None} : [t EXCEPT !.pc = l, !.rm = f] \in Thread
         /\ \A f \in Files : [t EXCEPT !.pc = l, !.f = f] \in Thread
         /\ \A f \in Files, b \in BOOLEAN : [t EXCEPT !.pc = l, !.f = f, !.met = b] \in Thread
         /\ [t EXCEPT !.met = TRUE] \in Thread
         /\ \A v \in BOOLEAN : [t EXCEPT !.pc = l, !.v = v] \in Thread
         /\ \A k \in Kos : [t EXCEPT !.pc = l, !.mod = k] \in Thread
         /\ \A c \in Cases : [t EXCEPT !.pc = l, !.dst = c] \in Thread
         /\ \A n \in Nat : [t EXCEPT !.pc = l, !.n = n] \in Thread
         /\ \A m, n \in Nat : [t EXCEPT !.pc = l, !.pos = m, !.n = n] \in Thread
         /\ \A m, n \in Nat : [t EXCEPT !.pc = l, !.lines = m, !.n = n] \in Thread
         /\ \A m, a, b \in Nat :
              [t EXCEPT !.pc = l, !.n = m, !.said = a, !.lines = b] \in Thread
         /\ [t EXCEPT !.pc = l, !.n = 0, !.mod = None, !.dst = None] \in Thread
<1>1. [t EXCEPT !.pc = l] \in Thread
  BY DEF Thread
<1>2. \A k \in Kos : [t EXCEPT !.pc = l, !.ko = k] \in Thread
  BY DEF Thread
<1>3. \A i \in Nat : [t EXCEPT !.pc = l, !.i = i] \in Thread
  BY DEF Thread
<1>4. \A i \in Nat : [t EXCEPT !.i = i] \in Thread
  BY DEF Thread
<1>5. \A f \in Files \cup {None} : [t EXCEPT !.pc = l, !.rm = f] \in Thread
  BY DEF Thread
<1>6. \A f \in Files : [t EXCEPT !.pc = l, !.f = f] \in Thread
  BY DEF Thread
<1>7. \A f \in Files, b \in BOOLEAN : [t EXCEPT !.pc = l, !.f = f, !.met = b] \in Thread
  BY DEF Thread
<1>8. [t EXCEPT !.met = TRUE] \in Thread
  BY DEF Thread
<1>9. \A v \in BOOLEAN : [t EXCEPT !.pc = l, !.v = v] \in Thread
  BY DEF Thread
<1>10. \A k \in Kos : [t EXCEPT !.pc = l, !.mod = k] \in Thread
  BY DEF Thread
<1>11. \A c \in Cases : [t EXCEPT !.pc = l, !.dst = c] \in Thread
  BY DEF Thread
<1>12. \A n \in Nat : [t EXCEPT !.pc = l, !.n = n] \in Thread
  BY DEF Thread
<1>13. \A m, n \in Nat : [t EXCEPT !.pc = l, !.pos = m, !.n = n] \in Thread
  BY DEF Thread
<1>14. \A m, n \in Nat : [t EXCEPT !.pc = l, !.lines = m, !.n = n] \in Thread
  BY DEF Thread
<1>15. \A m, a, b \in Nat : [t EXCEPT !.pc = l, !.n = m, !.said = a, !.lines = b] \in Thread
  BY DEF Thread
<1>16. [t EXCEPT !.pc = l, !.n = 0, !.mod = None, !.dst = None] \in Thread
  BY DEF Thread
<1> QED
  BY <1>1, <1>2, <1>3, <1>4, <1>5, <1>6, <1>7, <1>8, <1>9, <1>10, <1>11, <1>12, <1>13, <1>14, <1>15, <1>16
------------------------------------------------------------------------------
LEMMA InitTyped == Init => TypeOK
<1> SUFFICES ASSUME Init PROVE TypeOK
  OBVIOUS
<1>1. Idle \in Thread
  BY DEF Idle, Thread, Pcs
<1>2. caseList \in Seq(Kos)
  BY EmptySeq DEF Init
<1> QED
  BY <1>1, <1>2 DEF Init, TypeOK, LoadStates, NoText

LEMMA ListedKos == TypeOK => \A j \in DOMAIN caseList : caseList[j] \in Kos
<1> SUFFICES ASSUME TypeOK PROVE \A j \in DOMAIN caseList : caseList[j] \in Kos
  OBVIOUS
<1>1. caseList \in Seq(Kos)
  BY DEF TypeOK
<1> QED
  BY <1>1, ElementOfSeq, LenProperties

\* Every step keeps the locals of the threads in their types.
LEMMA ThreadsTyped ==
  ASSUME TypeOK, LocalsOK, NEW p \in Procs, Step(p) \/ Call(p)
  PROVE  th' \in [Procs -> Thread]
<1>1. th \in [Procs -> Thread] /\ th[p] \in Thread
  BY DEF TypeOK
<1>2. Idle \in Thread
  BY PcsAre DEF Thread, Idle
<1>3. \A t \in Thread : Become(p, t) => th' \in [Procs -> Thread]
  BY <1>1, Becomes
<1>4. /\ th[p].i \in Nat /\ th[p].n \in Nat /\ th[p].pos \in Nat
      /\ th[p].said \in Nat /\ th[p].lines \in Nat
  BY <1>1 DEF Thread
<1>5. \A l \in Pcs : Goto(p, l) => th' \in [Procs -> Thread]
  BY <1>1, <1>3, ThreadUpdates, Zenon DEF Goto
<1>6. Return(p) => th' \in [Procs -> Thread]
  BY <1>2, <1>3 DEF Return
<1>7. LogReturn(p) => th' \in [Procs -> Thread]
  BY <1>1, <1>3, PcsAre, ThreadUpdates, Zenon DEF LogReturn
<1>8. ASSUME NEW f \in Files, ReadEnter(p, f)
      PROVE  th' \in [Procs -> Thread]
  <2>1. (th[p].met \/ \E q \in Procs : Running(q, f[1])) \in BOOLEAN
    BY <1>1 DEF Thread
  <2>2. "d_chk" \in Pcs
    BY PcsAre
  <2> QED
    BY <1>8, <1>1, <1>3, <2>1, <2>2, ThreadUpdates, Zenon DEF ReadEnter
<1>10. ASSUME NEW k \in Kos, Insmod(p, k) \/ Rmmod(p, k)
       PROVE  th' \in [Procs -> Thread]
  <2>1. "r_add" \in Pcs /\ "oops" \in Pcs /\ "u_lock" \in Pcs
    BY PcsAre
  <2> QED
    BY <1>10, <1>1, <1>3, <2>1, ThreadUpdates, Zenon DEF Insmod, Rmmod
<1>11. ASSUME RegAdd(p) \/ RegFiles(p) \/ UnregLock(p)
       PROVE  th' \in [Procs -> Thread]
  BY <1>11, <1>5, PcsAre DEF RegAdd, RegFiles, UnregLock
<1>12. CASE RegLog(p)
  <2>1. th[p].i + 1 \in Nat /\ "r_fs" \in Pcs /\ "r_func" \in Pcs
    BY <1>4, PcsAre
  <2> QED
    BY <1>12, <1>1, <1>3, <1>5, <2>1, ThreadUpdates, Zenon DEF RegLog
<1>13. CASE RegFunc(p)
  <2>1. \A m \in LineLens : m \in Nat /\ 1 \in Nat /\ "l_find" \in Pcs
    BY SizeAssumption, PcsAre
  <2> QED
    BY <1>13, <1>1, <1>3, <1>6, <2>1, ThreadUpdates, Zenon DEF RegFunc
<1>14. CASE UnregUnlink(p)
  <2>1. th[p].ko \in Kos /\ th[p].i \in DOMAIN CaseTable[th[p].ko]
    BY <1>14 DEF UnregUnlink, At, LocalsOK, LocalsOf, UnregPcs
  <2>2. \A x \in Kinds : <<CaseTable[th[p].ko][th[p].i], x>> \in Files
    BY <2>1, TableEntries DEF Files
  <2>3. th[p].i + 1 \in Nat /\ "u_drain" \in Pcs
    BY <1>4, PcsAre
  <2> QED
    BY <1>14, <1>1, <1>3, <2>2, <2>3, ThreadUpdates DEF UnregUnlink
<1>15. CASE UnregDrain(p)
  <2>1. [th[p] EXCEPT !.pc = "u_fs", !.rm = None] \in Thread
    BY <1>1, PcsAre, ThreadUpdates, Zenon
  <2> QED
    BY <1>15, <1>1, <1>2, <2>1 DEF UnregDrain
<1>16. ASSUME UnregDel(p) \/ RunEnd(p)
       PROVE  th' \in [Procs -> Thread]
  BY <1>16, <1>6 DEF UnregDel, RunEnd
<1>17. ASSUME NEW c \in Cases, NEW x \in RunKinds, RunBegin(p, c, x)
       PROVE  th' \in [Procs -> Thread]
  <2>1. <<c, x>> \in Files /\ "w_clear" \in Pcs
    BY InputAssumption, PcsAre DEF Files, Kinds
  <2>2. [th[p] EXCEPT !.pc = "w_clear", !.f = <<c, x>>] \in Thread
    BY <1>1, <2>1, ThreadUpdates, Zenon
  <2>3. \A q \in Procs : th[q] \in Thread /\ [th[q] EXCEPT !.met = TRUE] \in Thread
    BY <1>1, <2>1, ThreadUpdates, Zenon
  <2> QED
    BY <1>17, <2>2, <2>3 DEF RunBegin
<1>18. ASSUME RunClear(p) \/ RunSucc(p) \/ RunRes(p)
       PROVE  th' \in [Procs -> Thread]
  BY <1>18, <1>5, <1>6, PcsAre DEF RunClear, RunSucc, RunRes
<1>19. CASE RunLog(p)
  <2>1. LineLens \subseteq Nat
    BY SizeAssumption
  <2>2. "l_find" \in Pcs
    BY PcsAre
  <2>3. \A m, a, b \in Nat :
          Become(p, [th[p] EXCEPT !.pc = "l_find", !.n = m, !.said = a, !.lines = b])
            => th' \in [Procs -> Thread]
    BY <1>1, <1>3, <2>2, ThreadUpdates, Zenon
  <2>4. \A m \in LineLens : m \in Nat /\ th[p].said + m \in Nat /\ th[p].lines + 1 \in Nat
    BY <1>4, <2>1
  <2> QED
    BY <1>19, <2>3, <2>4 DEF RunLog
<1>20. CASE RunReturn(p)
  BY <1>20, <1>1, <1>3, PcsAre, InputAssumption, ThreadUpdates, Zenon DEF RunReturn
<1>21. CASE LogFind(p)
  <2>1. \A j \in DOMAIN caseList : caseList[j] \in Kos
    BY ListedKos
  <2>2. "l_case" \in Pcs
    BY PcsAre
  <2> QED
    BY <1>21, <1>1, <1>3, <1>7, <2>1, <2>2, ThreadUpdates, Zenon DEF LogFind
<1>22. CASE LogCase(p)
  <2>1. th[p].mod \in Kos
    BY <1>22, <1>1 DEF LogCase, At, LocalsOK, LocalsOf, Thread
  <2>2. "l_len" \in Pcs
    BY PcsAre
  <2> QED
    BY <1>22, <1>1, <1>3, <1>7, <2>1, <2>2, TableEntries, ThreadUpdates, ZenonT(60) DEF LogCase
<1>23. CASE LogLen(p)
  <2>1. th[p].dst \in Cases
    BY <1>23, <1>1 DEF LogLen, At, LocalsOK, LocalsOf, Thread
  <2>2. PageSize - logLen[th[p].dst] - 1 \in Int
    <3>1. logLen \in [Cases -> Nat]
      BY DEF TypeOK
    <3>2. PageSize \in Nat
      BY SizeAssumption
    <3> QED
      BY <2>1, <3>1, <3>2
  <2>3. ASSUME PageSize - logLen[th[p].dst] - 1 > 0
        PROVE  (IF th[p].n < PageSize - logLen[th[p].dst] - 1
                THEN th[p].n ELSE PageSize - logLen[th[p].dst] - 1) \in Nat
    BY <2>2, <2>3, <1>4
  <2>4. "l_cat" \in Pcs /\ "oops" \in Pcs
    BY PcsAre
  <2>5. \A m \in Nat : Become(p, [th[p] EXCEPT !.pc = "l_cat", !.n = m])
                         => th' \in [Procs -> Thread]
    BY <1>1, <1>3, <2>4, ThreadUpdates, Zenon
  <2> QED
    BY <1>23, <1>5, <1>7, <2>3, <2>4, <2>5 DEF LogLen
<1>24. CASE LogCat(p)
  BY <1>24, <1>7 DEF LogCat
<1>25. ASSUME NEW f \in Cases \X ReadKinds, ReadBegin(p, f)
       PROVE  th' \in [Procs -> Thread]
  BY <1>25, <1>8, InputAssumption DEF ReadBegin, Files
<1>26. CASE ReadCheck(p)
  BY <1>26, <1>5, <1>6, PcsAre DEF ReadCheck
<1>27. CASE ReadCount(p)
  <2>1. th[p].f \in Files
    BY <1>27, <1>1 DEF ReadCount, At, LocalsOK, LocalsOf, ReadPcs, Thread
  <2>2. Strlen(th[p].f) \in Nat
    <3>1. logLen \in [Cases -> Nat]
      BY DEF TypeOK
    <3>2. th[p].f[1] \in Cases
      BY <2>1 DEF Files
    <3>3. TextLen(res[th[p].f[1]]) \in Nat
      <4>1. CASE res[th[p].f[1]].long
        BY <4>1 DEF TextLen
      <4>2. CASE ~res[th[p].f[1]].long
        BY <4>2 DEF TextLen
      <4> QED
        BY <4>1, <4>2
    <3> QED
      BY <3>1, <3>2, <3>3 DEF Strlen
  <2>3. (Strlen(th[p].f) - th[p].pos) % SizeMod \in Nat
    BY <2>2, <1>4, SizeAssumption
  <2>4. \A m \in Nat : Become(p, [th[p] EXCEPT !.pc = "d_copy", !.n = m])
                         => th' \in [Procs -> Thread]
    BY <1>1, <1>3, PcsAre, ThreadUpdates, Zenon
  <2> QED
    BY <1>27, <2>3, <2>4, SizeAssumption DEF ReadCount
<1>28. CASE ReadCopy(p)
  <2>1. th[p].pos + th[p].n \in Nat /\ 0 \in Nat /\ "d_next" \in Pcs /\ "oops" \in Pcs
    BY <1>4, PcsAre
  <2> QED
    BY <1>28, <1>1, <1>3, <1>5, <1>6, <2>1, ThreadUpdates, Zenon DEF ReadCopy
<1>29. CASE ReadNext(p)
  <2>1. th[p].f \in Files
    BY <1>29, <1>1 DEF ReadNext, At, LocalsOK, LocalsOf, Thread
  <2> QED
    BY <1>29, <1>6, <1>8, <2>1 DEF ReadNext
<1> QED
  BY <1>10, <1>11, <1>12, <1>13, <1>14, <1>15, <1>16, <1>17, <1>18, <1>19, <1>20, <1>21,
     <1>22, <1>23, <1>24, <1>25, <1>26, <1>27, <1>28, <1>29 DEF Step, Call

LEMMA ListTyped ==
  ASSUME caseList \in Seq(Kos), NEW j \in DOMAIN caseList
  PROVE  Without(caseList, j) \in Seq(Kos)
<1>1. Len(caseList) \in Nat /\ DOMAIN caseList = 1 .. Len(caseList)
  BY LenProperties
<1>2. Len(caseList) - 1 \in Nat
  BY <1>1
<1>3. \A h \in 1 .. Len(caseList) - 1 :
        (IF h < j THEN caseList[h] ELSE caseList[h + 1]) \in Kos
  BY <1>1, ElementOfSeq
<1> QED
  BY <1>2, <1>3, IsASeq DEF Without

\* Every step keeps the driver's own variables in their types.
LEMMA NextTyped ==
  ASSUME TypeOK, LocalsOK, NEW p \in Procs, Step(p) \/ Call(p)
  PROVE  TypeOK'
<1>1. th' \in [Procs -> Thread]
  BY ThreadsTyped
<1> DEFINE LoaderTyped == /\ koState \in [Kos -> LoadStates]
                          /\ caseList \in Seq(Kos)
                          /\ mutex \in Procs \cup {None}
                          /\ files \subseteq Files
           LogTyped    == /\ log \in [Cases -> {"null", "raw", "text"}]
                          /\ logLen \in [Cases -> Nat]
           ResTyped    == /\ res \in [Cases -> [head : {"", "PASS", "NOT "}, long : BOOLEAN]]
                          /\ succ \in [Cases -> BOOLEAN]
                          /\ crowded \subseteq Cases
                          /\ last \in [Cases -> {"", "PASS", "NOT PASS"}]
<1>2. LoaderTyped /\ LogTyped /\ ResTyped /\ th \in [Procs -> Thread] /\ th[p] \in Thread
  BY DEF TypeOK
<1>3. th[p].pc \in RunPcs => th[p].f \in Files /\ th[p].f[1] \in Cases
  BY <1>2 DEF LocalsOK, LocalsOf, Thread, Files
<1>4. th[p].pc \in RegPcs \cup UnregPcs => th[p].ko \in Kos
  BY DEF LocalsOK, LocalsOf
<1>5. UNCHANGED <<koState, caseList, mutex, files>> => LoaderTyped'
  BY <1>2
<1>6. UNCHANGED <<log, logLen>> => LogTyped'
  BY <1>2
<1>7. UNCHANGED <<res, succ, crowded, last>> => ResTyped'
  BY <1>2
<1> SUFFICES LoaderTyped' /\ LogTyped' /\ ResTyped'
  BY <1>1 DEF TypeOK
<1> HIDE DEF LoaderTyped, LogTyped, ResTyped
<1>10. ASSUME NEW k \in Kos, Insmod(p, k)
       PROVE  LoaderTyped' /\ LogTyped' /\ ResTyped'
  BY <1>2, <1>10 DEF Insmod, LoaderTyped, LogTyped, ResTyped, LoadStates, NoText
<1>11. CASE RegAdd(p)
  <2>1. Append(caseList, th[p].ko) \in Seq(Kos)
    BY <1>2, <1>4, <1>11, AppendProperties DEF RegAdd, At, RegPcs, LoaderTyped
  <2> QED
    BY <1>2, <1>6, <1>7, <1>11, <2>1 DEF RegAdd, LoaderTyped, data, history
<1>12. CASE RegFiles(p)
  <2>1. th[p].i \in DOMAIN CaseTable[th[p].ko]
          => \A x \in Kinds : <<CaseTable[th[p].ko][th[p].i], x>> \in Files
    BY <1>4, <1>12, TableEntries DEF RegFiles, At, RegPcs, Files
  <2> QED
    BY <1>2, <1>6, <1>7, <1>12, <2>1 DEF RegFiles, LoaderTyped, data, history
<1>13. CASE RegLog(p)
  BY <1>2, <1>5, <1>7, <1>13, SizeAssumption DEF RegLog, LogTyped, history
<1>14. CASE RegFunc(p)
  BY <1>2, <1>6, <1>7, <1>14 DEF RegFunc, LoaderTyped, LoadStates, data, history
<1>15. ASSUME NEW k \in Kos, Rmmod(p, k)
       PROVE  LoaderTyped' /\ LogTyped' /\ ResTyped'
  BY <1>2, <1>6, <1>7, <1>15 DEF Rmmod, LoaderTyped, LoadStates, data, history
<1>16. CASE UnregLock(p) \/ UnregUnlink(p) \/ UnregDrain(p)
  BY <1>2, <1>6, <1>7, <1>16
     DEF UnregLock, UnregUnlink, UnregDrain, LoaderTyped, data, history
<1>17. CASE UnregDel(p)
  BY <1>2, <1>6, <1>7, <1>17, ListTyped DEF UnregDel, LoaderTyped, LoadStates, data, history
<1>18. ASSUME NEW c \in Cases, NEW x \in RunKinds, RunBegin(p, c, x)
       PROVE  LoaderTyped' /\ LogTyped' /\ ResTyped'
  BY <1>2, <1>5, <1>6, <1>18 DEF RunBegin, ResTyped, data
<1>19. CASE RunClear(p)
  <2>1. th[p].f[1] \in Cases
    BY <1>3, <1>19 DEF RunClear, At, RunPcs
  <2>2. LogTyped'
    BY <1>2, <1>19, <2>1 DEF RunClear, LogTyped
  <2>3. crowded' \subseteq Cases
    BY <1>2, <1>19 DEF RunClear, ResTyped
  <2> QED
    BY <1>2, <1>5, <1>19, <2>2, <2>3 DEF RunClear, ResTyped
<1>20. CASE RunReturn(p)
  BY <1>2, <1>3, <1>5, <1>6, <1>20
     DEF RunReturn, At, RunPcs, ResTyped, Verdict, data
<1>21. CASE RunSucc(p)
  <2>1. th[p].v \in BOOLEAN
    BY <1>2 DEF Thread
  <2> QED
    BY <1>2, <1>3, <1>5, <1>6, <1>21, <2>1 DEF RunSucc, At, RunPcs, ResTyped, history
<1>22. CASE RunRes(p)
  <2>1. th[p].f[1] \in Cases
    BY <1>3, <1>22 DEF RunRes, At, RunPcs
  <2>2. /\ [head |-> "PASS", long |-> res[th[p].f[1]].long]
              \in [head : {"", "PASS", "NOT "}, long : BOOLEAN]
        /\ [head |-> "NOT ", long |-> TRUE] \in [head : {"", "PASS", "NOT "}, long : BOOLEAN]
    BY <1>2, <2>1 DEF ResTyped
  <2>3. res' \in [Cases -> [head : {"", "PASS", "NOT "}, long : BOOLEAN]]
    BY <1>2, <1>22, <2>1, <2>2 DEF RunRes, ResTyped
  <2> QED
    BY <1>2, <1>5, <1>6, <1>22, <2>3 DEF RunRes, ResTyped, history
<1>23. CASE RunEnd(p)
  BY <1>2, <1>3, <1>5, <1>6, <1>23 DEF RunEnd, At, RunPcs, ResTyped, history
<1>24. CASE LogCat(p)
  <2>1. th[p].dst \in Cases /\ th[p].n \in Nat
    BY <1>2, <1>24 DEF LogCat, At, LocalsOK, LocalsOf, Thread
  <2>2. logLen' \in [Cases -> Nat]
    BY <1>2, <1>24, <2>1 DEF LogCat, LogTyped
  <2> QED
    BY <1>2, <1>5, <1>7, <1>24, <2>2 DEF LogCat, LogTyped, history
<1>25. ASSUME UNCHANGED <<koState, caseList, mutex, files, data, history>>
       PROVE  LoaderTyped' /\ LogTyped' /\ ResTyped'
  BY <1>5, <1>6, <1>7, <1>25 DEF data, history
<1> QED
  BY <1>10, <1>11, <1>12, <1>13, <1>14, <1>15, <1>16, <1>17, <1>18, <1>19, <1>20, <1>21,
     <1>22, <1>23, <1>24, <1>25, Zenon
     DEF Step, Call, RunLog, LogFind, LogCase, LogLen, ReadBegin, ReadCheck, ReadCount,
         ReadCopy, ReadNext
------------------------------------------------------------------------------
\* A quiet step keeps the invariant.
LEMMA QuietKeeps ==
  ASSUME IInv, TypeOK', NEW p \in Procs, Quiet(p)
  PROVE  IInv'
<1>1. \A q \in Procs, k \in Kos : Registering(q, k)' => Registering(q, k)
  BY DEF Quiet, Registering
<1>2. \A q \in Procs, k \in Kos : Unregistering(q, k)' => Unregistering(q, k)
  BY DEF Quiet, Unregistering
<1>3. \A q \in Procs : th[q].pc \in UnregPcs \cup {"r_add"} <=> th'[q].pc \in UnregPcs \cup {"r_add"}
  BY DEF Quiet
<1>4. \A q \in Procs : th'[q].pc \in UnregPcs \cup {"r_add"} =>
        /\ th'[q].pc = th[q].pc /\ th'[q].ko = th[q].ko
        /\ th'[q].i = th[q].i /\ th'[q].rm = th[q].rm
  BY DEF Quiet
<1>5. LocalsOK'
  <2>1. ASSUME NEW q \in Procs \ {p} PROVE LocalsOf(q)'
    BY DEF IInv, LocalsOK, LocalsOf, Quiet, Home
  <2> QED
    BY <2>1 DEF LocalsOK, Quiet
<1>6. OneOwner'
  BY <1>1, <1>2 DEF IInv, OneOwner, Quiet
<1>7. FilesOK'
  BY <1>3, <1>4 DEF IInv, FilesOK, Quiet, UnregPcs
<1>8. Drained'
  <2> SUFFICES ASSUME NEW q \in Procs, NEW f \in Files, Inside(q, f)'
               PROVE  (f \in files \/ \E r \in Procs : th[r].pc = "u_drain" /\ th[r].rm = f)'
    BY DEF Drained
  <2>1. Inside(q, f) \/ f \in files
    BY DEF Quiet, Inside
  <2>2. f \in files \/ \E r \in Procs : th[r].pc = "u_drain" /\ th[r].rm = f
    BY <2>1 DEF IInv, Drained
  <2>3. \A r \in Procs : th[r].pc = "u_drain" /\ th[r].rm = f
                           => th'[r].pc = "u_drain" /\ th'[r].rm = f
    BY DEF Quiet, UnregPcs
  <2> QED
    BY <2>2, <2>3 DEF Quiet
<1>9. ListMatchesLoader'
  <2>1. \A q \in Procs : th'[q].pc \in {"u_fs", "u_drain"} <=> th[q].pc \in {"u_fs", "u_drain"}
    BY <1>3, <1>4 DEF UnregPcs
  <2>2. \A q \in Procs : th'[q].pc = "r_add" <=> th[q].pc = "r_add"
    BY <1>3, <1>4 DEF UnregPcs
  <2>3. \A q \in Procs : th[q].pc = "r_add" => th'[q].ko = th[q].ko
    BY <1>4, <2>2
  <2> QED
    BY <2>1, <2>2, <2>3 DEF IInv, ListMatchesLoader, Listed, Quiet
<1> QED
  BY <1>5, <1>6, <1>7, <1>8, <1>9 DEF IInv

\* The module a name search finds is, among disjoint names, the caller's own.
LEMMA FoundIsHome ==
  ASSUME IInv, NEW p \in Procs, th[p].pc = "l_find", NEW j \in DOMAIN caseList, Found(p, j),
         NamesDisjoint
  PROVE  caseList[j] = Home(p)
<1>1. caseList[j] \in Kos
  BY ListedKos DEF IInv
<1>2. th[p].f = None => th[p].ko \in Kos
  BY DEF IInv, LocalsOK, LocalsOf, LogPcs
<1>3. th[p].f # None => th[p].f[1] \in Cases
  BY DEF IInv, TypeOK, Thread, Files
<1> QED
  BY <1>1, <1>2, <1>3 DEF Found, FuncName, NamesDisjoint, Home

\* Steps of runs, logging and reads, and some of registration, are quiet.
LEMMA QuietSteps ==
  ASSUME IInv, NEW p \in Procs,
         \/ RegLog(p) \/ (RegFunc(p) /\ UNCHANGED koState)
         \/ \E c \in Cases, x \in RunKinds : RunBegin(p, c, x)
         \/ RunClear(p) \/ RunLog(p) \/ RunReturn(p) \/ RunSucc(p) \/ RunRes(p) \/ RunEnd(p)
         \/ LogFind(p) \/ LogCase(p) \/ LogLen(p) \/ LogCat(p)
         \/ \E f \in Cases \X ReadKinds : ReadBegin(p, f)
         \/ ReadCheck(p) \/ ReadCount(p) \/ ReadCopy(p) \/ ReadNext(p)
  PROVE  Quiet(p)
<1>1. th \in [Procs -> Thread] /\ th[p] \in Thread /\ LocalsOf(p)
  BY DEF IInv, TypeOK, LocalsOK
<1>2. Idle \in Thread
  BY PcsAre DEF Thread, Idle
<1> DEFINE Shape(t) ==
             /\ t.pc \notin UnregPcs \cup {"r_add"}
             /\ t.f = None /\ t.pc \in RegPcs \cup LogPcs =>
                  th[p].f = None /\ th[p].ko = t.ko /\ th[p].pc \in RegPcs \cup LogPcs
             /\ t.f # None /\ t.pc \in InPcs =>
                  \/ t.f = th[p].f /\ th[p].pc \in InPcs
                  \/ t.f \in files /\ th[p].pc \notin InPcs
<1>3. ASSUME NEW t \in Thread, Become(p, t), Shape(t), LocalsOf(p)',
             UNCHANGED <<koState, caseList, mutex, files>>, ~Panicked,
             th[p].pc \notin UnregPcs \cup {"r_add"}
      PROVE  Quiet(p)
  <2>1. th'[p] = t /\ \A q \in Procs \ {p} : th'[q] = th[q]
    BY <1>1, <1>3, Becomes
  <2>2. \A k \in Kos : Registering(p, k)' => Registering(p, k)
    BY <1>3, <2>1 DEF Registering
  <2>3. \A f \in Files : Inside(p, f)' =>
         Inside(p, f) \/ (f \in files /\ th[p].pc \notin InPcs)
    BY <1>3, <2>1, NoneIsNone DEF Inside
  <2> QED
    BY <1>3, <2>1, <2>2, <2>3 DEF Quiet
<1>4. ASSUME Return(p), UNCHANGED <<koState, caseList, mutex, files>>, ~Panicked,
             th[p].pc \notin UnregPcs \cup {"r_add"}
      PROVE  Quiet(p)
  <2>1. th'[p] = Idle
    BY <1>1, <1>2, <1>4, Becomes DEF Return
  <2>2. LocalsOf(p)'
    BY <2>1 DEF LocalsOf, Idle, RegPcs, UnregPcs, RunPcs, ReadPcs, LogPcs
  <2>3. Shape(Idle)
    BY DEF Idle, RegPcs, UnregPcs, InPcs, RunPcs, ReadPcs, LogPcs
  <2> QED
    BY <1>2, <1>3, <1>4, <2>2, <2>3 DEF Return
<1>5. ASSUME NEW l \in Pcs, Goto(p, l), UNCHANGED <<koState, caseList, mutex, files>>, ~Panicked,
             \/ l = "oops" /\ th[p].pc \notin UnregPcs \cup {"r_add"}
             \/ /\ l \in RunPcs \cup ReadPcs
                /\ th[p].pc \in RunPcs \cup ReadPcs
             \/ l = "r_func" /\ th[p].pc \in {"r_fs", "r_log"}
      PROVE  Quiet(p)
  <2> DEFINE t == [th[p] EXCEPT !.pc = l]
  <2>1. t \in Thread
    BY <1>1, ThreadUpdates, Zenon
  <2>2. th'[p] = t
    BY <1>1, <1>5, <2>1, Becomes DEF Goto
  <2>3. /\ t.pc = l /\ t.f = th[p].f /\ t.ko = th[p].ko /\ t.i = th[p].i
        /\ t.mod = th[p].mod /\ t.dst = th[p].dst /\ t.rm = th[p].rm
    BY <1>1 DEF Thread
  <2>4. LocalsOf(p)'
    BY <1>1, <1>5, <2>2, <2>3 DEF LocalsOf, RegPcs, UnregPcs, RunPcs, ReadPcs, LogPcs
  <2>5. Shape(t)
    BY <1>1, <1>5, <2>3 DEF LocalsOf, RegPcs, UnregPcs, InPcs, RunPcs, ReadPcs, LogPcs
  <2>6. th[p].pc \notin UnregPcs \cup {"r_add"}
    BY <1>5 DEF RunPcs, ReadPcs, UnregPcs
  <2> QED
    BY <1>3, <1>5, <2>1, <2>4, <2>5, <2>6, Zenon DEF Goto
<1>6. ASSUME LogReturn(p), UNCHANGED <<koState, caseList, mutex, files>>, ~Panicked,
             th[p].pc \in LogPcs
      PROVE  Quiet(p)
  <2> DEFINE l == IF th[p].f # None THEN "w_body" ELSE "r_func"
             t == [th[p] EXCEPT !.pc = l, !.n = 0, !.mod = None, !.dst = None]
  <2>1. t \in Thread
    BY <1>1, PcsAre, ThreadUpdates, Zenon
  <2>2. th'[p] = t
    BY <1>1, <1>6, <2>1, Becomes DEF LogReturn
  <2>3. t.pc = l /\ t.f = th[p].f /\ t.ko = th[p].ko /\ t.i = th[p].i
    BY <1>1 DEF Thread
  <2>4. LocalsOf(p)'
    BY <1>1, <1>6, <2>2, <2>3 DEF LocalsOf, RegPcs, UnregPcs, RunPcs, ReadPcs, LogPcs
  <2>5. Shape(t)
    BY <1>1, <1>6, <2>3 DEF RegPcs, UnregPcs, InPcs, RunPcs, ReadPcs, LogPcs
  <2> QED
    BY <1>3, <1>6, <2>1, <2>4, <2>5, Zenon DEF LogReturn, LogPcs, UnregPcs
<1>7. ASSUME NEW f \in Files, ReadEnter(p, f), UNCHANGED <<koState, caseList, mutex, files>>,
             ~Panicked, th[p].pc \in {"idle", "d_next"}
      PROVE  Quiet(p)
  <2> DEFINE b == th[p].met \/ \E q \in Procs : Running(q, f[1])
             t == [th[p] EXCEPT !.pc = "d_chk", !.f = f, !.met = b]
  <2>1. t \in Thread /\ Become(p, t)
    <3>1. b \in BOOLEAN
      BY <1>1 DEF Thread
    <3> QED
      BY <1>1, <1>7, <3>1, PcsAre, ThreadUpdates, Zenon DEF ReadEnter
  <2>2. th'[p] = t
    BY <1>1, <2>1, Becomes
  <2>3. t.pc = "d_chk" /\ t.f = f /\ t.i = th[p].i
    BY <1>1 DEF Thread
  <2>4. LocalsOf(p)'
    BY <1>1, <1>7, <2>2, <2>3, NoneIsNone
       DEF LocalsOf, RegPcs, UnregPcs, RunPcs, ReadPcs, LogPcs
  <2>5. Shape(t)
    BY <1>7, <2>3, NoneIsNone
       DEF ReadEnter, RegPcs, UnregPcs, InPcs, RunPcs, ReadPcs, LogPcs
  <2> QED
    BY <1>3, <1>7, <2>1, <2>4, <2>5, Zenon DEF UnregPcs
<1>8. ASSUME NEW t \in Thread, Become(p, t), UNCHANGED <<koState, caseList, mutex, files>>,
             ~Panicked,
             t.ko = th[p].ko, t.f = th[p].f, t.i = th[p].i,
             t.mod = th[p].mod, t.dst = th[p].dst,
             \/ /\ th[p].pc \in RunPcs \cup ReadPcs
                /\ t.pc \in RunPcs \cup ReadPcs \cup {"l_find", "d_next"}
             \/ th[p].pc = "r_func" /\ t.pc = "l_find"
             \/ th[p].pc = "l_len" /\ t.pc = "l_cat"
      PROVE  Quiet(p)
  <2>1. th'[p] = t
    BY <1>1, <1>8, Becomes
  <2>2. LocalsOf(p)'
    BY <1>1, <1>8, <2>1 DEF LocalsOf, Home, RegPcs, UnregPcs, RunPcs, ReadPcs, LogPcs
  <2>3. Shape(t)
    BY <1>1, <1>8 DEF LocalsOf, RegPcs, UnregPcs, InPcs, RunPcs, ReadPcs, LogPcs
  <2>4. th[p].pc \notin UnregPcs \cup {"r_add"}
    BY <1>8 DEF RunPcs, ReadPcs, UnregPcs
  <2> QED
    BY <1>3, <1>8, <2>2, <2>3, <2>4
<1> HIDE DEF Shape
<1>10. CASE RegLog(p)
  <2> DEFINE t == [th[p] EXCEPT !.pc = "r_fs", !.i = @ + 1]
  <2>1. ~Panicked /\ th[p].pc = "r_log" /\ UNCHANGED <<koState, caseList, mutex, files>>
    BY <1>10 DEF RegLog, At
  <2>2. CASE Goto(p, "r_func")
    BY <1>5, <2>1, <2>2, PcsAre
  <2>3. CASE Become(p, t)
    <3>1. th[p].i \in Nat /\ th[p].i + 1 \in Nat
      BY <1>1 DEF Thread
    <3>2. t \in Thread
      BY <1>1, <3>1, PcsAre, ThreadUpdates, Zenon
    <3>3. th'[p] = t
      BY <1>1, <2>3, <3>2, Becomes
    <3>4. t.pc = "r_fs" /\ t.i = th[p].i + 1 /\ t.f = th[p].f /\ t.ko = th[p].ko
      BY <1>1 DEF Thread
    <3>5. LocalsOf(p)'
      BY <1>1, <2>1, <3>1, <3>3, <3>4
         DEF LocalsOf, RegPcs, UnregPcs, RunPcs, ReadPcs, LogPcs
    <3>6. Shape(t)
      BY <1>1, <2>1, <3>4 DEF Shape, LocalsOf, RegPcs, UnregPcs, InPcs, RunPcs, ReadPcs, LogPcs
    <3> QED
      BY <1>3, <2>1, <2>3, <3>2, <3>5, <3>6 DEF UnregPcs
  <2> QED
    BY <1>10, <2>2, <2>3 DEF RegLog
<1>11. CASE RegFunc(p) /\ UNCHANGED koState
  <2>1. ~Panicked /\ th[p].pc = "r_func" /\ UNCHANGED <<koState, caseList, mutex, files>>
    BY <1>11 DEF RegFunc, At
  <2>2. CASE Return(p)
    BY <1>4, <2>1, <2>2 DEF UnregPcs
  <2>3. ASSUME NEW m \in LineLens, Become(p, [th[p] EXCEPT !.pc = "l_find", !.lines = 1, !.n = m])
        PROVE  Quiet(p)
    <3> DEFINE t == [th[p] EXCEPT !.pc = "l_find", !.lines = 1, !.n = m]
    <3>1. m \in Nat
      BY SizeAssumption
    <3>2. t \in Thread
      BY <1>1, <3>1, PcsAre, ThreadUpdates, Zenon
    <3>3. /\ t.pc = "l_find" /\ t.ko = th[p].ko /\ t.f = th[p].f /\ t.i = th[p].i
          /\ t.mod = th[p].mod /\ t.dst = th[p].dst
      BY <1>1 DEF Thread
    <3> QED
      BY <1>8, <2>1, <2>3, <3>2, <3>3
  <2> QED
    BY <1>11, <2>2, <2>3 DEF RegFunc
<1>12. ASSUME NEW c \in Cases, NEW x \in RunKinds, RunBegin(p, c, x)
       PROVE  Quiet(p)
  <2> DEFINE t == [th[p] EXCEPT !.pc = "w_clear", !.f = <<c, x>>]
  <2>1. <<c, x>> \in Files /\ <<c, x>> \in files
    BY <1>12, InputAssumption DEF RunBegin, Files, Kinds
  <2>2. t \in Thread
    BY <1>1, <2>1, PcsAre, ThreadUpdates, Zenon
  <2>3. t.pc = "w_clear" /\ t.f = <<c, x>> /\ t.i = th[p].i
    BY <1>1 DEF Thread
  <2>4. th'[p] = t
    BY <1>12 DEF RunBegin
  <2>5. LocalsOf(p)'
    BY <1>1, <2>1, <2>3, <2>4, NoneIsNone
       DEF LocalsOf, RegPcs, UnregPcs, RunPcs, ReadPcs, LogPcs
  <2>6. \A q \in Procs \ {p} : th'[q] = th[q] \/ th'[q] = [th[q] EXCEPT !.met = TRUE]
    BY <1>12 DEF RunBegin
  <2>7. \A q \in Procs \ {p} :
          /\ th'[q].pc = th[q].pc /\ th'[q].ko = th[q].ko /\ th'[q].i = th[q].i
          /\ th'[q].f = th[q].f /\ th'[q].rm = th[q].rm
          /\ th'[q].mod = th[q].mod /\ th'[q].dst = th[q].dst
    <3> SUFFICES ASSUME NEW q \in Procs \ {p}
                 PROVE  /\ th'[q].pc = th[q].pc /\ th'[q].ko = th[q].ko /\ th'[q].i = th[q].i
                        /\ th'[q].f = th[q].f /\ th'[q].rm = th[q].rm
                        /\ th'[q].mod = th[q].mod /\ th'[q].dst = th[q].dst
      OBVIOUS
    <3>1. th[q] \in Thread
      BY <1>1
    <3>2. LET u == [th[q] EXCEPT !.met = TRUE]
          IN /\ u.pc = th[q].pc /\ u.ko = th[q].ko /\ u.i = th[q].i /\ u.f = th[q].f
             /\ u.rm = th[q].rm /\ u.mod = th[q].mod /\ u.dst = th[q].dst
      BY <3>1 DEF Thread
    <3> QED
      BY <2>6, <3>2
  <2>8. \A k \in Kos : Registering(p, k)' => Registering(p, k)
    BY <2>1, <2>3, <2>4, NoneIsNone DEF Registering
  <2>9. \A f \in Files : Inside(p, f)' => f \in files
    BY <2>1, <2>3, <2>4 DEF Inside
  <2> QED
    BY <1>12, <2>3, <2>4, <2>5, <2>7, <2>8, <2>9
       DEF RunBegin, Quiet, At, UnregPcs, InPcs, RunPcs, LogPcs, ReadPcs
<1>13. CASE RunClear(p)
  <2>1. Goto(p, "oops") \/ Goto(p, "w_body")
    BY <1>13 DEF RunClear
  <2> QED
    BY <1>5, <1>13, <2>1, PcsAre DEF RunClear, At, RunPcs, UnregPcs
<1>14. CASE RunLog(p)
  <2>1. ~Panicked /\ th[p].pc = "w_body" /\ UNCHANGED <<koState, caseList, mutex, files>>
    BY <1>14 DEF RunLog, At
  <2>2. PICK m \in LineLens :
          Become(p, [th[p] EXCEPT !.pc = "l_find", !.n = m, !.said = @ + m, !.lines = @ + 1])
    BY <1>14 DEF RunLog
  <2> DEFINE t == [th[p] EXCEPT !.pc = "l_find", !.n = m, !.said = @ + m, !.lines = @ + 1]
  <2>3. m \in Nat
    BY SizeAssumption
  <2>4. th[p].said + m \in Nat /\ th[p].lines + 1 \in Nat
    BY <1>1, <2>3 DEF Thread
  <2>5. t \in Thread
    BY <1>1, <2>3, <2>4, PcsAre, ThreadUpdates, Zenon
  <2>6. /\ t.pc = "l_find" /\ t.ko = th[p].ko /\ t.f = th[p].f /\ t.i = th[p].i
        /\ t.mod = th[p].mod /\ t.dst = th[p].dst
    BY <1>1 DEF Thread
  <2> QED
    BY <1>8, <2>1, <2>2, <2>5, <2>6 DEF RunPcs
<1>15. CASE RunReturn(p)
  <2>1. PICK v \in Verdicts : Become(p, [th[p] EXCEPT !.pc = "w_succ", !.v = v])
    BY <1>15 DEF RunReturn
  <2> DEFINE t == [th[p] EXCEPT !.pc = "w_succ", !.v = v]
  <2>2. t \in Thread
    BY <1>1, PcsAre, InputAssumption, ThreadUpdates, Zenon
  <2>3. /\ t.pc = "w_succ" /\ t.ko = th[p].ko /\ t.f = th[p].f /\ t.i = th[p].i
        /\ t.mod = th[p].mod /\ t.dst = th[p].dst
    BY <1>1 DEF Thread
  <2> QED
    BY <1>8, <1>15, <2>1, <2>2, <2>3 DEF RunReturn, At, RunPcs
<1>16. CASE RunSucc(p)
  BY <1>5, <1>16, PcsAre DEF RunSucc, At, RunPcs
<1>17. CASE RunRes(p)
  BY <1>4, <1>5, <1>17, PcsAre DEF RunRes, At, RunPcs, UnregPcs
<1>18. CASE RunEnd(p)
  BY <1>4, <1>18 DEF RunEnd, At, UnregPcs
<1>19. CASE LogFind(p)
  <2>1. ~Panicked /\ th[p].pc = "l_find" /\ UNCHANGED <<koState, caseList, mutex, files>>
    BY <1>19 DEF LogFind, At
  <2>2. ASSUME NEW j \in DOMAIN caseList, Found(p, j),
               Become(p, [th[p] EXCEPT !.pc = "l_case", !.mod = caseList[j]])
        PROVE  Quiet(p)
    <3> DEFINE t == [th[p] EXCEPT !.pc = "l_case", !.mod = caseList[j]]
    <3>1. caseList[j] \in Kos
      BY ListedKos DEF IInv
    <3>2. t \in Thread
      BY <1>1, <3>1, PcsAre, ThreadUpdates, Zenon
    <3>3. th'[p] = t
      BY <1>1, <2>2, <3>2, Becomes
    <3>4. /\ t.pc = "l_case" /\ t.ko = th[p].ko /\ t.f = th[p].f /\ t.i = th[p].i
          /\ t.mod = caseList[j]
      BY <1>1 DEF Thread
    <3>5. NamesDisjoint => caseList[j] = Home(p)
      BY <2>1, <2>2, FoundIsHome
    <3>6. LocalsOf(p)'
      BY <1>1, <2>1, <3>1, <3>3, <3>4, <3>5, NoneIsNone
         DEF LocalsOf, Home, NamesDisjoint, RegPcs, UnregPcs, RunPcs, ReadPcs, LogPcs
    <3>7. Shape(t)
      BY <2>1, <3>4 DEF Shape, RegPcs, UnregPcs, InPcs, RunPcs, ReadPcs, LogPcs
    <3> QED
      BY <1>3, <2>1, <2>2, <3>2, <3>6, <3>7 DEF UnregPcs
  <2> QED
    BY <1>6, <1>19, <2>1, <2>2 DEF LogFind, LogPcs
<1>20. CASE LogCase(p)
  <2>1. ~Panicked /\ th[p].pc = "l_case" /\ UNCHANGED <<koState, caseList, mutex, files>>
    BY <1>20, Zenon DEF LogCase, At
  <2>2. th[p].mod \in Kos
    BY <1>1, <2>1 DEF LocalsOf, Thread
  <2>3. ASSUME NEW j \in DOMAIN CaseTable[th[p].mod],
               Become(p, [th[p] EXCEPT !.pc = "l_len", !.dst = CaseTable[th[p].mod][j]])
        PROVE  Quiet(p)
    <3> DEFINE c == CaseTable[th[p].mod][j]
               t == [th[p] EXCEPT !.pc = "l_len", !.dst = c]
    <3>1. c \in Cases /\ KoOf(c) = th[p].mod
      BY <2>2, TableEntries
    <3>2. t \in Thread
      BY <1>1, <3>1, PcsAre, ThreadUpdates, Zenon
    <3>3. th'[p] = t
      BY <1>1, <2>3, <3>2, Becomes
    <3>4. /\ t.pc = "l_len" /\ t.ko = th[p].ko /\ t.f = th[p].f /\ t.i = th[p].i
          /\ t.dst = c
      BY <1>1 DEF Thread
    <3>5. LocalsOf(p)'
      BY <1>1, <2>1, <3>1, <3>3, <3>4, NoneIsNone
         DEF LocalsOf, Home, NamesDisjoint, RegPcs, UnregPcs, RunPcs, ReadPcs, LogPcs
    <3>6. Shape(t)
      BY <2>1, <3>4 DEF Shape, RegPcs, UnregPcs, InPcs, RunPcs, ReadPcs, LogPcs
    <3> QED
      BY <1>3, <2>1, <2>3, <3>2, <3>5, <3>6 DEF UnregPcs
  <2> QED
    BY <1>6, <1>20, <2>1, <2>3, Zenon DEF LogCase, LogPcs
<1>21. CASE LogLen(p)
  <2>1. ~Panicked /\ th[p].pc = "l_len" /\ UNCHANGED <<koState, caseList, mutex, files>>
    BY <1>21 DEF LogLen, At
  <2>2. CASE Goto(p, "oops")
    BY <1>5, <2>1, <2>2, PcsAre DEF UnregPcs
  <2>3. CASE LogReturn(p)
    BY <1>6, <2>1, <2>3 DEF LogPcs
  <2> DEFINE room == PageSize - logLen[th[p].dst] - 1
             n == IF th[p].n < room THEN th[p].n ELSE room
             t == [th[p] EXCEPT !.pc = "l_cat", !.n = n]
  <2>4. CASE room > 0 /\ Become(p, t)
    <3>1. room \in Int
      <4>1. logLen \in [Cases -> Nat] /\ th[p].dst \in Cases
        BY <1>1, <2>1 DEF IInv, TypeOK, LocalsOf, Thread
      <4>2. PageSize \in Nat
        BY SizeAssumption
      <4> QED
        BY <4>1, <4>2
    <3>2. n \in Nat
      BY <1>1, <2>4, <3>1 DEF Thread
    <3>3. t \in Thread
      <4> HIDE DEF n
      <4> QED
        BY <1>1, <3>2, PcsAre, ThreadUpdates, Zenon
    <3>4. /\ t.pc = "l_cat" /\ t.ko = th[p].ko /\ t.f = th[p].f /\ t.i = th[p].i
          /\ t.mod = th[p].mod /\ t.dst = th[p].dst
      BY <1>1 DEF Thread
    <3> QED
      BY <1>8, <2>1, <2>4, <3>3, <3>4
  <2> QED
    BY <1>21, <2>2, <2>3, <2>4 DEF LogLen
<1>22. CASE LogCat(p)
  BY <1>6, <1>22 DEF LogCat, At, LogPcs
<1>23. ASSUME NEW f \in Cases \X ReadKinds, ReadBegin(p, f)
       PROVE  Quiet(p)
  BY <1>7, <1>23, InputAssumption DEF ReadBegin, At, Files
<1>24. CASE ReadCheck(p)
  BY <1>4, <1>5, <1>24, PcsAre DEF ReadCheck, At, ReadPcs, UnregPcs
<1>25. CASE ReadCount(p)
  <2>1. ~Panicked /\ th[p].pc = "d_cnt" /\ UNCHANGED <<koState, caseList, mutex, files>>
    BY <1>25 DEF ReadCount, At
  <2>2. PICK n : Become(p, [th[p] EXCEPT !.pc = "d_copy", !.n = n])
    BY <1>25 DEF ReadCount
  <2> DEFINE t == [th[p] EXCEPT !.pc = "d_copy", !.n = n]
  <2>3. th'[p] = t /\ th' \in [Procs -> Thread]
    <3>1. th' \in [Procs -> Thread]
      BY <1>25, ThreadsTyped DEF IInv, Step
    <3> QED
      BY <1>1, <2>2, <3>1 DEF Become
  <2>4. t \in Thread
    BY <2>3
  <2>5. /\ t.pc = "d_copy" /\ t.ko = th[p].ko /\ t.f = th[p].f /\ t.i = th[p].i
        /\ t.mod = th[p].mod /\ t.dst = th[p].dst
    BY <1>1 DEF Thread
  <2> QED
    BY <1>8, <2>1, <2>2, <2>4, <2>5 DEF ReadPcs
<1>26. CASE ReadCopy(p)
  <2>1. ~Panicked /\ th[p].pc = "d_copy" /\ UNCHANGED <<koState, caseList, mutex, files>>
    BY <1>26 DEF ReadCopy, At
  <2>2. CASE Return(p)
    BY <1>4, <2>1, <2>2 DEF UnregPcs
  <2>3. CASE Goto(p, "oops")
    BY <1>5, <2>1, <2>3, PcsAre DEF UnregPcs
  <2> DEFINE t == [th[p] EXCEPT !.pc = "d_next", !.pos = @ + th[p].n, !.n = 0]
  <2>4. CASE Become(p, t)
    <3>1. th[p].pos + th[p].n \in Nat
      BY <1>1 DEF Thread
    <3>2. t \in Thread
      BY <1>1, <3>1, PcsAre, ThreadUpdates, Zenon
    <3>3. /\ t.pc = "d_next" /\ t.ko = th[p].ko /\ t.f = th[p].f /\ t.i = th[p].i
          /\ t.mod = th[p].mod /\ t.dst = th[p].dst
      BY <1>1 DEF Thread
    <3> QED
      BY <1>8, <2>1, <2>4, <3>2, <3>3, Zenon DEF ReadPcs
  <2> QED
    BY <1>26, <2>2, <2>3, <2>4 DEF ReadCopy
<1>27. CASE ReadNext(p)
  <2>1. th[p].f \in Files
    BY <1>1, <1>27 DEF ReadNext, At, LocalsOf, Thread
  <2> QED
    BY <1>4, <1>7, <1>27, <2>1 DEF ReadNext, At, UnregPcs
<1> QED
  BY <1>10, <1>11, <1>12, <1>13, <1>14, <1>15, <1>16, <1>17, <1>18, <1>19, <1>20, <1>21,
     <1>22, <1>23, <1>24, <1>25, <1>26, <1>27
------------------------------------------------------------------------------
\* The other steps: a ko comes, is registered, goes.

LEMMA InsmodKeeps ==
  ASSUME IInv, TypeOK', NEW p \in Procs, NEW k \in Kos, Insmod(p, k)
  PROVE  IInv'
<1>1. th \in [Procs -> Thread] /\ th[p] \in Thread /\ LocalsOf(p)
  BY DEF IInv, TypeOK, LocalsOK
<1>2. /\ th[p].pc = "idle" /\ th[p].f = None /\ ~Panicked
      /\ koState[k] = "absent" /\ koState' = [koState EXCEPT ![k] = "coming"]
      /\ UNCHANGED <<caseList, mutex, files>>
  BY <1>1 DEF Insmod, At, LocalsOf
<1>3. PICK l \in {"r_add", "oops"} : Become(p, [th[p] EXCEPT !.pc = l, !.ko = k])
  BY DEF Insmod
<1>4. [th[p] EXCEPT !.pc = l, !.ko = k] \in Thread
  BY <1>1, PcsAre, ThreadUpdates, Zenon
<1>5. /\ th'[p].pc = l /\ th'[p].ko = k /\ th'[p].f = None /\ th'[p].i = th[p].i
      /\ \A q \in Procs \ {p} : th'[q] = th[q]
  <2> DEFINE t == [th[p] EXCEPT !.pc = l, !.ko = k]
  <2>1. th'[p] = t /\ \A q \in Procs \ {p} : th'[q] = th[q]
    BY <1>1, <1>3, <1>4, Becomes
  <2>2. t.pc = l /\ t.ko = k /\ t.f = th[p].f /\ t.i = th[p].i
    BY <1>1 DEF Thread
  <2> QED
    BY <1>2, <2>1, <2>2
<1>6. koState \in [Kos -> LoadStates]
  BY DEF IInv, TypeOK
<1>7. \A q \in Procs : ~Registering(q, k) /\ ~Unregistering(q, k)
  BY <1>2 DEF IInv, OneOwner
<1>8. LocalsOK'
  <2>1. LocalsOf(p)'
    BY <1>1, <1>5 DEF LocalsOf, RegPcs, UnregPcs, RunPcs, LogPcs, ReadPcs
  <2>2. ASSUME NEW q \in Procs \ {p} PROVE LocalsOf(q)'
    BY <1>5 DEF IInv, LocalsOK, LocalsOf, Home
  <2> QED
    BY <2>1, <2>2 DEF LocalsOK
<1>9. OneOwner'
  <2>1. \A q \in Procs \ {p}, j \in Kos :
          /\ Registering(q, j)' <=> Registering(q, j)
          /\ Unregistering(q, j)' <=> Unregistering(q, j)
    BY <1>5 DEF Registering, Unregistering
  <2>2. \A j \in Kos : ~Unregistering(p, j)' /\ (Registering(p, j)' => j = k)
    BY <1>5 DEF Registering, Unregistering, UnregPcs
  <2> QED
    BY <1>2, <1>6, <1>7, <2>1, <2>2 DEF IInv, OneOwner
<1>10. FilesOK'
  <2>1. \A f \in files : KoOf(f[1]) \in Kos /\ KoOf(f[1]) # k
    BY <1>2, OwnerOfCase DEF IInv, TypeOK, FilesOK, Files
  <2> QED
    BY <1>2, <1>5, <1>6, <2>1 DEF IInv, FilesOK, UnregPcs
<1>11. Drained'
  BY <1>2, <1>5 DEF IInv, Drained, Inside, InPcs, RunPcs, LogPcs, ReadPcs
<1>12. ListMatchesLoader'
  <2>1. \A q \in Procs : th'[q].pc \in {"u_fs", "u_drain"} <=> th[q].pc \in {"u_fs", "u_drain"}
    BY <1>2, <1>5
  <2>2. ASSUME l = "r_add", NEW j \in Kos
        PROVE  Listed(j) <=> koState'[j] # "absent" /\ \A q \in Procs : th'[q].ko = j => th'[q].pc # "r_add"
    BY <1>2, <1>5, <1>6, <2>2 DEF IInv, ListMatchesLoader
  <2>3. l = "oops" => Panicked'
    BY <1>5 DEF Panicked
  <2> QED
    BY <1>2, <2>1, <2>2, <2>3 DEF IInv, ListMatchesLoader, Listed
<1> QED
  BY <1>8, <1>9, <1>10, <1>11, <1>12 DEF IInv

LEMMA RegAddKeeps ==
  ASSUME IInv, TypeOK', NEW p \in Procs, RegAdd(p)
  PROVE  IInv'
<1> DEFINE k == th[p].ko
<1>1. th \in [Procs -> Thread] /\ th[p] \in Thread /\ LocalsOf(p)
  BY DEF IInv, TypeOK, LocalsOK
<1>2. /\ th[p].pc = "r_add" /\ ~Panicked /\ k \in Kos /\ th[p].f = None
      /\ caseList' = Append(caseList, k)
      /\ UNCHANGED <<koState, mutex, files>>
  BY <1>1 DEF RegAdd, At, LocalsOf, RegPcs
<1>3. /\ th'[p].pc = "r_fs" /\ th'[p].ko = k /\ th'[p].f = None /\ th'[p].i = th[p].i
      /\ \A q \in Procs \ {p} : th'[q] = th[q]
  BY <1>1, <1>2, PcsAre, Goes DEF RegAdd
<1>4. Registering(p, k) /\ koState[k] = "coming"
      /\ \A q \in Procs : Registering(q, k) => q = p
  BY <1>2 DEF IInv, OneOwner, Registering, RegPcs
<1>5. LocalsOK'
  <2>1. LocalsOf(p)'
    BY <1>1, <1>2, <1>3 DEF LocalsOf, RegPcs, UnregPcs, RunPcs, LogPcs, ReadPcs
  <2>2. ASSUME NEW q \in Procs \ {p} PROVE LocalsOf(q)'
    BY <1>3 DEF IInv, LocalsOK, LocalsOf, Home
  <2> QED
    BY <2>1, <2>2 DEF LocalsOK
<1>6. OneOwner'
  <2>1. \A q \in Procs, j \in Kos :
          /\ Registering(q, j)' <=> Registering(q, j)
          /\ Unregistering(q, j)' <=> Unregistering(q, j)
    BY <1>2, <1>3 DEF Registering, Unregistering, RegPcs, UnregPcs
  <2> QED
    BY <1>2, <2>1 DEF IInv, OneOwner
<1>7. FilesOK'
  BY <1>2, <1>3 DEF IInv, FilesOK, UnregPcs
<1>8. Drained'
  BY <1>2, <1>3 DEF IInv, Drained, Inside, InPcs, RunPcs, LogPcs, ReadPcs
<1>9. ListMatchesLoader'
  <2>1. caseList \in Seq(Kos) /\ Len(caseList) \in Nat /\ DOMAIN caseList = 1 .. Len(caseList)
    BY LenProperties DEF IInv, TypeOK
  <2>2. /\ DOMAIN caseList' = 1 .. Len(caseList) + 1
        /\ \A j \in 1 .. Len(caseList) : caseList'[j] = caseList[j]
        /\ caseList'[Len(caseList) + 1] = k
    BY <1>2, <2>1, AppendProperties, LenProperties
  <2>3. ~Listed(k)
    BY <1>2 DEF IInv, ListMatchesLoader
  <2>4. \A j \in Kos : Listed(j)' <=> Listed(j) \/ j = k
    BY <2>1, <2>2 DEF Listed
  <2>5. \A i, j \in DOMAIN caseList' : caseList'[i] = caseList'[j] => i = j
    BY <2>1, <2>2, <2>3 DEF Listed, IInv, ListMatchesLoader
  <2>6. \A q \in Procs : th'[q].pc \in {"u_fs", "u_drain"} <=> th[q].pc \in {"u_fs", "u_drain"}
    BY <1>2, <1>3
  <2>7. \A q \in Procs : th'[q].pc = "r_add" => th'[q].ko # k
    <3>1. ASSUME NEW q \in Procs \ {p}, th[q].pc = "r_add", th[q].ko = k PROVE FALSE
      <4>1. th[q].f = None
        BY <3>1 DEF IInv, LocalsOK, LocalsOf, RegPcs
      <4> QED
        BY <1>4, <3>1, <4>1 DEF Registering, RegPcs
    <3> QED
      BY <1>3, <3>1
  <2>8. \A j \in Kos \ {k} : (\A q \in Procs : th'[q].ko = j => th'[q].pc # "r_add")
                              <=> (\A q \in Procs : th[q].ko = j => th[q].pc # "r_add")
    BY <1>3
  <2>9. \A j \in Kos : Listed(j)' <=> /\ koState'[j] # "absent"
                                     /\ \A q \in Procs : th'[q].ko = j => th'[q].pc # "r_add"
    BY <1>2, <1>4, <2>4, <2>7, <2>8 DEF IInv, ListMatchesLoader
  <2> QED
    BY <1>2, <2>5, <2>6, <2>9 DEF IInv, ListMatchesLoader
<1> QED
  BY <1>5, <1>6, <1>7, <1>8, <1>9 DEF IInv

\* A linked file's ko has finished list_add_tail; p is registering it or no one is.
LEMMA RegFilesKeeps ==
  ASSUME IInv, TypeOK', NEW p \in Procs, RegFiles(p)
  PROVE  IInv'
<1> DEFINE k == th[p].ko
           i == th[p].i
<1>1. th \in [Procs -> Thread] /\ th[p] \in Thread /\ LocalsOf(p)
  BY DEF IInv, TypeOK, LocalsOK
<1>2. /\ th[p].pc = "r_fs" /\ ~Panicked /\ k \in Kos /\ th[p].f = None
      /\ UNCHANGED <<koState, caseList, mutex>>
  BY <1>1 DEF RegFiles, At, LocalsOf, RegPcs
<1>3. PICK l \in {"r_log", "r_func"} :
        /\ Goto(p, l)
        /\ l = "r_log" => i \in DOMAIN CaseTable[k]
        /\ \/ l = "r_log" /\ files' = files \cup {<<CaseTable[k][i], x>> : x \in Kinds}
           \/ files' = files
  BY DEF RegFiles
<1>4. /\ th'[p].pc = l /\ th'[p].ko = k /\ th'[p].f = None /\ th'[p].i = i
      /\ \A q \in Procs \ {p} : th'[q] = th[q]
  BY <1>1, <1>2, <1>3, PcsAre, Goes
<1>5. /\ Registering(p, k) /\ koState[k] = "coming"
      /\ \A q \in Procs : (Registering(q, k) => q = p) /\ ~Unregistering(q, k)
  BY <1>2 DEF IInv, OneOwner, Registering, RegPcs
<1>6. LocalsOK'
  <2>1. LocalsOf(p)'
    BY <1>1, <1>2, <1>3, <1>4 DEF LocalsOf, RegPcs, UnregPcs, RunPcs, LogPcs, ReadPcs
  <2>2. ASSUME NEW q \in Procs \ {p} PROVE LocalsOf(q)'
    BY <1>4 DEF IInv, LocalsOK, LocalsOf, Home
  <2> QED
    BY <2>1, <2>2 DEF LocalsOK
<1>7. OneOwner'
  <2>1. \A q \in Procs, j \in Kos :
          /\ Registering(q, j)' <=> Registering(q, j)
          /\ Unregistering(q, j)' <=> Unregistering(q, j)
    BY <1>2, <1>3, <1>4 DEF Registering, Unregistering, RegPcs, UnregPcs
  <2> QED
    BY <1>2, <2>1 DEF IInv, OneOwner
<1>8. FilesOK'
  <2>1. \A f \in files' : f \in files \/ KoOf(f[1]) = k
    BY <1>2, <1>3, TableEntries
  <2>2. \A q \in Procs : th'[q].pc \in UnregPcs =>
          /\ q # p /\ th'[q] = th[q] /\ th[q].pc \in UnregPcs
          /\ th[q].ko \in Kos /\ th[q].ko # k
    BY <1>3, <1>4, <1>5 DEF UnregPcs, Unregistering, IInv, LocalsOK, LocalsOf
  <2>3. \A f \in files' : koState'[KoOf(f[1])] # "absent"
    BY <1>2, <1>5, <2>1 DEF IInv, FilesOK
  <2>4. ASSUME NEW f \in files', NEW q \in Procs, th'[q].pc = "r_add", th'[q].ko = KoOf(f[1])
        PROVE  FALSE
    <3>1. q # p /\ th[q].pc = "r_add" /\ th[q].ko = KoOf(f[1])
      BY <1>3, <1>4, <2>4
    <3>2. th[q].f = None
      BY <3>1 DEF IInv, LocalsOK, LocalsOf, RegPcs
    <3>3. f \notin files
      BY <3>1 DEF IInv, FilesOK
    <3> QED
      BY <1>5, <2>1, <3>1, <3>2, <3>3 DEF Registering, RegPcs
  <2>5. ASSUME NEW q \in Procs, th'[q].pc \in UnregPcs,
               NEW j \in DOMAIN CaseTable[th'[q].ko], NEW x \in Kinds, j < th'[q].i
        PROVE  <<CaseTable[th'[q].ko][j], x>> \notin files'
    <3>1. KoOf(CaseTable[th[q].ko][j]) = th[q].ko
      BY <2>2, <2>5, TableEntries
    <3>2. <<CaseTable[th[q].ko][j], x>> \notin files
      BY <2>2, <2>5 DEF IInv, FilesOK
    <3> QED
      BY <2>1, <2>2, <2>5, <3>1, <3>2
  <2>6. ASSUME NEW q \in Procs, th'[q].pc = "u_drain"
        PROVE  th'[q].rm \notin files'
    <3>1. th'[q] = th[q] /\ th[q].ko \in Kos /\ th[q].ko # k
      BY <2>2, <2>6 DEF UnregPcs
    <3>2. KoOf(th[q].rm[1]) = th[q].ko /\ th[q].rm \notin files
      BY <2>6, <3>1, OwnerOfCase DEF IInv, FilesOK, LocalsOK, LocalsOf
    <3> QED
      BY <2>1, <3>1, <3>2
  <2> QED
    BY <2>3, <2>4, <2>5, <2>6 DEF FilesOK
<1>9. Drained'
  BY <1>2, <1>3, <1>4 DEF IInv, Drained, Inside, InPcs, RunPcs, LogPcs, ReadPcs
<1>10. ListMatchesLoader'
  BY <1>2, <1>3, <1>4 DEF IInv, ListMatchesLoader, Listed
<1> QED
  BY <1>6, <1>7, <1>8, <1>9, <1>10 DEF IInv

\* insmod's last step: the ko is live and the thread idle.
LEMMA RegFuncKeeps ==
  ASSUME IInv, TypeOK', NEW p \in Procs, RegFunc(p), ~UNCHANGED koState
  PROVE  IInv'
<1> DEFINE k == th[p].ko
<1>1. th \in [Procs -> Thread] /\ th[p] \in Thread /\ LocalsOf(p)
  BY DEF IInv, TypeOK, LocalsOK
<1>2. /\ th[p].pc = "r_func" /\ ~Panicked /\ k \in Kos /\ th[p].f = None
      /\ koState' = [koState EXCEPT ![k] = "live"] /\ Return(p)
      /\ UNCHANGED <<caseList, mutex, files>>
  BY <1>1 DEF RegFunc, At, LocalsOf, RegPcs
<1>3. th'[p] = Idle /\ \A q \in Procs \ {p} : th'[q] = th[q]
  <2>1. Idle \in Thread
    BY PcsAre DEF Thread, Idle
  <2> QED
    BY <1>1, <1>2, <2>1, Becomes DEF Return
<1>4. th'[p].pc = "idle" /\ th'[p].f = None /\ th'[p].i = 1
  BY <1>3 DEF Idle
<1>5. koState \in [Kos -> LoadStates]
  BY DEF IInv, TypeOK
<1>6. /\ koState[k] = "coming"
      /\ \A q \in Procs : (Registering(q, k) => q = p) /\ ~Unregistering(q, k)
  BY <1>2 DEF IInv, OneOwner, Registering, RegPcs
<1>7. LocalsOK'
  <2>1. LocalsOf(p)'
    BY <1>4 DEF LocalsOf, RegPcs, UnregPcs, RunPcs, LogPcs, ReadPcs
  <2>2. ASSUME NEW q \in Procs \ {p} PROVE LocalsOf(q)'
    BY <1>3 DEF IInv, LocalsOK, LocalsOf, Home
  <2> QED
    BY <2>1, <2>2 DEF LocalsOK
<1>8. OneOwner'
  <2>1. \A q \in Procs \ {p}, j \in Kos :
          /\ Registering(q, j)' <=> Registering(q, j)
          /\ Unregistering(q, j)' <=> Unregistering(q, j)
    BY <1>3 DEF Registering, Unregistering
  <2>2. \A j \in Kos : ~Unregistering(p, j)' /\ ~Registering(p, j)'
    BY <1>4 DEF Registering, Unregistering, RegPcs, UnregPcs, LogPcs
  <2> QED
    BY <1>2, <1>5, <1>6, <2>1, <2>2 DEF IInv, OneOwner
<1>9. FilesOK'
  <2>1. \A j \in Kos : koState'[j] # "absent" <=> koState[j] # "absent"
    BY <1>2, <1>5, <1>6
  <2>2. \A f \in files : KoOf(f[1]) \in Kos
    BY OwnerOfCase DEF IInv, TypeOK, Files
  <2> QED
    BY <1>2, <1>3, <1>4, <2>1, <2>2 DEF IInv, FilesOK, UnregPcs
<1>10. Drained'
  BY <1>2, <1>3, <1>4 DEF IInv, Drained, Inside, InPcs, RunPcs, LogPcs, ReadPcs
<1>11. ListMatchesLoader'
  <2>1. \A j \in Kos : koState'[j] # "absent" <=> koState[j] # "absent"
    BY <1>2, <1>5, <1>6
  <2>2. \A q \in Procs : /\ th'[q].pc \in {"u_fs", "u_drain"} <=> th[q].pc \in {"u_fs", "u_drain"}
                         /\ th'[q].pc = "r_add" <=> th[q].pc = "r_add"
                         /\ th[q].pc = "r_add" => th'[q].ko = th[q].ko
    BY <1>2, <1>3, <1>4
  <2> QED
    BY <1>2, <2>1, <2>2 DEF IInv, ListMatchesLoader, Listed
<1> QED
  BY <1>7, <1>8, <1>9, <1>10, <1>11 DEF IInv

\* rmmod begins on a live ko, which no thread is registering or removing.
LEMMA RmmodKeeps ==
  ASSUME IInv, TypeOK', NEW p \in Procs, NEW k \in Kos, Rmmod(p, k)
  PROVE  IInv'
<1>1. th \in [Procs -> Thread] /\ th[p] \in Thread /\ LocalsOf(p)
  BY DEF IInv, TypeOK, LocalsOK
<1>2. /\ th[p].pc = "idle" /\ th[p].f = None /\ th[p].i = 1 /\ ~Panicked
      /\ koState[k] = "live" /\ koState' = [koState EXCEPT ![k] = "going"]
      /\ UNCHANGED <<caseList, mutex, files>>
  BY <1>1 DEF Rmmod, At, LocalsOf
<1>3. /\ th'[p].pc = "u_lock" /\ th'[p].ko = k /\ th'[p].f = None /\ th'[p].i = 1
      /\ \A q \in Procs \ {p} : th'[q] = th[q]
  <2> DEFINE t == [th[p] EXCEPT !.pc = "u_lock", !.ko = k]
  <2>1. t \in Thread
    BY <1>1, PcsAre, ThreadUpdates, Zenon
  <2>2. th'[p] = t /\ \A q \in Procs \ {p} : th'[q] = th[q]
    BY <1>1, <2>1, Becomes DEF Rmmod
  <2>3. t.pc = "u_lock" /\ t.ko = k /\ t.f = th[p].f /\ t.i = th[p].i
    BY <1>1 DEF Thread
  <2> QED
    BY <1>2, <2>2, <2>3
<1>4. koState \in [Kos -> LoadStates]
  BY DEF IInv, TypeOK
<1>5. \A q \in Procs : ~Registering(q, k) /\ ~Unregistering(q, k)
  BY <1>2 DEF IInv, OneOwner
<1>6. LocalsOK'
  <2>1. LocalsOf(p)'
    BY <1>3 DEF LocalsOf, RegPcs, UnregPcs, RunPcs, LogPcs, ReadPcs
  <2>2. ASSUME NEW q \in Procs \ {p} PROVE LocalsOf(q)'
    BY <1>3 DEF IInv, LocalsOK, LocalsOf, Home
  <2> QED
    BY <2>1, <2>2 DEF LocalsOK
<1>7. OneOwner'
  <2>1. \A q \in Procs \ {p}, j \in Kos :
          /\ Registering(q, j)' <=> Registering(q, j)
          /\ Unregistering(q, j)' <=> Unregistering(q, j)
    BY <1>3 DEF Registering, Unregistering
  <2>2. \A j \in Kos : ~Registering(p, j)' /\ (Unregistering(p, j)' => j = k)
    BY <1>3 DEF Registering, Unregistering, RegPcs, LogPcs
  <2> QED
    BY <1>2, <1>4, <1>5, <2>1, <2>2 DEF IInv, OneOwner
<1>8. FilesOK'
  <2>1. \A j \in Kos : koState'[j] # "absent" <=> koState[j] # "absent"
    BY <1>2, <1>4
  <2>2. \A f \in files : KoOf(f[1]) \in Kos
    BY OwnerOfCase DEF IInv, TypeOK, Files
  <2>3. \A j \in DOMAIN CaseTable[k] : ~(j < 1)
    BY TableEntries, LenProperties
  <2>4. \A q \in Procs : th'[q].pc = "r_add" <=> th[q].pc = "r_add"
    BY <1>2, <1>3
  <2>5. \A q \in Procs : th'[q].pc = "u_drain" => th'[q].rm \notin files
    BY <1>3 DEF IInv, FilesOK
  <2>6. ASSUME NEW q \in Procs, th'[q].pc \in UnregPcs,
               NEW j \in DOMAIN CaseTable[th'[q].ko], NEW x \in Kinds, j < th'[q].i
        PROVE  <<CaseTable[th'[q].ko][j], x>> \notin files
    BY <1>3, <2>3, <2>6 DEF IInv, FilesOK
  <2>7. \A f \in files, q \in Procs : th'[q].pc = "r_add" => th'[q].ko # KoOf(f[1])
    BY <1>3 DEF IInv, FilesOK
  <2> QED
    BY <1>2, <2>1, <2>2, <2>5, <2>6, <2>7 DEF IInv, FilesOK
<1>9. Drained'
  BY <1>2, <1>3 DEF IInv, Drained, Inside, InPcs, RunPcs, LogPcs, ReadPcs
<1>10. ListMatchesLoader'
  <2>1. \A j \in Kos : koState'[j] # "absent" <=> koState[j] # "absent"
    BY <1>2, <1>4
  <2>2. \A q \in Procs : /\ th'[q].pc \in {"u_fs", "u_drain"} <=> th[q].pc \in {"u_fs", "u_drain"}
                         /\ th'[q].pc = "r_add" <=> th[q].pc = "r_add"
                         /\ th[q].pc = "r_add" => th'[q].ko = th[q].ko
    BY <1>2, <1>3
  <2> QED
    BY <1>2, <2>1, <2>2 DEF IInv, ListMatchesLoader, Listed
<1> QED
  BY <1>6, <1>7, <1>8, <1>9, <1>10 DEF IInv

\* unregister_cases takes the mutex: nobody else is past its lock.
LEMMA UnregLockKeeps ==
  ASSUME IInv, TypeOK', NEW p \in Procs, UnregLock(p)
  PROVE  IInv'
<1>1. th \in [Procs -> Thread] /\ th[p] \in Thread /\ LocalsOf(p)
  BY DEF IInv, TypeOK, LocalsOK
<1>2. /\ th[p].pc = "u_lock" /\ ~Panicked /\ mutex = None /\ mutex' = p
      /\ UNCHANGED <<koState, caseList, files>>
  BY DEF UnregLock, At
<1>3. /\ th'[p].pc = "u_fs" /\ th'[p].ko = th[p].ko /\ th'[p].f = th[p].f
      /\ th'[p].i = th[p].i /\ \A q \in Procs \ {p} : th'[q] = th[q]
  BY <1>1, PcsAre, Goes DEF UnregLock
<1>4. LocalsOK'
  <2>1. LocalsOf(p)'
    BY <1>1, <1>2, <1>3 DEF LocalsOf, RegPcs, UnregPcs, RunPcs, LogPcs, ReadPcs
  <2>2. ASSUME NEW q \in Procs \ {p} PROVE LocalsOf(q)'
    BY <1>3 DEF IInv, LocalsOK, LocalsOf, Home
  <2> QED
    BY <2>1, <2>2 DEF LocalsOK
<1>5. OneOwner'
  <2>1. \A q \in Procs, j \in Kos :
          /\ Registering(q, j)' <=> Registering(q, j)
          /\ Unregistering(q, j)' <=> Unregistering(q, j)
    BY <1>2, <1>3 DEF Registering, Unregistering, RegPcs, UnregPcs, LogPcs
  <2> QED
    BY <1>2, <2>1 DEF IInv, OneOwner
<1>6. FilesOK'
  <2>1. \A q \in Procs : th'[q].pc \in UnregPcs =>
          th[q].pc \in UnregPcs /\ th'[q].ko = th[q].ko /\ th'[q].i = th[q].i
    BY <1>2, <1>3 DEF UnregPcs
  <2>2. \A q \in Procs : th'[q].pc \in {"r_add", "u_drain"} => th'[q] = th[q]
    BY <1>3
  <2> QED
    BY <1>2, <2>1, <2>2 DEF IInv, FilesOK
<1>7. Drained'
  BY <1>2, <1>3 DEF IInv, Drained, Inside, InPcs, RunPcs, LogPcs, ReadPcs
<1>8. ListMatchesLoader'
  <2>1. \A q \in Procs \ {p} : th[q].pc \notin {"u_fs", "u_drain"}
    BY <1>2, NoneIsNone DEF IInv, ListMatchesLoader
  <2>2. \A q \in Procs : mutex' = q <=> th'[q].pc \in {"u_fs", "u_drain"}
    BY <1>2, <1>3, <2>1
  <2>3. \A q \in Procs : th'[q].pc = "r_add" <=> th[q].pc = "r_add"
    BY <1>2, <1>3
  <2>4. \A q \in Procs : th'[q].ko = th[q].ko
    BY <1>3
  <2> QED
    BY <1>2, <2>2, <2>3, <2>4 DEF IInv, ListMatchesLoader, Listed
<1> QED
  BY <1>4, <1>5, <1>6, <1>7, <1>8 DEF IInv

\* debugfs_remove_recursive unlinks a file and begins to wait for it, or is done
\* with the case and moves on to the next.
LEMMA UnregUnlinkKeeps ==
  ASSUME IInv, TypeOK', NEW p \in Procs, UnregUnlink(p)
  PROVE  IInv'
<1> DEFINE k == th[p].ko
           i == th[p].i
           c == CaseTable[k][i]
<1>1. th \in [Procs -> Thread] /\ th[p] \in Thread /\ LocalsOf(p)
  BY DEF IInv, TypeOK, LocalsOK
<1>2. /\ th[p].pc = "u_fs" /\ ~Panicked /\ th[p].f = None /\ k \in Kos
      /\ i \in DOMAIN CaseTable[k] /\ i \in Nat
      /\ UNCHANGED <<koState, caseList, mutex>>
  BY <1>1 DEF UnregUnlink, At, LocalsOf, UnregPcs, Thread
<1>3. c \in Cases /\ c \in CasesOf(k)
  BY <1>2, TableEntries
<1>4. \/ \E f \in files :
           /\ f[1] = c /\ files' = files \ {f}
           /\ th'[p].pc = "u_drain" /\ th'[p].rm = f /\ th'[p].i = i
      \/ /\ files' = files /\ \A x \in Kinds : <<c, x>> \notin files
         /\ th'[p].pc = "u_fs" /\ th'[p].i = i + 1
  <2>1. ASSUME NEW x \in Kinds, <<c, x>> \in files, files' = files \ {<<c, x>>},
               Become(p, [th[p] EXCEPT !.pc = "u_drain", !.rm = <<c, x>>])
        PROVE  /\ th'[p].pc = "u_drain" /\ th'[p].rm = <<c, x>> /\ th'[p].i = i
    <3> DEFINE t == [th[p] EXCEPT !.pc = "u_drain", !.rm = <<c, x>>]
    <3>1. <<c, x>> \in Files /\ "u_drain" \in Pcs
      BY <1>3, PcsAre DEF Files
    <3>2. t \in Thread
      BY <1>1, <3>1, ThreadUpdates, Zenon
    <3>3. th'[p] = t
      BY <1>1, <2>1, <3>2, Becomes
    <3>4. t.pc = "u_drain" /\ t.rm = <<c, x>> /\ t.i = i
      BY <1>1 DEF Thread
    <3> QED
      BY <3>3, <3>4
  <2>2. ASSUME Become(p, [th[p] EXCEPT !.i = @ + 1])
        PROVE  th'[p].pc = "u_fs" /\ th'[p].i = i + 1
    <3> DEFINE t == [th[p] EXCEPT !.i = @ + 1]
    <3>1. t \in Thread
      <4>1. i + 1 \in Nat
        BY <1>2
      <4>2. "u_fs" \in Pcs
        BY PcsAre
      <4> QED
        BY <1>1, <4>1, <4>2, ThreadUpdates, Zenon
    <3>2. th'[p] = t
      BY <1>1, <2>2, <3>1, Becomes
    <3>3. t.pc = th[p].pc /\ t.i = i + 1
      BY <1>1 DEF Thread
    <3> QED
      BY <1>2, <3>2, <3>3
  <2> QED
    BY <2>1, <2>2 DEF UnregUnlink
<1>5. th'[p].ko = k /\ th'[p].f = None /\ \A q \in Procs \ {p} : th'[q] = th[q]
  <2>1. \A x : LET t == [th[p] EXCEPT !.pc = "u_drain", !.rm = x]
               IN t.ko = k /\ t.f = None
    BY <1>1, <1>2 DEF Thread
  <2>2. [th[p] EXCEPT !.i = @ + 1].ko = k /\ [th[p] EXCEPT !.i = @ + 1].f = None
    BY <1>1, <1>2 DEF Thread
  <2> QED
    <3>1. ASSUME NEW t, Become(p, t), t.ko = k /\ t.f = None
          PROVE  th'[p].ko = k /\ th'[p].f = None /\ \A q \in Procs \ {p} : th'[q] = th[q]
      BY <1>1, <3>1 DEF Become
    <3> QED
      BY <2>1, <2>2, <3>1 DEF UnregUnlink
<1>6. th'[p].pc \in {"u_fs", "u_drain"}
  BY <1>4
<1>7. LocalsOK'
  <2>1. th'[p].i # 0
    BY <1>1, <1>2, <1>4 DEF LocalsOf
  <2>2. th'[p].pc = "u_drain" => th'[p].rm # None /\ th'[p].rm[1] \in CasesOf(k)
    <3>1. None \notin files
      BY NoneIsNone DEF IInv, TypeOK
    <3> QED
      BY <1>3, <1>4, <3>1
  <2>3. LocalsOf(p)'
    BY <1>2, <1>5, <1>6, <2>1, <2>2 DEF LocalsOf, RegPcs, UnregPcs, RunPcs, LogPcs, ReadPcs
  <2>4. ASSUME NEW q \in Procs \ {p} PROVE LocalsOf(q)'
    BY <1>5 DEF IInv, LocalsOK, LocalsOf, Home
  <2> QED
    BY <2>3, <2>4 DEF LocalsOK
<1>8. OneOwner'
  <2>1. \A q \in Procs, j \in Kos :
          /\ Registering(q, j)' <=> Registering(q, j)
          /\ Unregistering(q, j)' <=> Unregistering(q, j)
    BY <1>2, <1>5, <1>6 DEF Registering, Unregistering, RegPcs, UnregPcs, LogPcs
  <2> QED
    BY <1>2, <2>1 DEF IInv, OneOwner
<1>9. FilesOK'
  <2>1. files' \subseteq files
    BY <1>4
  <2>2. \A f \in files' : koState'[KoOf(f[1])] # "absent"
    BY <1>2, <2>1 DEF IInv, FilesOK
  <2>3. \A f \in files', q \in Procs : th'[q].pc = "r_add" => th'[q].ko # KoOf(f[1])
    BY <1>5, <1>6, <2>1 DEF IInv, FilesOK
  <2>4. ASSUME NEW q \in Procs, th'[q].pc \in UnregPcs,
               NEW j \in DOMAIN CaseTable[th'[q].ko], NEW x \in Kinds, j < th'[q].i
        PROVE  <<CaseTable[th'[q].ko][j], x>> \notin files'
    <3>1. CASE q # p
      BY <1>5, <2>1, <2>4, <3>1 DEF IInv, FilesOK
    <3>2. CASE q = p
      <4>1. j \in DOMAIN CaseTable[k] /\ j < th'[p].i
        BY <1>5, <2>4, <3>2
      <4>2. j \in Nat
        <5>1. CaseTable[k] \in Seq(Cases)
          BY <1>2, TableEntries
        <5>2. DOMAIN CaseTable[k] = 1 .. Len(CaseTable[k]) /\ Len(CaseTable[k]) \in Nat
          BY <5>1, LenProperties
        <5> QED
          BY <4>1, <5>2
      <4>3. j < i \/ (j = i /\ \A y \in Kinds : <<c, y>> \notin files)
        BY <1>2, <1>4, <4>1, <4>2
      <4>4. j < i => <<CaseTable[k][j], x>> \notin files
        BY <1>2, <4>1 DEF IInv, FilesOK, UnregPcs
      <4> QED
        BY <1>5, <2>1, <3>2, <4>3, <4>4
    <3> QED
      BY <3>1, <3>2
  <2>5. \A q \in Procs : th'[q].pc = "u_drain" => th'[q].rm \notin files'
    BY <1>4, <1>5, <2>1 DEF IInv, FilesOK
  <2> QED
    BY <2>2, <2>3, <2>4, <2>5 DEF FilesOK
<1>10. Drained'
  <2> SUFFICES ASSUME NEW q \in Procs, NEW f \in Files, Inside(q, f)'
               PROVE  f \in files' \/ \E r \in Procs : th'[r].pc = "u_drain" /\ th'[r].rm = f
    BY DEF Drained
  <2>1. Inside(q, f)
    BY <1>5, <1>6 DEF Inside, InPcs, RunPcs, LogPcs, ReadPcs
  <2>2. f \in files \/ \E r \in Procs \ {p} : th[r].pc = "u_drain" /\ th[r].rm = f
    BY <1>2, <2>1 DEF IInv, Drained
  <2>3. f \in files => f \in files' \/ (th'[p].pc = "u_drain" /\ th'[p].rm = f)
    BY <1>4
  <2> QED
    BY <1>5, <2>2, <2>3
<1>11. ListMatchesLoader'
  <2>1. \A q \in Procs : /\ th'[q].pc \in {"u_fs", "u_drain"} <=> th[q].pc \in {"u_fs", "u_drain"}
                         /\ th'[q].pc = "r_add" <=> th[q].pc = "r_add"
                         /\ th'[q].ko = th[q].ko
    BY <1>2, <1>5, <1>6
  <2> QED
    BY <1>2, <2>1 DEF IInv, ListMatchesLoader, Listed
<1> QED
  BY <1>7, <1>8, <1>9, <1>10, <1>11 DEF IInv

\* debugfs_remove_recursive goes on when no call is inside the file it unlinked.
LEMMA UnregDrainKeeps ==
  ASSUME IInv, TypeOK', NEW p \in Procs, UnregDrain(p)
  PROVE  IInv'
<1>1. th \in [Procs -> Thread] /\ th[p] \in Thread /\ LocalsOf(p)
  BY DEF IInv, TypeOK, LocalsOK
<1>2. /\ th[p].pc = "u_drain" /\ ~Panicked /\ \A q \in Procs : ~Inside(q, th[p].rm)
      /\ UNCHANGED <<koState, caseList, mutex, files>>
  BY DEF UnregDrain, At
<1>3. /\ th'[p].pc = "u_fs" /\ th'[p].ko = th[p].ko /\ th'[p].f = th[p].f /\ th'[p].i = th[p].i
  <2>1. th'[p] = [th[p] EXCEPT !.pc = "u_fs", !.rm = None]
    BY DEF UnregDrain
  <2> QED
    BY <1>1, <2>1 DEF Thread
<1>4. \A q \in Procs \ {p} :
        \/ th'[q] = th[q]
        \/ th[q].pc = "d_next" /\ th'[q].pc = "idle" /\ th'[q].f = None /\ th'[q].i = 1
  BY DEF UnregDrain, Idle
<1>5. LocalsOK'
  <2>1. LocalsOf(p)'
    BY <1>1, <1>2, <1>3 DEF LocalsOf, RegPcs, UnregPcs, RunPcs, LogPcs, ReadPcs
  <2>2. ASSUME NEW q \in Procs \ {p} PROVE LocalsOf(q)'
    <3>1. CASE th'[q] = th[q]
      BY <3>1 DEF IInv, LocalsOK, LocalsOf, Home
    <3>2. CASE th'[q].pc = "idle" /\ th'[q].f = None /\ th'[q].i = 1
      BY <3>2 DEF LocalsOf, RegPcs, UnregPcs, RunPcs, LogPcs, ReadPcs
    <3> QED
      BY <1>4, <3>1, <3>2
  <2> QED
    BY <2>1, <2>2 DEF LocalsOK
<1>6. OneOwner'
  <2>1. \A q \in Procs, j \in Kos :
          /\ Registering(q, j)' => Registering(q, j)
          /\ Unregistering(q, j)' => Unregistering(q, j)
    BY <1>2, <1>3, <1>4 DEF Registering, Unregistering, RegPcs, UnregPcs, LogPcs
  <2> QED
    BY <1>2, <2>1 DEF IInv, OneOwner
<1>7. FilesOK'
  <2>1. \A q \in Procs : th'[q].pc \in UnregPcs =>
          th[q].pc \in UnregPcs /\ th'[q].ko = th[q].ko /\ th'[q].i = th[q].i
    BY <1>2, <1>3, <1>4 DEF UnregPcs
  <2>2. \A q \in Procs : th'[q].pc \in {"r_add", "u_drain"} => th'[q] = th[q]
    BY <1>3, <1>4
  <2> QED
    BY <1>2, <2>1, <2>2 DEF IInv, FilesOK
<1>8. Drained'
  <2> SUFFICES ASSUME NEW q \in Procs, NEW f \in Files, Inside(q, f)'
               PROVE  f \in files \/ \E r \in Procs : th'[r].pc = "u_drain" /\ th'[r].rm = f
    BY <1>2 DEF Drained
  <2>1. Inside(q, f)
    BY <1>3, <1>4 DEF Inside, InPcs, RunPcs, LogPcs, ReadPcs
  <2>2. f \in files \/ \E r \in Procs \ {p} : th[r].pc = "u_drain" /\ th[r].rm = f
    BY <1>2, <2>1 DEF IInv, Drained
  <2>3. \A r \in Procs \ {p} : th[r].pc = "u_drain" => th'[r] = th[r]
    BY <1>4
  <2> QED
    BY <2>2, <2>3
<1>9. ListMatchesLoader'
  <2>1. \A q \in Procs : /\ th'[q].pc \in {"u_fs", "u_drain"} <=> th[q].pc \in {"u_fs", "u_drain"}
                         /\ th'[q].pc = "r_add" <=> th[q].pc = "r_add"
                         /\ th[q].pc = "r_add" => th'[q].ko = th[q].ko
    BY <1>2, <1>3, <1>4
  <2> QED
    BY <1>2, <2>1 DEF IInv, ListMatchesLoader, Listed
<1> QED
  BY <1>5, <1>6, <1>7, <1>8, <1>9 DEF IInv

\* list_del from a list without repetitions takes away that module and no other.
LEMMA WithoutOne ==
  ASSUME NEW s \in Seq(Kos), \A i, j \in DOMAIN s : s[i] = s[j] => i = j,
         NEW j \in DOMAIN s
  PROVE  LET t == Without(s, j)
         IN /\ \A a, b \in DOMAIN t : t[a] = t[b] => a = b
            /\ \A k \in Kos : (\E a \in DOMAIN t : t[a] = k)
                                <=> k # s[j] /\ \E a \in DOMAIN s : s[a] = k
<1> DEFINE t == Without(s, j)
           From(a) == IF a < j THEN a ELSE a + 1
<1>1. Len(s) \in Nat /\ DOMAIN s = 1 .. Len(s) /\ j \in 1 .. Len(s)
  BY LenProperties
<1>2. DOMAIN t = 1 .. Len(s) - 1
  BY DEF Without
<1>3. \A a \in 1 .. Len(s) - 1 : From(a) \in DOMAIN s /\ From(a) # j /\ t[a] = s[From(a)]
  BY <1>1 DEF Without
<1>4. \A a, b \in 1 .. Len(s) - 1 : From(a) = From(b) => a = b
  BY <1>1
<1>5. \A b \in DOMAIN s : b # j => \E a \in 1 .. Len(s) - 1 : From(a) = b
  <2> SUFFICES ASSUME NEW b \in DOMAIN s, b # j
               PROVE  \E a \in 1 .. Len(s) - 1 : From(a) = b
    OBVIOUS
  <2>1. CASE b < j
    <3>1. b \in 1 .. Len(s) - 1 /\ From(b) = b
      BY <1>1, <2>1
    <3> QED
      BY <3>1
  <2>2. CASE b > j
    <3>1. b - 1 \in 1 .. Len(s) - 1 /\ From(b - 1) = b
      BY <1>1, <2>2
    <3> QED
      BY <3>1
  <2> QED
    BY <1>1, <2>1, <2>2
<1> HIDE DEF t, From
<1>6. \A a, b \in DOMAIN t : t[a] = t[b] => a = b
  BY <1>2, <1>3, <1>4
<1>7. ASSUME NEW k \in Kos
      PROVE  (\E a \in DOMAIN t : t[a] = k) <=> k # s[j] /\ \E a \in DOMAIN s : s[a] = k
  <2>1. ASSUME NEW a \in DOMAIN t, t[a] = k
        PROVE  k # s[j] /\ \E b \in DOMAIN s : s[b] = k
    BY <1>2, <1>3, <2>1
  <2>2. ASSUME k # s[j], NEW b \in DOMAIN s, s[b] = k
        PROVE  \E a \in DOMAIN t : t[a] = k
    <3>1. PICK a \in 1 .. Len(s) - 1 : From(a) = b
      BY <1>5, <2>2
    <3> QED
      BY <1>2, <1>3, <2>2, <3>1
  <2> QED
    BY <2>1, <2>2
<1> QED
  BY <1>6, <1>7 DEF t

\* When unregister_cases has gone through all cases of a ko, none of its files is
\* linked and no call is inside one.
LEMMA CasesClosed ==
  ASSUME IInv, NEW p \in Procs, th[p].pc = "u_fs",
         th[p].i \notin DOMAIN CaseTable[th[p].ko]
  PROVE  /\ \A f \in files : KoOf(f[1]) # th[p].ko
         /\ \A q \in Procs, f \in Files : Inside(q, f) => KoOf(f[1]) # th[p].ko
<1> DEFINE k == th[p].ko
<1>1. k \in Kos /\ th[p].i \in Nat /\ th[p].i # 0
  BY DEF IInv, TypeOK, LocalsOK, LocalsOf, Thread, UnregPcs
<1>2. \A j \in DOMAIN CaseTable[k] : j < th[p].i
  <2>1. CaseTable[k] \in Seq(Cases)
    BY <1>1, TableEntries
  <2>2. DOMAIN CaseTable[k] = 1 .. Len(CaseTable[k]) /\ Len(CaseTable[k]) \in Nat
    BY <2>1, LenProperties
  <2> QED
    BY <1>1, <2>2
<1>3. ASSUME NEW f \in files, KoOf(f[1]) = k
      PROVE  FALSE
  <2>1. f[1] \in Cases /\ f[2] \in Kinds /\ f = <<f[1], f[2]>>
    <3>1. f \in Cases \X Kinds
      BY DEF IInv, TypeOK, Files
    <3> QED
      BY <3>1
  <2>2. f[1] \in CasesOf(k)
    BY <1>3, <2>1, OwnerOfCase
  <2>3. PICK j \in DOMAIN CaseTable[k] : CaseTable[k][j] = f[1]
    BY <2>2 DEF CasesOf
  <2>4. <<CaseTable[k][j], f[2]>> \notin files
    BY <1>2, <2>1 DEF IInv, FilesOK, UnregPcs
  <2> QED
    BY <2>1, <2>3, <2>4
<1>4. ASSUME NEW q \in Procs, NEW f \in Files, Inside(q, f), KoOf(f[1]) = k
      PROVE  FALSE
  <2>1. PICK r \in Procs : th[r].pc = "u_drain" /\ th[r].rm = f
    BY <1>3, <1>4 DEF IInv, Drained
  <2>2. th[r].ko \in Kos /\ f[1] \in CasesOf(th[r].ko)
    BY <2>1 DEF IInv, LocalsOK, LocalsOf, UnregPcs
  <2>3. th[r].ko = k
    BY <1>4, <2>2, OwnerOfCase
  <2>4. Unregistering(r, k) /\ Unregistering(p, k)
    BY <2>1, <2>3 DEF Unregistering, UnregPcs
  <2> QED
    BY <1>1, <2>1, <2>4 DEF IInv, OneOwner
<1> QED
  BY <1>3, <1>4

\* The end of unregister_cases, and of rmmod: the module leaves the list, the
\* mutex is free, the ko is gone.
LEMMA RemovalKeeps ==
  ASSUME IInv, TypeOK', NEW p \in Procs, UnregDel(p)
  PROVE  IInv'
<1> DEFINE k == th[p].ko
<1>1. th \in [Procs -> Thread] /\ th[p] \in Thread /\ LocalsOf(p)
  BY DEF IInv, TypeOK, LocalsOK
<1>2. /\ th[p].pc = "u_fs" /\ ~Panicked /\ k \in Kos /\ th[p].f = None
      /\ th[p].i \notin DOMAIN CaseTable[k]
      /\ koState' = [koState EXCEPT ![k] = "absent"] /\ mutex' = None
      /\ UNCHANGED files
  BY <1>1 DEF UnregDel, At, LocalsOf, UnregPcs
<1>3. th'[p] = Idle /\ \A q \in Procs \ {p} : th'[q] = th[q]
  <2>1. Idle \in Thread
    BY PcsAre DEF Thread, Idle
  <2> QED
    BY <1>1, <2>1, Becomes DEF UnregDel, Return
<1>4. th'[p].pc = "idle" /\ th'[p].f = None /\ th'[p].i = 1
  BY <1>3 DEF Idle
<1>5. koState \in [Kos -> LoadStates]
  BY DEF IInv, TypeOK
<1>6. /\ koState[k] = "going"
      /\ \A q \in Procs : (Unregistering(q, k) => q = p) /\ ~Registering(q, k)
  BY <1>2 DEF IInv, OneOwner, Unregistering, UnregPcs
<1>7. LocalsOK'
  <2>1. LocalsOf(p)'
    BY <1>4 DEF LocalsOf, RegPcs, UnregPcs, RunPcs, LogPcs, ReadPcs
  <2>2. ASSUME NEW q \in Procs \ {p} PROVE LocalsOf(q)'
    BY <1>3 DEF IInv, LocalsOK, LocalsOf, Home
  <2> QED
    BY <2>1, <2>2 DEF LocalsOK
<1>8. OneOwner'
  <2>1. \A q \in Procs \ {p}, j \in Kos :
          /\ Registering(q, j)' <=> Registering(q, j)
          /\ Unregistering(q, j)' <=> Unregistering(q, j)
    BY <1>3 DEF Registering, Unregistering
  <2>2. \A j \in Kos : ~Unregistering(p, j)' /\ ~Registering(p, j)'
    BY <1>4 DEF Registering, Unregistering, RegPcs, UnregPcs, LogPcs
  <2> QED
    BY <1>2, <1>5, <1>6, <2>1, <2>2 DEF IInv, OneOwner
<1>9. FilesOK'
  <2>1. \A f \in files : KoOf(f[1]) \in Kos /\ KoOf(f[1]) # k
    BY <1>2, OwnerOfCase, CasesClosed DEF IInv, TypeOK, Files
  <2>2. \A f \in files : koState'[KoOf(f[1])] # "absent"
    BY <1>2, <1>5, <2>1 DEF IInv, FilesOK
  <2> QED
    BY <1>2, <1>3, <1>4, <2>2 DEF IInv, FilesOK, UnregPcs
<1>10. Drained'
  BY <1>2, <1>3, <1>4 DEF IInv, Drained, Inside, InPcs, RunPcs, LogPcs, ReadPcs
<1>11. ListMatchesLoader'
  <2>1. PICK j \in DOMAIN caseList : caseList[j] = k /\ caseList' = Without(caseList, j)
    BY DEF UnregDel
  <2>2. caseList \in Seq(Kos) /\ \A a, b \in DOMAIN caseList : caseList[a] = caseList[b] => a = b
    BY DEF IInv, TypeOK, ListMatchesLoader
  <2>3. \A a, b \in DOMAIN caseList' : caseList'[a] = caseList'[b] => a = b
    BY <2>1, <2>2, WithoutOne
  <2>4. \A h \in Kos : Listed(h)' <=> h # k /\ Listed(h)
    BY <2>1, <2>2, WithoutOne DEF Listed
  <2>5. \A q \in Procs : th'[q].pc = "r_add" <=> th[q].pc = "r_add"
    BY <1>2, <1>3, <1>4
  <2>6. \A q \in Procs : th[q].pc = "r_add" => th'[q].ko = th[q].ko
    BY <1>2, <1>3
  <2>7. \A h \in Kos : koState'[h] # "absent" <=> h # k /\ koState[h] # "absent"
    BY <1>2, <1>5, <1>6
  <2>8. mutex = p
    BY <1>2 DEF IInv, ListMatchesLoader
  <2>9. \A q \in Procs : mutex' # q /\ th'[q].pc \notin {"u_fs", "u_drain"}
    BY <1>2, <1>3, <1>4, <2>8, NoneIsNone DEF IInv, ListMatchesLoader
  <2> QED
    BY <1>2, <2>3, <2>4, <2>5, <2>6, <2>7, <2>9 DEF IInv, ListMatchesLoader
<1> QED
  BY <1>7, <1>8, <1>9, <1>10, <1>11 DEF IInv
------------------------------------------------------------------------------
LEMMA InitInv == Init => IInv
<1> SUFFICES ASSUME Init PROVE IInv
  OBVIOUS
<1>1. /\ koState = [k \in Kos |-> "absent"] /\ caseList = << >> /\ mutex = None
      /\ files = {} /\ th = [p \in Procs |-> Idle]
  BY DEF Init
<1>2. \A p \in Procs : /\ th[p].pc = "idle" /\ th[p].f = None /\ th[p].i = 1
                       /\ th[p].ko = None
  BY <1>1 DEF Idle
<1>3. LocalsOK
  BY <1>2 DEF LocalsOK, LocalsOf, RegPcs, UnregPcs, RunPcs, LogPcs, ReadPcs
<1>4. OneOwner
  BY <1>2, NoneIsNone DEF OneOwner, Registering, Unregistering
<1>5. FilesOK
  BY <1>1, <1>2 DEF FilesOK, UnregPcs
<1>6. Drained
  BY <1>2 DEF Drained, Inside, InPcs, RunPcs, LogPcs, ReadPcs
<1>7. ListMatchesLoader
  <2>1. DOMAIN caseList = {}
    BY <1>1
  <2> QED
    BY <1>1, <1>2, <2>1, NoneIsNone DEF ListMatchesLoader, Listed
<1> QED
  BY <1>3, <1>4, <1>5, <1>6, <1>7, InitTyped DEF IInv

LEMMA NextInv == IInv /\ [Next]_vars => IInv'
<1> SUFFICES ASSUME IInv, [Next]_vars PROVE IInv'
  OBVIOUS
<1>1. CASE UNCHANGED vars
  <2>1. UNCHANGED <<koState, caseList, mutex, files, log, logLen, res, succ, th, crowded, last>>
    BY <1>1 DEF vars, data, history
  <2>2. TypeOK'
    BY <2>1 DEF IInv, TypeOK
  <2>3. LocalsOK'
    BY <2>1 DEF IInv, LocalsOK, LocalsOf, Home
  <2>4. OneOwner' /\ FilesOK' /\ Drained'
    BY <2>1 DEF IInv, OneOwner, Registering, Unregistering, FilesOK, Drained, Inside
  <2>5. ListMatchesLoader'
    BY <2>1 DEF IInv, ListMatchesLoader, Listed, Panicked
  <2> QED
    BY <2>2, <2>3, <2>4, <2>5 DEF IInv
<1>2. ASSUME NEW p \in Procs, Step(p) \/ Call(p)
      PROVE  IInv'
  <2>1. TypeOK'
    BY <1>2, NextTyped DEF IInv
  <2>2. ASSUME NEW k \in Kos, Insmod(p, k) PROVE IInv'
    BY <2>1, <2>2, InsmodKeeps
  <2>3. ASSUME NEW k \in Kos, Rmmod(p, k) PROVE IInv'
    BY <2>1, <2>3, RmmodKeeps
  <2>4. CASE RegAdd(p)
    BY <2>1, <2>4, RegAddKeeps
  <2>5. CASE RegFiles(p)
    BY <2>1, <2>5, RegFilesKeeps
  <2>6. CASE RegFunc(p) /\ ~UNCHANGED koState
    BY <2>1, <2>6, RegFuncKeeps
  <2>7. CASE UnregLock(p)
    BY <2>1, <2>7, UnregLockKeeps
  <2>8. CASE UnregUnlink(p)
    BY <2>1, <2>8, UnregUnlinkKeeps
  <2>9. CASE UnregDrain(p)
    BY <2>1, <2>9, UnregDrainKeeps
  <2>10. CASE UnregDel(p)
    BY <2>1, <2>10, RemovalKeeps
  <2>11. CASE Quiet(p)
    BY <2>1, <2>11, QuietKeeps
  <2> QED
    BY <1>2, <2>2, <2>3, <2>4, <2>5, <2>6, <2>7, <2>8, <2>9, <2>10, <2>11, QuietSteps
       DEF Step, Call
<1> QED
  BY <1>1, <1>2 DEF Next

\* IInv, the inductive invariant, holds in every state munit can reach.
THEOREM InvariantHolds == Spec => []IInv
BY InitInv, NextInv, PTL DEF Spec

\* All variables keep the types of their C declarations.
THEOREM TypeCorrect == Spec => []TypeOK
<1>1. IInv => TypeOK
  BY DEF IInv
<1> QED
  BY <1>1, InvariantHolds, PTL

\* The registered modules are those of the kos in memory, and the mutex is held
\* by the one thread inside unregister_cases.
THEOREM ListCorrect == Spec => []ListMatchesLoader
<1>1. IInv => ListMatchesLoader
  BY DEF IInv
<1> QED
  BY <1>1, InvariantHolds, PTL

\* The ko of a case a call is inside is loaded, and through list_add_tail.
LEMMA InsideLoaded ==
  ASSUME IInv, NEW q \in Procs, NEW f \in Files, Inside(q, f)
  PROVE  /\ koState[KoOf(f[1])] # "absent"
         /\ \A p \in Procs : th[p].pc = "r_add" => th[p].ko # KoOf(f[1])
<1>1. CASE f \in files
  BY <1>1 DEF IInv, FilesOK
<1>2. ASSUME NEW r \in Procs, th[r].pc = "u_drain", th[r].rm = f
      PROVE  /\ koState[KoOf(f[1])] # "absent"
             /\ \A p \in Procs : th[p].pc = "r_add" => th[p].ko # KoOf(f[1])
  <2> DEFINE k == th[r].ko
  <2>1. k \in Kos /\ f[1] \in CasesOf(k)
    BY <1>2 DEF IInv, LocalsOK, LocalsOf, UnregPcs
  <2>2. KoOf(f[1]) = k
    BY <2>1, OwnerOfCase
  <2>3. koState[k] = "going"
    BY <1>2, <2>1 DEF IInv, OneOwner, Unregistering, UnregPcs
  <2>4. \A p \in Procs : th[p].pc = "r_add" => th[p].f = None
    BY DEF IInv, LocalsOK, LocalsOf, RegPcs
  <2>5. \A p \in Procs : th[p].pc = "r_add" /\ th[p].ko = k => koState[k] = "coming"
    BY <2>1, <2>4 DEF IInv, OneOwner, Registering, RegPcs
  <2> QED
    BY <2>2, <2>3, <2>5
<1> QED
  BY <1>1, <1>2 DEF IInv, Drained

\* No call is inside a debugfs file of a ko that has been unloaded.
THEOREM Safe == Spec => []NoUseAfterUnload
<1>1. IInv => NoUseAfterUnload
  <2> SUFFICES ASSUME IInv, NEW p \in Procs, NEW c \in Cases, NEW x \in Kinds,
                      Inside(p, <<c, x>>)
               PROVE  koState[KoOf(c)] # "absent"
    BY DEF NoUseAfterUnload
  <2>1. <<c, x>> \in Files
    BY DEF Files
  <2> QED
    BY <2>1, InsideLoaded
<1> QED
  BY <1>1, InvariantHolds, PTL

\* The module and the case a LOG call holds without the mutex stay alive.
THEOREM LogTargetsLive == Spec => []NoDanglingModule
<1>1. IInv => NoDanglingModule
  <2> SUFFICES ASSUME IInv, NamesDisjoint, ~Panicked, NEW p \in Procs,
                      th[p].pc \in {"l_case", "l_len", "l_cat"}
               PROVE  /\ th[p].pc = "l_case" => Listed(th[p].mod)
                      /\ th[p].pc \in {"l_len", "l_cat"} => koState[KoOf(th[p].dst)] # "absent"
    BY DEF NoDanglingModule
  <2> DEFINE k == Home(p)
  <2>1. k \in Kos /\ koState[k] # "absent" /\ \A q \in Procs : th[q].ko = k => th[q].pc # "r_add"
    <3>1. CASE th[p].f = None
      <4>1. k = th[p].ko /\ k \in Kos
        BY <3>1 DEF Home, IInv, LocalsOK, LocalsOf, LogPcs
      <4>2. Registering(p, k)
        BY <3>1, <4>1 DEF Registering, LogPcs
      <4>3. \A q \in Procs : th[q].pc = "r_add" => th[q].f = None
        BY DEF IInv, LocalsOK, LocalsOf, RegPcs
      <4>4. \A q \in Procs : th[q].pc = "r_add" /\ th[q].ko = k => q = p
        BY <4>1, <4>2, <4>3 DEF IInv, OneOwner, Registering, RegPcs
      <4> QED
        BY <4>1, <4>2, <4>4 DEF IInv, OneOwner
    <3>2. CASE th[p].f # None
      <4>1. th[p].f \in Files /\ th[p].f[1] \in Cases
        <5>1. th[p].f \in Files
          BY <3>2 DEF IInv, TypeOK, Thread
        <5> QED
          BY <5>1 DEF Files
      <4>2. Inside(p, th[p].f)
        BY DEF Inside, InPcs, LogPcs
      <4>3. k = KoOf(th[p].f[1]) /\ k \in Kos
        BY <3>2, <4>1, OwnerOfCase DEF Home
      <4> QED
        BY <4>1, <4>2, <4>3, InsideLoaded
    <3> QED
      BY <3>1, <3>2
  <2>2. Listed(k)
    BY <2>1 DEF IInv, ListMatchesLoader
  <2>3. th[p].pc = "l_case" => th[p].mod = k
    BY DEF IInv, LocalsOK, LocalsOf
  <2>4. th[p].pc \in {"l_len", "l_cat"} => KoOf(th[p].dst) = k
    BY DEF IInv, LocalsOK, LocalsOf
  <2> QED
    BY <2>1, <2>2, <2>3, <2>4
<1> QED
  BY <1>1, InvariantHolds, PTL

(***************************************************************************)
(* The driver implements CaseBoard, for every set of threads, kos, case    *)
(* tables and names.                                                       *)
(***************************************************************************)
\* What the refinement mapping of Board gives for up, open and in.
Up   == {k \in Kos : koState[k] # "absent"}
Open == {f[1] : f \in files}
In   == [p \in Procs |-> CaseIn(p)]

\* The steps of CaseBoard under the mapping.
LEMMA BoardSteps ==
  /\ \A k \in Kos : k \notin Up /\ Up' = Up \cup {k} /\ Open' = Open /\ In' = In => Board!Next
  /\ \A c \in Cases : KoOf(c) \in Up /\ Open' = Open \cup {c} /\ Up' = Up /\ In' = In => Board!Next
  /\ \A c \in Cases : Open' = Open \ {c} /\ Up' = Up /\ In' = In => Board!Next
  /\ \A p \in Procs, c \in Cases :
       In[p] = None /\ c \in Open /\ In' = [In EXCEPT ![p] = c] /\ Up' = Up /\ Open' = Open
         => Board!Next
  /\ \A p \in Procs : In' = [In EXCEPT ![p] = None] /\ Up' = Up /\ Open' = Open => Board!Next
  /\ \A k \in Kos : /\ k \in Up /\ Up' = Up \ {k} /\ Open' = Open /\ In' = In
                    /\ \A c \in Open : c \in Cases /\ KoOf(c) # k
                    /\ \A p \in Procs : In[p] # None => In[p] \in Cases /\ KoOf(In[p]) # k
                    => Board!Next
<1>1. \A k \in Kos : k \notin Up /\ Up' = Up \cup {k} /\ Open' = Open /\ In' = In => Board!Next
  BY DEF Board!Next, Board!Load, Up, Open, In
<1>2. \A c \in Cases : KoOf(c) \in Up /\ Open' = Open \cup {c} /\ Up' = Up /\ In' = In => Board!Next
  BY DEF Board!Next, Board!Publish, Up, Open, In
<1>3. \A c \in Cases : Open' = Open \ {c} /\ Up' = Up /\ In' = In => Board!Next
  BY DEF Board!Next, Board!Withdraw, Up, Open, In
<1>4. \A p \in Procs, c \in Cases :
        In[p] = None /\ c \in Open /\ In' = [In EXCEPT ![p] = c] /\ Up' = Up /\ Open' = Open
          => Board!Next
  BY DEF Board!Next, Board!Enter, Up, Open, In
<1>5. \A p \in Procs : In' = [In EXCEPT ![p] = None] /\ Up' = Up /\ Open' = Open => Board!Next
  BY DEF Board!Next, Board!Leave, Up, Open, In
<1>6. \A k \in Kos : /\ k \in Up /\ Up' = Up \ {k} /\ Open' = Open /\ In' = In
                     /\ \A c \in Open : c \in Cases /\ KoOf(c) # k
                     /\ \A p \in Procs : In[p] # None => In[p] \in Cases /\ KoOf(In[p]) # k
                     => Board!Next
  BY DEF Board!Next, Board!Unload, Up, Open, In
<1> QED
  BY <1>1, <1>2, <1>3, <1>4, <1>5, <1>6

LEMMA BoardStutter == Up' = Up /\ Open' = Open /\ In' = In => UNCHANGED Board!vars
BY DEF Board!vars, Up, Open, In

\* A thread is in the case of the file its call is inside.
LEMMA CaseInIs ==
  ASSUME TypeOK, NEW p \in Procs
  PROVE  /\ CaseIn(p) # None => /\ CaseIn(p) = th[p].f[1] /\ CaseIn(p) \in Cases
                                /\ th[p].f \in Files /\ Inside(p, th[p].f)
         /\ \A f \in Files : Inside(p, f) => CaseIn(p) = f[1]
<1>1. th[p].f \in Files \cup {None}
  BY DEF TypeOK, Thread
<1>2. \A f \in Files : f[1] \in Cases /\ f # None
  BY NoneIsNone DEF Files
<1> QED
  BY <1>1, <1>2 DEF CaseIn, Inside

\* A quiet step enters an open case, leaves the one it is in, or stays put.
LEMMA QuietRefines ==
  ASSUME IInv, TypeOK', NEW p \in Procs, Quiet(p)
  PROVE  Board!Next \/ UNCHANGED Board!vars
<1>1. Up' = Up /\ Open' = Open
  BY DEF Quiet, Up, Open
<1>2. \A q \in Procs \ {p} : CaseIn(q)' = CaseIn(q)
  BY DEF Quiet, CaseIn
<1>3. In' = [In EXCEPT ![p] = CaseIn(p)']
  BY <1>2 DEF In
<1>4. CASE CaseIn(p)' = None
  BY <1>1, <1>3, <1>4, BoardSteps
<1>5. CASE CaseIn(p)' # None
  <2>1. PICK f \in Files : CaseIn(p)' = f[1] /\ Inside(p, f)' /\ f[1] \in Cases
    <3>1. th'[p].f \in Files \cup {None}
      BY DEF TypeOK, Thread
    <3>2. \A f \in Files : f[1] \in Cases
      BY DEF Files
    <3> QED
      BY <1>5, <3>1, <3>2 DEF CaseIn, Inside
  <2>2. CASE Inside(p, f)
    <3>1. CaseIn(p) = CaseIn(p)'
      BY <2>1, <2>2, CaseInIs DEF IInv
    <3>2. In' = In
      BY <1>3, <3>1 DEF In
    <3> QED
      BY <1>1, <3>2, BoardStutter
  <2>3. CASE f \in files /\ th[p].pc \notin InPcs
    <3>1. In[p] = None
      BY <2>3 DEF In, CaseIn
    <3>2. f[1] \in Open
      BY <2>3 DEF Open
    <3> QED
      BY <1>1, <1>3, <2>1, <3>1, <3>2, BoardSteps
  <2> QED
    BY <2>1, <2>2, <2>3 DEF Quiet
<1> QED
  BY <1>4, <1>5

\* Steps of a thread that is in no case and stays in none, and of those it ends
\* an open read() of.
LEMMA InStays ==
  ASSUME NEW p \in Procs, th[p].f = None \/ th[p].pc \notin InPcs,
         th'[p].f = None \/ th'[p].pc \notin InPcs,
         \A q \in Procs \ {p} : \/ th'[q] = th[q]
                                \/ th[q].pc \notin InPcs /\ th'[q].pc \notin InPcs
  PROVE  In' = In
<1>1. \A q \in Procs : CaseIn(q)' = CaseIn(q)
  BY DEF CaseIn
<1> QED
  BY <1>1 DEF In

LEMMA StepRefines ==
  ASSUME IInv, TypeOK', NEW p \in Procs, Step(p) \/ Call(p)
  PROVE  Board!Next \/ UNCHANGED Board!vars
<1>1. th \in [Procs -> Thread] /\ th[p] \in Thread /\ LocalsOf(p)
  BY DEF IInv, TypeOK, LocalsOK
<1>2. th' \in [Procs -> Thread]
  BY DEF TypeOK
<1>3. koState \in [Kos -> LoadStates] /\ \A f \in files : f \in Files /\ f[1] \in Cases
  BY DEF IInv, TypeOK, Files
<1>4. Idle \in Thread /\ Idle.pc \notin InPcs
  BY PcsAre DEF Thread, Idle, InPcs, RunPcs, LogPcs, ReadPcs
<1>5. th[p].pc \in RegPcs \cup UnregPcs => th[p].ko \in Kos /\ th[p].f = None
  BY <1>1 DEF LocalsOf
<1>6. ASSUME NEW l \in Pcs, Goto(p, l), l \notin InPcs, th[p].pc \notin InPcs
      PROVE  In' = In
  <2>1. th'[p].pc = l /\ \A q \in Procs \ {p} : th'[q] = th[q]
    BY <1>1, <1>6, Goes
  <2> QED
    BY <1>6, <2>1, InStays
<1>7. ASSUME Return(p), th[p].pc \notin InPcs
      PROVE  In' = In
  <2>1. th'[p] = Idle /\ \A q \in Procs \ {p} : th'[q] = th[q]
    BY <1>1, <1>4, <1>7, Becomes DEF Return
  <2> QED
    BY <1>4, <1>7, <2>1, InStays
<1>8. ASSUME NEW t \in Thread, Become(p, t), t.pc \notin InPcs, th[p].pc \notin InPcs
      PROVE  In' = In
  <2>1. th'[p] = t /\ \A q \in Procs \ {p} : th'[q] = th[q]
    BY <1>1, <1>8, Becomes
  <2> QED
    BY <1>8, <2>1, InStays
<1>9. \A l \in {"idle", "r_add", "r_fs", "r_log", "r_func", "u_lock", "u_fs", "u_drain", "oops"} :
        l \in Pcs /\ l \notin InPcs
  BY PcsAre DEF InPcs, RunPcs, LogPcs, ReadPcs
<1>10. ASSUME NEW k \in Kos, Insmod(p, k)
       PROVE  Board!Next
  <2>1. PICK l \in {"r_add", "oops"} : Become(p, [th[p] EXCEPT !.pc = l, !.ko = k])
    BY <1>10 DEF Insmod
  <2> DEFINE t == [th[p] EXCEPT !.pc = l, !.ko = k]
  <2>2. t \in Thread
    BY <1>1, <1>9, ThreadUpdates, Zenon
  <2>3. t.pc = l
    BY <1>1 DEF Thread
  <2>4. In' = In
    BY <1>8, <1>9, <1>10, <2>1, <2>2, <2>3 DEF Insmod, At
  <2>5. k \notin Up /\ Up' = Up \cup {k} /\ Open' = Open
    BY <1>3, <1>10 DEF Insmod, Up, Open
  <2> QED
    BY <2>4, <2>5, BoardSteps
<1>11. CASE RegAdd(p)
  <2>1. In' = In
    BY <1>6, <1>9, <1>11 DEF RegAdd, At
  <2> QED
    BY <1>11, <2>1, BoardStutter DEF RegAdd, Up, Open
<1>12. CASE RegFiles(p)
  <2> DEFINE c == CaseTable[th[p].ko][th[p].i]
  <2>1. th[p].pc = "r_fs" /\ Up' = Up
    BY <1>12 DEF RegFiles, At, Up
  <2>2. In' = In
    BY <1>6, <1>9, <1>12, <2>1 DEF RegFiles
  <2>3. CASE files' = files
    BY <2>1, <2>2, <2>3, BoardStutter DEF Open
  <2>4. CASE th[p].i \in DOMAIN CaseTable[th[p].ko] /\ files' = files \cup {<<c, x>> : x \in Kinds}
    <3>1. th[p].ko \in Kos /\ Registering(p, th[p].ko)
      BY <1>5, <2>1 DEF RegPcs, Registering
    <3>2. c \in Cases /\ KoOf(c) = th[p].ko
      BY <2>4, <3>1, TableEntries
    <3>3. KoOf(c) \in Up
      BY <3>1, <3>2 DEF IInv, OneOwner, Up
    <3>4. Open' = Open \cup {c}
      <4>1. <<c, "run">> \in files' /\ files \subseteq files'
        BY <2>4 DEF Kinds
      <4>2. \A f \in files' : f \in files \/ f[1] = c
        BY <2>4
      <4>3. c \in Open'
        BY <4>1 DEF Open
      <4> QED
        BY <4>1, <4>2, <4>3 DEF Open
    <3> QED
      BY <2>1, <2>2, <3>2, <3>3, <3>4, BoardSteps
  <2> QED
    BY <1>12, <2>3, <2>4 DEF RegFiles
<1>13. CASE RegFunc(p) /\ ~UNCHANGED koState
  <2>1. Return(p) /\ th[p].pc = "r_func" /\ koState' = [koState EXCEPT ![th[p].ko] = "live"]
    BY <1>13 DEF RegFunc, At
  <2>2. In' = In
    BY <1>7, <1>9, <2>1
  <2>3. th[p].ko \in Kos /\ koState[th[p].ko] = "coming"
    BY <1>5, <2>1 DEF RegPcs, IInv, OneOwner, Registering
  <2>4. Up' = Up
    BY <1>3, <2>1, <2>3 DEF Up
  <2>5. Open' = Open
    BY <1>13 DEF RegFunc, Open
  <2> QED
    BY <2>2, <2>4, <2>5, BoardStutter
<1>14. ASSUME NEW k \in Kos, Rmmod(p, k)
       PROVE  UNCHANGED Board!vars
  <2> DEFINE t == [th[p] EXCEPT !.pc = "u_lock", !.ko = k]
  <2>1. t \in Thread
    BY <1>1, <1>9, ThreadUpdates, Zenon
  <2>2. t.pc = "u_lock"
    BY <1>1 DEF Thread
  <2>3. In' = In
    BY <1>8, <1>9, <1>14, <2>1, <2>2 DEF Rmmod, At
  <2>4. Up' = Up /\ Open' = Open
    BY <1>3, <1>14 DEF Rmmod, Up, Open
  <2> QED
    BY <2>3, <2>4, BoardStutter
<1>15. CASE UnregLock(p)
  <2>1. In' = In
    BY <1>6, <1>9, <1>15 DEF UnregLock, At
  <2> QED
    BY <1>15, <2>1, BoardStutter DEF UnregLock, Up, Open
<1>16. CASE UnregUnlink(p)
  <2> DEFINE c == CaseTable[th[p].ko][th[p].i]
  <2>1. th[p].pc = "u_fs" /\ Up' = Up
    BY <1>16 DEF UnregUnlink, At, Up
  <2>2. th[p].ko \in Kos /\ th[p].i \in DOMAIN CaseTable[th[p].ko] /\ th[p].f = None
    BY <1>5, <1>16, <2>1 DEF UnregUnlink, UnregPcs
  <2>3. c \in Cases
    BY <2>2, TableEntries
  <2>4. \A q \in Procs \ {p} : th'[q] = th[q]
    BY <1>1, <1>16 DEF UnregUnlink, Become
  <2>5. th'[p].f = None
    <3>1. \A x : [th[p] EXCEPT !.pc = "u_drain", !.rm = x].f = None
      BY <1>1, <2>2 DEF Thread
    <3>2. [th[p] EXCEPT !.i = @ + 1].f = None
      BY <1>1, <2>2 DEF Thread
    <3> QED
      BY <1>1, <1>16, <3>1, <3>2 DEF UnregUnlink, Become
  <2>6. In' = In
    BY <2>2, <2>4, <2>5, InStays
  <2>7. Open' = Open \/ Open' = Open \ {c}
    <3>1. files' = files \/ \E x \in Kinds : files' = files \ {<<c, x>>}
      BY <1>16 DEF UnregUnlink
    <3>2. ASSUME NEW x \in Kinds, files' = files \ {<<c, x>>}
          PROVE  Open' = Open \/ Open' = Open \ {c}
      <4>1. \A f \in files : f[1] # c => f \in files'
        BY <3>2
      <4>2. files' \subseteq files
        BY <3>2
      <4> QED
        BY <4>1, <4>2 DEF Open
    <3> QED
      BY <3>1, <3>2 DEF Open
  <2> QED
    BY <2>1, <2>3, <2>6, <2>7, BoardSteps, BoardStutter
<1>17. CASE UnregDrain(p)
  <2>1. th[p].pc = "u_drain" /\ th'[p] = [th[p] EXCEPT !.pc = "u_fs", !.rm = None]
    BY <1>17 DEF UnregDrain, At
  <2>2. th'[p].pc = "u_fs"
    BY <1>1, <2>1 DEF Thread
  <2>3. \A q \in Procs \ {p} : th'[q] = th[q] \/ (th[q].pc = "d_next" /\ th'[q] = Idle)
    BY <1>17 DEF UnregDrain
  <2>4. "d_next" \notin InPcs
    BY DEF InPcs, RunPcs, LogPcs, ReadPcs
  <2>5. In' = In
    <3>1. th[p].pc \notin InPcs /\ th'[p].pc \notin InPcs
      BY <1>9, <2>1, <2>2
    <3>2. \A q \in Procs \ {p} : \/ th'[q] = th[q]
                                 \/ th[q].pc \notin InPcs /\ th'[q].pc \notin InPcs
      BY <1>4, <2>3, <2>4
    <3> QED
      BY <3>1, <3>2, InStays
  <2> QED
    BY <1>17, <2>5, BoardStutter DEF UnregDrain, Up, Open
<1>18. CASE UnregDel(p)
  <2> DEFINE k == th[p].ko
  <2>1. /\ th[p].pc = "u_fs" /\ th[p].i \notin DOMAIN CaseTable[k] /\ Return(p)
        /\ koState' = [koState EXCEPT ![k] = "absent"] /\ files' = files
    BY <1>18 DEF UnregDel, At
  <2>2. k \in Kos /\ koState[k] = "going"
    BY <1>5, <2>1 DEF UnregPcs, IInv, OneOwner, Unregistering
  <2>3. In' = In
    BY <1>7, <1>9, <2>1
  <2>4. k \in Up /\ Up' = Up \ {k} /\ Open' = Open
    BY <1>3, <2>1, <2>2 DEF Up, Open
  <2>5. \A c \in Open : c \in Cases /\ KoOf(c) # k
    BY <1>3, <2>1, CasesClosed DEF Open
  <2>6. ASSUME NEW q \in Procs, In[q] # None
        PROVE  In[q] \in Cases /\ KoOf(In[q]) # k
    <3>1. CaseIn(q) # None /\ In[q] = CaseIn(q)
      BY <2>6 DEF In
    <3>2. /\ CaseIn(q) = th[q].f[1] /\ CaseIn(q) \in Cases
          /\ th[q].f \in Files /\ Inside(q, th[q].f)
      BY <3>1, CaseInIs DEF IInv
    <3> QED
      BY <2>1, <3>1, <3>2, CasesClosed
  <2> QED
    BY <2>2, <2>3, <2>4, <2>5, <2>6, BoardSteps
<1>19. CASE Quiet(p)
  BY <1>19, QuietRefines
<1> QED
  BY <1>10, <1>11, <1>12, <1>13, <1>14, <1>15, <1>16, <1>17, <1>18, <1>19, QuietSteps
     DEF Step, Call

\* munit keeps CaseBoard's promise: cases open only while their ko is loaded, and
\* a ko is unloaded only when its cases are closed and empty.
THEOREM Refines == Spec => ImplementsBoard
<1>1. Init => Board!Init
  <2> SUFFICES ASSUME Init PROVE Board!Init
    OBVIOUS
  <2>1. \A p \in Procs : CaseIn(p) = None
    BY DEF Init, Idle, CaseIn
  <2> QED
    BY <2>1 DEF Init, Board!Init
<1>2. IInv /\ IInv' /\ [Next]_vars => [Board!Next]_(Board!vars)
  <2> SUFFICES ASSUME IInv, IInv', [Next]_vars
               PROVE  Board!Next \/ UNCHANGED Board!vars
    OBVIOUS
  <2>1. CASE UNCHANGED vars
    BY <2>1, BoardStutter DEF vars, Up, Open, In, CaseIn
  <2>2. ASSUME NEW p \in Procs, Step(p) \/ Call(p)
        PROVE  Board!Next \/ UNCHANGED Board!vars
    BY <2>2, StepRefines DEF IInv
  <2> QED
    BY <2>1, <2>2 DEF Next
<1> QED
  BY <1>1, <1>2, InvariantHolds, PTL DEF Spec, ImplementsBoard, Board!Spec

------------------------------------------------------------------------------
(***************************************************************************)
(* What munit records: verdicts, logs, reads and the cases a registration  *)
(* leaves.                                                                 *)
(***************************************************************************)
\* What a step of p may do to another thread: a run tells the reads of its case,
\* a removed file ends the pauses between reads of it.
Others(p) ==
  \A q \in Procs \ {p} :
    \/ th[q].pc = "d_next" /\ th'[q].pc = "idle" /\ th'[q].said = 0 /\ th'[q].f = None
    \/ /\ th'[q].pc = th[q].pc /\ th'[q].f = th[q].f /\ th'[q].ko = th[q].ko
       /\ th'[q].i = th[q].i /\ th'[q].dst = th[q].dst /\ th'[q].n = th[q].n
       /\ th'[q].pos = th[q].pos /\ th'[q].v = th[q].v /\ th'[q].said = th[q].said
       /\ th[q].met => th'[q].met

\* What stays in p's record when it goes elsewhere.
Keeps(p) ==
  /\ th'[p].f = th[p].f /\ th'[p].ko = th[p].ko /\ th'[p].i = th[p].i
  /\ th'[p].dst = th[p].dst /\ th'[p].n = th[p].n /\ th'[p].pos = th[p].pos
  /\ th'[p].v = th[p].v /\ th'[p].said = th[p].said /\ th'[p].met = th[p].met

\* The ways in which most steps change their thread.
LEMMA Moves ==
  ASSUME TypeOK, NEW p \in Procs, NEW t, Become(p, t)
  PROVE  th'[p] = t /\ Others(p)
<1>1. th \in [Procs -> Thread]
  BY DEF TypeOK
<1>2. th'[p] = t /\ \A q \in Procs \ {p} : th'[q] = th[q]
  BY <1>1 DEF Become
<1> QED
  BY <1>2 DEF Others

LEMMA GoesOn ==
  ASSUME TypeOK, NEW p \in Procs, NEW l, Goto(p, l)
  PROVE  th'[p].pc = l /\ Keeps(p) /\ Others(p)
<1>1. th[p] \in Thread
  BY DEF TypeOK
<1> DEFINE t == [th[p] EXCEPT !.pc = l]
<1>2. th'[p] = t /\ Others(p)
  BY Moves DEF Goto
<1>3. /\ t.pc = l /\ t.f = th[p].f /\ t.ko = th[p].ko /\ t.i = th[p].i /\ t.dst = th[p].dst
      /\ t.n = th[p].n /\ t.pos = th[p].pos /\ t.v = th[p].v /\ t.said = th[p].said
      /\ t.met = th[p].met
  BY <1>1 DEF Thread
<1> QED
  BY <1>2, <1>3 DEF Keeps

LEMMA Returns ==
  ASSUME TypeOK, NEW p \in Procs, Return(p)
  PROVE  th'[p].pc = "idle" /\ th'[p].f = None /\ th'[p].said = 0 /\ Others(p)
BY Moves DEF Return, Idle

LEMMA LogReturns ==
  ASSUME TypeOK, NEW p \in Procs, LogReturn(p)
  PROVE  /\ th'[p].pc = IF th[p].f # None THEN "w_body" ELSE "r_func"
         /\ th'[p].f = th[p].f /\ th'[p].ko = th[p].ko /\ th'[p].said = th[p].said
         /\ Others(p)
<1>1. th[p] \in Thread
  BY DEF TypeOK
<1> DEFINE l == IF th[p].f # None THEN "w_body" ELSE "r_func"
           t == [th[p] EXCEPT !.pc = l, !.n = 0, !.mod = None, !.dst = None]
<1>2. th'[p] = t /\ Others(p)
  BY Moves DEF LogReturn
<1>3. t.pc = l /\ t.f = th[p].f /\ t.ko = th[p].ko /\ t.said = th[p].said
  BY <1>1 DEF Thread
<1> QED
  BY <1>2, <1>3

LEMMA Enters ==
  ASSUME TypeOK, NEW p \in Procs, NEW f, ReadEnter(p, f)
  PROVE  /\ th'[p].pc = "d_chk" /\ th'[p].f = f
         /\ th'[p].met = (th[p].met \/ \E q \in Procs : Running(q, f[1]))
         /\ Others(p)
<1>1. th[p] \in Thread
  BY DEF TypeOK
<1> DEFINE b == th[p].met \/ \E q \in Procs : Running(q, f[1])
           t == [th[p] EXCEPT !.pc = "d_chk", !.f = f, !.met = b]
<1>2. th'[p] = t /\ Others(p)
  BY Moves DEF ReadEnter
<1>3. t.pc = "d_chk" /\ t.f = f /\ t.met = b
  BY <1>1 DEF Thread
<1> QED
  BY <1>2, <1>3

LEMMA Begins ==
  ASSUME TypeOK, NEW p \in Procs, NEW c \in Cases, NEW x \in RunKinds, RunBegin(p, c, x)
  PROVE  /\ th'[p].pc = "w_clear" /\ th'[p].f = <<c, x>> /\ th'[p].ko = th[p].ko
         /\ th'[p].said = th[p].said
         /\ \A q \in Procs \ {p} : th[q].f \in {c} \X Kinds /\ ~Running(q, c) => th'[q].met
         /\ Others(p)
<1>1. th \in [Procs -> Thread] /\ th[p] \in Thread
  BY DEF TypeOK
<1>2. th'[p] = [th[p] EXCEPT !.pc = "w_clear", !.f = <<c, x>>]
  BY <1>1 DEF RunBegin
<1>3. \A q \in Procs \ {p} :
        th'[q] = IF th[q].f \in {c} \X Kinds /\ ~Running(q, c)
                 THEN [th[q] EXCEPT !.met = TRUE] ELSE th[q]
  BY <1>1 DEF RunBegin
<1>4. /\ th'[p].pc = "w_clear" /\ th'[p].f = <<c, x>> /\ th'[p].ko = th[p].ko
      /\ th'[p].said = th[p].said
  BY <1>1, <1>2 DEF Thread
<1>5. ASSUME NEW q \in Procs \ {p}
      PROVE  /\ th[q].f \in {c} \X Kinds /\ ~Running(q, c) => th'[q].met
             /\ th'[q].pc = th[q].pc /\ th'[q].f = th[q].f /\ th'[q].ko = th[q].ko
             /\ th'[q].i = th[q].i /\ th'[q].dst = th[q].dst /\ th'[q].n = th[q].n
             /\ th'[q].pos = th[q].pos /\ th'[q].v = th[q].v /\ th'[q].said = th[q].said
             /\ th[q].met => th'[q].met
  <2>1. CASE th[q].f \in {c} \X Kinds /\ ~Running(q, c)
    <3>1. th'[q] = [th[q] EXCEPT !.met = TRUE] /\ th[q] \in Thread
      BY <1>1, <1>3, <2>1
    <3> QED
      BY <3>1 DEF Thread
  <2>2. CASE ~(th[q].f \in {c} \X Kinds /\ ~Running(q, c))
    <3>1. th'[q] = th[q]
      BY <1>3, <2>2
    <3> QED
      BY <2>2, <3>1
  <2> QED
    BY <2>1, <2>2
<1> QED
  BY <1>4, <1>5 DEF Others

\* What a step of registration or removal does to its thread.
LEMMA LoaderMoves ==
  ASSUME IInv, NEW p \in Procs
  PROVE  /\ \A k \in Kos : Insmod(p, k) =>
              /\ th'[p].pc \in {"r_add", "oops"} /\ th'[p].f = None /\ th'[p].ko = k
              /\ th'[p].i = 1 /\ Others(p)
         /\ RegAdd(p) => th'[p].pc = "r_fs" /\ Keeps(p) /\ Others(p)
         /\ RegFiles(p) => th'[p].pc \in {"r_log", "r_func"} /\ Keeps(p) /\ Others(p)
         /\ RegLog(p) =>
              /\ th'[p].f = None /\ th'[p].ko = th[p].ko /\ Others(p)
              /\ \/ th'[p].pc = "r_fs" /\ th'[p].i = th[p].i + 1
                 \/ th'[p].pc = "r_func"
         /\ RegFunc(p) =>
              /\ th'[p].f = None /\ Others(p)
              /\ \/ th'[p].pc = "l_find" /\ th'[p].ko = th[p].ko /\ koState' = koState
                 \/ th'[p].pc = "idle" /\ th'[p].said = 0
         /\ \A k \in Kos : Rmmod(p, k) =>
              th'[p].pc = "u_lock" /\ th'[p].f = None /\ Others(p)
         /\ UnregLock(p) => th'[p].pc = "u_fs" /\ Keeps(p) /\ Others(p)
         /\ UnregUnlink(p) => th'[p].pc \in {"u_drain", "u_fs"} /\ th'[p].f = None /\ Others(p)
         /\ UnregDrain(p) => th'[p].pc = "u_fs" /\ th'[p].f = None /\ Others(p)
         /\ UnregDel(p) => /\ th'[p].pc = "idle" /\ th'[p].f = None /\ th'[p].said = 0
                           /\ Others(p)
<1>1. TypeOK /\ th \in [Procs -> Thread] /\ th[p] \in Thread /\ LocalsOf(p)
  BY DEF IInv, TypeOK, LocalsOK
<1>2. th[p].pc \in RegPcs \cup UnregPcs \cup {"idle"} => th[p].f = None
  BY <1>1 DEF LocalsOf
<1>3. ASSUME NEW k \in Kos, Insmod(p, k)
      PROVE  /\ th'[p].pc \in {"r_add", "oops"} /\ th'[p].f = None /\ th'[p].ko = k
             /\ th'[p].i = 1 /\ Others(p)
  <2> SUFFICES ASSUME NEW l \in {"r_add", "oops"},
                      Become(p, [th[p] EXCEPT !.pc = l, !.ko = k])
               PROVE  /\ th'[p].pc \in {"r_add", "oops"} /\ th'[p].f = None /\ th'[p].ko = k
                      /\ th'[p].i = 1 /\ Others(p)
    BY <1>3 DEF Insmod
  <2> DEFINE t == [th[p] EXCEPT !.pc = l, !.ko = k]
  <2>2. th'[p] = t /\ Others(p)
    BY <1>1, Moves
  <2>3. th[p].f = None /\ th[p].i = 1
    BY <1>1, <1>3 DEF Insmod, At, LocalsOf
  <2>4. t.pc = l /\ t.f = th[p].f /\ t.ko = k /\ t.i = th[p].i
    BY <1>1 DEF Thread
  <2> QED
    BY <2>2, <2>3, <2>4
<1>4. RegAdd(p) => th'[p].pc = "r_fs" /\ Keeps(p) /\ Others(p)
  BY <1>1, GoesOn DEF RegAdd
<1>5. RegFiles(p) => th'[p].pc \in {"r_log", "r_func"} /\ Keeps(p) /\ Others(p)
  BY <1>1, GoesOn DEF RegFiles
<1>6. ASSUME RegLog(p)
      PROVE  /\ th'[p].f = None /\ th'[p].ko = th[p].ko /\ Others(p)
             /\ \/ th'[p].pc = "r_fs" /\ th'[p].i = th[p].i + 1
                \/ th'[p].pc = "r_func"
  <2>1. th[p].f = None
    BY <1>1, <1>6 DEF RegLog, At, LocalsOf, RegPcs
  <2>2. CASE Goto(p, "r_func")
    BY <1>1, <2>1, <2>2, GoesOn DEF Keeps
  <2>3. CASE Become(p, [th[p] EXCEPT !.pc = "r_fs", !.i = @ + 1])
    <3> DEFINE t == [th[p] EXCEPT !.pc = "r_fs", !.i = @ + 1]
    <3>3. th'[p] = t /\ Others(p)
      BY <1>1, <2>3, Moves
    <3>4. t.pc = "r_fs" /\ t.i = th[p].i + 1 /\ t.f = th[p].f /\ t.ko = th[p].ko
      BY <1>1 DEF Thread
    <3> QED
      BY <2>1, <3>3, <3>4
  <2> QED
    BY <1>6, <2>2, <2>3 DEF RegLog
<1>7. ASSUME RegFunc(p)
      PROVE  /\ th'[p].f = None /\ Others(p)
             /\ \/ th'[p].pc = "l_find" /\ th'[p].ko = th[p].ko /\ koState' = koState
                \/ th'[p].pc = "idle" /\ th'[p].said = 0
  <2>1. th[p].f = None
    BY <1>1, <1>7 DEF RegFunc, At, LocalsOf, RegPcs
  <2>2. CASE Return(p)
    BY <1>1, <2>2, Returns
  <2>3. ASSUME NEW m \in LineLens, koState' = koState,
               Become(p, [th[p] EXCEPT !.pc = "l_find", !.lines = 1, !.n = m])
        PROVE  /\ th'[p].f = None /\ Others(p)
               /\ th'[p].pc = "l_find" /\ th'[p].ko = th[p].ko
    <3> DEFINE t == [th[p] EXCEPT !.pc = "l_find", !.lines = 1, !.n = m]
    <3>3. th'[p] = t /\ Others(p)
      BY <1>1, <2>3, Moves
    <3>4. t.pc = "l_find" /\ t.f = th[p].f /\ t.ko = th[p].ko
      BY <1>1 DEF Thread
    <3> QED
      BY <2>1, <3>3, <3>4
  <2> QED
    BY <1>7, <2>2, <2>3 DEF RegFunc
<1>8. ASSUME NEW k \in Kos, Rmmod(p, k)
      PROVE  th'[p].pc = "u_lock" /\ th'[p].f = None /\ Others(p)
  <2> DEFINE t == [th[p] EXCEPT !.pc = "u_lock", !.ko = k]
  <2>2. th'[p] = t /\ Others(p)
    BY <1>1, <1>8, Moves DEF Rmmod
  <2>3. th[p].f = None
    BY <1>2, <1>8 DEF Rmmod, At
  <2>4. t.pc = "u_lock" /\ t.f = th[p].f
    BY <1>1 DEF Thread
  <2> QED
    BY <2>2, <2>3, <2>4
<1>9. UnregLock(p) => th'[p].pc = "u_fs" /\ Keeps(p) /\ Others(p)
  BY <1>1, GoesOn DEF UnregLock
<1>10. ASSUME UnregUnlink(p)
       PROVE  th'[p].pc \in {"u_drain", "u_fs"} /\ th'[p].f = None /\ Others(p)
  <2> DEFINE c == CaseTable[th[p].ko][th[p].i]
  <2>1. th[p].pc = "u_fs" /\ th[p].f = None
    BY <1>2, <1>10 DEF UnregUnlink, At, UnregPcs
  <2>2. ASSUME NEW x \in Kinds, <<c, x>> \in files,
               Become(p, [th[p] EXCEPT !.pc = "u_drain", !.rm = <<c, x>>])
        PROVE  th'[p].pc \in {"u_drain", "u_fs"} /\ th'[p].f = None /\ Others(p)
    <3> DEFINE t == [th[p] EXCEPT !.pc = "u_drain", !.rm = <<c, x>>]
    <3>3. th'[p] = t /\ Others(p)
      BY <1>1, <2>2, Moves
    <3>4. t.pc = "u_drain" /\ t.f = th[p].f
      BY <1>1 DEF Thread
    <3> QED
      BY <2>1, <3>3, <3>4
  <2>3. ASSUME Become(p, [th[p] EXCEPT !.i = @ + 1])
        PROVE  th'[p].pc \in {"u_drain", "u_fs"} /\ th'[p].f = None /\ Others(p)
    <3> DEFINE t == [th[p] EXCEPT !.i = @ + 1]
    <3>2. th'[p] = t /\ Others(p)
      BY <1>1, <2>3, Moves
    <3>3. t.pc = th[p].pc /\ t.f = th[p].f
      BY <1>1 DEF Thread
    <3> QED
      BY <2>1, <3>2, <3>3
  <2> QED
    BY <1>10, <2>2, <2>3 DEF UnregUnlink
<1>11. ASSUME UnregDrain(p)
       PROVE  th'[p].pc = "u_fs" /\ th'[p].f = None /\ Others(p)
  <2>1. th'[p] = [th[p] EXCEPT !.pc = "u_fs", !.rm = None] /\ th[p].f = None
    BY <1>1, <1>11 DEF UnregDrain, At, LocalsOf, UnregPcs
  <2>2. th'[p].pc = "u_fs" /\ th'[p].f = th[p].f
    BY <1>1, <2>1 DEF Thread
  <2>3. ASSUME NEW q \in Procs \ {p}
        PROVE  th'[q] = th[q] \/ (th[q].pc = "d_next" /\ th'[q] = Idle)
    BY <1>1, <1>11 DEF UnregDrain
  <2>4. Idle.pc = "idle" /\ Idle.said = 0 /\ Idle.f = None
    BY DEF Idle
  <2> QED
    BY <2>1, <2>2, <2>3, <2>4 DEF Others
<1>12. UnregDel(p) => /\ th'[p].pc = "idle" /\ th'[p].f = None /\ th'[p].said = 0
                      /\ Others(p)
  BY <1>1, Returns DEF UnregDel
<1> QED
  BY <1>3, <1>4, <1>5, <1>6, <1>7, <1>8, <1>9, <1>10, <1>11, <1>12

\* What a step of a run, or of logging, does to its thread.
LEMMA RunMoves ==
  ASSUME IInv, NEW p \in Procs
  PROVE  /\ RunClear(p) => th'[p].pc \in {"oops", "w_body"} /\ Keeps(p) /\ Others(p)
         /\ RunLog(p) =>
              /\ th'[p].pc = "l_find" /\ th'[p].f = th[p].f
              /\ th'[p].n \in Nat /\ th'[p].said = th[p].said + th'[p].n /\ Others(p)
         /\ RunReturn(p) =>
              /\ th'[p].pc = "w_succ" /\ th'[p].f = th[p].f /\ th'[p].said = th[p].said
              /\ last' = [last EXCEPT ![th[p].f[1]] = Verdict(th'[p].v)] /\ Others(p)
         /\ RunSucc(p) => th'[p].pc = "w_res" /\ Keeps(p) /\ Others(p)
         /\ RunEnd(p) => th'[p].pc = "idle" /\ th'[p].f = None /\ th'[p].said = 0 /\ Others(p)
<1>1. TypeOK /\ th[p] \in Thread
  BY DEF IInv, TypeOK
<1>2. RunClear(p) => th'[p].pc \in {"oops", "w_body"} /\ Keeps(p) /\ Others(p)
  BY <1>1, GoesOn DEF RunClear
<1>3. ASSUME RunLog(p)
      PROVE  /\ th'[p].pc = "l_find" /\ th'[p].f = th[p].f
             /\ th'[p].n \in Nat /\ th'[p].said = th[p].said + th'[p].n /\ Others(p)
  <2>1. PICK m \in LineLens :
          Become(p, [th[p] EXCEPT !.pc = "l_find", !.n = m, !.said = @ + m, !.lines = @ + 1])
    BY <1>3 DEF RunLog
  <2> DEFINE t == [th[p] EXCEPT !.pc = "l_find", !.n = m, !.said = @ + m, !.lines = @ + 1]
  <2>2. th'[p] = t /\ Others(p)
    BY <1>1, <2>1, Moves
  <2>3. t.pc = "l_find" /\ t.f = th[p].f /\ t.n = m /\ t.said = th[p].said + m
    BY <1>1 DEF Thread
  <2> QED
    BY <2>2, <2>3, SizeAssumption
<1>4. ASSUME RunReturn(p)
      PROVE  /\ th'[p].pc = "w_succ" /\ th'[p].f = th[p].f /\ th'[p].said = th[p].said
             /\ last' = [last EXCEPT ![th[p].f[1]] = Verdict(th'[p].v)] /\ Others(p)
  <2>1. PICK v \in Verdicts : /\ Become(p, [th[p] EXCEPT !.pc = "w_succ", !.v = v])
                              /\ last' = [last EXCEPT ![th[p].f[1]] = Verdict(v)]
    BY <1>4 DEF RunReturn
  <2> DEFINE t == [th[p] EXCEPT !.pc = "w_succ", !.v = v]
  <2>2. th'[p] = t /\ Others(p)
    BY <1>1, <2>1, Moves
  <2>3. t.pc = "w_succ" /\ t.f = th[p].f /\ t.v = v /\ t.said = th[p].said
    BY <1>1 DEF Thread
  <2> QED
    BY <2>1, <2>2, <2>3
<1>5. RunSucc(p) => th'[p].pc = "w_res" /\ Keeps(p) /\ Others(p)
  BY <1>1, GoesOn DEF RunSucc
<1>6. RunEnd(p) => th'[p].pc = "idle" /\ th'[p].f = None /\ th'[p].said = 0 /\ Others(p)
  BY <1>1, Returns DEF RunEnd
<1> QED
  BY <1>2, <1>3, <1>4, <1>5, <1>6

\* RunRes, step by step: the verdict tested, and what is stored for it.
LEMMA ResMoves ==
  ASSUME IInv, NEW p \in Procs, RunRes(p)
  PROVE  \E s \in {th[p].v, succ[th[p].f[1]]} :
           LET c == th[p].f[1]
           IN \/ /\ s
                 /\ res' = [res EXCEPT ![c] = [head |-> "PASS", long |-> @.long]]
                 /\ th'[p].pc = "w_end" /\ Keeps(p) /\ Others(p)
              \/ /\ ~s
                 /\ res' = [res EXCEPT ![c] = [head |-> "NOT ", long |-> TRUE]]
                 /\ th'[p].pc = "idle" /\ th'[p].f = None /\ th'[p].said = 0 /\ Others(p)
<1> DEFINE c == th[p].f[1]
<1>1. TypeOK
  BY DEF IInv
<1>2. PICK s \in {th[p].v, succ[c]} :
        IF s
        THEN /\ res' = [res EXCEPT ![c] = [head |-> "PASS", long |-> @.long]]
             /\ Goto(p, "w_end")
        ELSE /\ res' = [res EXCEPT ![c] = [head |-> "NOT ", long |-> TRUE]]
             /\ Return(p)
  BY DEF RunRes
<1>3. CASE s
  <2>1. /\ res' = [res EXCEPT ![c] = [head |-> "PASS", long |-> @.long]]
        /\ th'[p].pc = "w_end" /\ Keeps(p) /\ Others(p)
    BY <1>1, <1>2, <1>3, GoesOn
  <2> QED
    BY <1>3, <2>1
<1>4. CASE ~s
  <2>1. /\ res' = [res EXCEPT ![c] = [head |-> "NOT ", long |-> TRUE]]
        /\ th'[p].pc = "idle" /\ th'[p].f = None /\ th'[p].said = 0 /\ Others(p)
    BY <1>1, <1>2, <1>4, Returns
  <2> QED
    BY <1>4, <2>1
<1> QED
  BY <1>3, <1>4

LEMMA LogMoves ==
  ASSUME IInv, NEW p \in Procs
  PROVE  /\ LogFind(p) =>
              \/ th'[p].pc = "l_case" /\ Keeps(p) /\ Others(p)
              \/ LogReturn(p) /\ \A j \in DOMAIN caseList : ~Found(p, j)
         /\ LogCase(p) =>
              LET tab == CaseTable[th[p].mod]
              IN \/ \E j \in DOMAIN tab :
                      /\ CaseName[tab[j]] = FuncName(p)
                      /\ th'[p].pc = "l_len" /\ th'[p].dst = tab[j]
                      /\ th'[p].f = th[p].f /\ th'[p].ko = th[p].ko
                      /\ th'[p].n = th[p].n /\ th'[p].said = th[p].said /\ Others(p)
                 \/ /\ LogReturn(p)
                    /\ \A j \in DOMAIN tab :
                         ~ /\ CaseName[tab[j]] = FuncName(p)
                           /\ \A h \in 1 .. j - 1 : CaseName[tab[h]] # FuncName(p)
         /\ LogLen(p) =>
              LET room == PageSize - logLen[th[p].dst] - 1
              IN \/ th'[p].pc = "oops" /\ Keeps(p) /\ Others(p)
                 \/ room <= 0 /\ LogReturn(p)
                 \/ /\ room > 0 /\ log[th[p].dst] # "null" /\ th'[p].pc = "l_cat"
                    /\ th'[p].n = (IF th[p].n < room THEN th[p].n ELSE room)
                    /\ th'[p].f = th[p].f /\ th'[p].ko = th[p].ko /\ th'[p].dst = th[p].dst
                    /\ th'[p].said = th[p].said /\ Others(p)
<1>1. TypeOK /\ th[p] \in Thread
  BY DEF IInv, TypeOK
<1>2. ASSUME LogFind(p)
      PROVE  \/ th'[p].pc = "l_case" /\ Keeps(p) /\ Others(p)
             \/ LogReturn(p) /\ \A j \in DOMAIN caseList : ~Found(p, j)
  <2>1. ASSUME NEW j \in DOMAIN caseList,
               Become(p, [th[p] EXCEPT !.pc = "l_case", !.mod = caseList[j]])
        PROVE  th'[p].pc = "l_case" /\ Keeps(p) /\ Others(p)
    <3> DEFINE t == [th[p] EXCEPT !.pc = "l_case", !.mod = caseList[j]]
    <3>1. th'[p] = t /\ Others(p)
      BY <1>1, <2>1, Moves
    <3>2. /\ t.pc = "l_case" /\ t.f = th[p].f /\ t.ko = th[p].ko /\ t.i = th[p].i
          /\ t.dst = th[p].dst /\ t.n = th[p].n /\ t.pos = th[p].pos /\ t.v = th[p].v
          /\ t.said = th[p].said /\ t.met = th[p].met
      BY <1>1 DEF Thread
    <3> QED
      BY <3>1, <3>2 DEF Keeps
  <2> QED
    BY <1>2, <2>1 DEF LogFind
<1>3. ASSUME LogCase(p)
      PROVE  LET tab == CaseTable[th[p].mod]
             IN \/ \E j \in DOMAIN tab :
                     /\ CaseName[tab[j]] = FuncName(p)
                     /\ th'[p].pc = "l_len" /\ th'[p].dst = tab[j]
                     /\ th'[p].f = th[p].f /\ th'[p].ko = th[p].ko
                     /\ th'[p].n = th[p].n /\ th'[p].said = th[p].said /\ Others(p)
                \/ /\ LogReturn(p)
                   /\ \A j \in DOMAIN tab :
                        ~ /\ CaseName[tab[j]] = FuncName(p)
                          /\ \A h \in 1 .. j - 1 : CaseName[tab[h]] # FuncName(p)
  <2> DEFINE tab == CaseTable[th[p].mod]
  <2>1. ASSUME NEW j \in DOMAIN tab, CaseName[tab[j]] = FuncName(p),
               Become(p, [th[p] EXCEPT !.pc = "l_len", !.dst = tab[j]])
        PROVE  /\ th'[p].pc = "l_len" /\ th'[p].dst = tab[j]
               /\ th'[p].f = th[p].f /\ th'[p].ko = th[p].ko
               /\ th'[p].n = th[p].n /\ th'[p].said = th[p].said /\ Others(p)
    <3> DEFINE t == [th[p] EXCEPT !.pc = "l_len", !.dst = tab[j]]
    <3>1. th'[p] = t /\ Others(p)
      BY <1>1, <2>1, Moves
    <3>2. /\ t.pc = "l_len" /\ t.dst = tab[j] /\ t.f = th[p].f /\ t.ko = th[p].ko
          /\ t.n = th[p].n /\ t.said = th[p].said
      BY <1>1 DEF Thread
    <3> QED
      BY <3>1, <3>2
  <2> QED
    BY <1>3, <2>1, Zenon DEF LogCase
<1>4. ASSUME LogLen(p)
      PROVE  LET room == PageSize - logLen[th[p].dst] - 1
             IN \/ th'[p].pc = "oops" /\ Keeps(p) /\ Others(p)
                \/ room <= 0 /\ LogReturn(p)
                \/ /\ room > 0 /\ log[th[p].dst] # "null" /\ th'[p].pc = "l_cat"
                   /\ th'[p].n = (IF th[p].n < room THEN th[p].n ELSE room)
                   /\ th'[p].f = th[p].f /\ th'[p].ko = th[p].ko /\ th'[p].dst = th[p].dst
                   /\ th'[p].said = th[p].said /\ Others(p)
  <2> DEFINE room == PageSize - logLen[th[p].dst] - 1
             new == IF th[p].n < room THEN th[p].n ELSE room
             t == [th[p] EXCEPT !.pc = "l_cat", !.n = new]
  <2>1. CASE Goto(p, "oops")
    BY <1>1, <2>1, GoesOn
  <2>2. ASSUME Become(p, t)
        PROVE  /\ th'[p].pc = "l_cat" /\ th'[p].n = new /\ th'[p].f = th[p].f
               /\ th'[p].ko = th[p].ko /\ th'[p].dst = th[p].dst
               /\ th'[p].said = th[p].said /\ Others(p)
    <3>1. th'[p] = t /\ Others(p)
      BY <1>1, <2>2, Moves
    <3>2. /\ t.pc = "l_cat" /\ t.n = new /\ t.f = th[p].f /\ t.ko = th[p].ko
          /\ t.dst = th[p].dst /\ t.said = th[p].said
      BY <1>1 DEF Thread
    <3> QED
      BY <3>1, <3>2
  <2>3. \/ Goto(p, "oops")
        \/ room <= 0 /\ LogReturn(p)
        \/ room > 0 /\ log[th[p].dst] # "null" /\ Become(p, t)
    BY <1>4 DEF LogLen
  <2> QED
    BY <2>1, <2>2, <2>3
<1> QED
  BY <1>2, <1>3, <1>4

\* What a step of a read does to its thread.
LEMMA ReadMoves ==
  ASSUME IInv, NEW p \in Procs
  PROVE  /\ ReadCheck(p) =>
              \/ th'[p].pc = "oops" /\ Keeps(p) /\ Others(p)
              \/ th'[p].pc = "idle" /\ th'[p].f = None /\ th'[p].said = 0 /\ Others(p)
              \/ /\ th'[p].pc = "d_cnt" /\ Keeps(p) /\ Others(p)
                 /\ ~ (th[p].pos >= Strlen(th[p].f))
                 /\ th[p].f[2] = "res" \/ log[th[p].f[1]] # "null"
         /\ ReadCount(p) =>
              /\ th'[p].pc = "d_copy" /\ th'[p].f = th[p].f /\ th'[p].met = th[p].met
              /\ th'[p].pos = th[p].pos /\ Others(p)
              /\ \E m \in ReadSizes, left \in {(Strlen(th[p].f) - th[p].pos) % SizeMod} :
                   th'[p].n \in {m, left, PageSize} /\ th'[p].n <= left
         /\ ReadCopy(p) =>
              \/ th'[p].pc = "oops" /\ Keeps(p) /\ Others(p)
              \/ th'[p].pc = "idle" /\ th'[p].f = None /\ th'[p].said = 0 /\ Others(p)
              \/ /\ th'[p].pc = "d_next" /\ th'[p].f = th[p].f /\ th'[p].met = th[p].met
                 /\ Others(p)
<1>1. TypeOK /\ th[p] \in Thread
  BY DEF IInv, TypeOK
<1>2. ASSUME ReadCheck(p)
      PROVE  \/ th'[p].pc = "oops" /\ Keeps(p) /\ Others(p)
             \/ th'[p].pc = "idle" /\ th'[p].f = None /\ th'[p].said = 0 /\ Others(p)
             \/ /\ th'[p].pc = "d_cnt" /\ Keeps(p) /\ Others(p)
                /\ ~ (th[p].pos >= Strlen(th[p].f))
                /\ th[p].f[2] = "res" \/ log[th[p].f[1]] # "null"
  BY <1>1, <1>2, GoesOn, Returns DEF ReadCheck
<1>3. ASSUME ReadCopy(p)
      PROVE  \/ th'[p].pc = "oops" /\ Keeps(p) /\ Others(p)
             \/ th'[p].pc = "idle" /\ th'[p].f = None /\ th'[p].said = 0 /\ Others(p)
             \/ /\ th'[p].pc = "d_next" /\ th'[p].f = th[p].f /\ th'[p].met = th[p].met
                /\ Others(p)
  <2> DEFINE t == [th[p] EXCEPT !.pc = "d_next", !.pos = @ + th[p].n, !.n = 0]
  <2>1. ASSUME Become(p, t)
        PROVE  th'[p].pc = "d_next" /\ th'[p].f = th[p].f /\ th'[p].met = th[p].met /\ Others(p)
    <3>1. th'[p] = t /\ Others(p)
      BY <1>1, <2>1, Moves
    <3>2. t.pc = "d_next" /\ t.f = th[p].f /\ t.met = th[p].met
      BY <1>1 DEF Thread
    <3> QED
      BY <3>1, <3>2
  <2>2. Return(p) \/ Become(p, t) \/ Goto(p, "oops")
    BY <1>3 DEF ReadCopy
  <2> QED
    BY <1>1, <2>1, <2>2, GoesOn, Returns
<1>4. ASSUME ReadCount(p)
      PROVE  /\ th'[p].pc = "d_copy" /\ th'[p].f = th[p].f /\ th'[p].met = th[p].met
             /\ th'[p].pos = th[p].pos /\ Others(p)
             /\ \E m \in ReadSizes, left \in {(Strlen(th[p].f) - th[p].pos) % SizeMod} :
                  th'[p].n \in {m, left, PageSize} /\ th'[p].n <= left
  <2> DEFINE left == (Strlen(th[p].f) - th[p].pos) % SizeMod
             Clamp(m) == IF th[p].f[2] # "res" /\ m > PageSize THEN PageSize ELSE m
             Count(m) == Clamp(IF m < left THEN m ELSE left)
  <2>1. PICK m \in ReadSizes : Become(p, [th[p] EXCEPT !.pc = "d_copy", !.n = Count(m)])
    BY <1>4 DEF ReadCount
  <2> DEFINE t == [th[p] EXCEPT !.pc = "d_copy", !.n = Count(m)]
  <2>2. th'[p] = t /\ Others(p)
    BY <1>1, <2>1, Moves
  <2>3. /\ t.pc = "d_copy" /\ t.f = th[p].f /\ t.met = th[p].met /\ t.pos = th[p].pos
        /\ t.n = Count(m)
    BY <1>1 DEF Thread
  <2>4. left \in Int /\ m \in Nat /\ PageSize \in Nat
    <3>1. Strlen(th[p].f) - th[p].pos \in Int
      <4>1. th[p].pc = "d_cnt" /\ th[p].f # None
        BY <1>4 DEF ReadCount, At, IInv, LocalsOK, LocalsOf, ReadPcs
      <4>2. th[p].f[1] \in Cases /\ th[p].pos \in Nat
        BY <1>1, <4>1 DEF Thread, Files
      <4>3. logLen[th[p].f[1]] \in Nat
        <5>1. logLen \in [Cases -> Nat]
          BY <1>1 DEF TypeOK
        <5> QED
          BY <4>2, <5>1
      <4>4. TextLen(res[th[p].f[1]]) \in Int
        BY DEF TextLen
      <4> QED
        BY <4>2, <4>3, <4>4 DEF Strlen
    <3> QED
      BY <3>1, SizeAssumption
  <2>5. Count(m) \in {m, left, PageSize} /\ Count(m) <= left
    BY <2>4
  <2> QED
    BY <2>2, <2>3, <2>5
<1> QED
  BY <1>2, <1>3, <1>4
------------------------------------------------------------------------------
\* Who is busy, and the file that shows it.
LEMMA BusyIs ==
  ASSUME IInv, Fresh, NEW p \in Procs
  PROVE  /\ \A c \in Cases : Busy(p, c) <=> Running(p, c)
         /\ th[p].f # None => th[p].f \in Files /\ th[p].f[1] \in Cases
         /\ th[p].pc \in RunPcs => th[p].f # None /\ Busy(p, th[p].f[1])
         /\ \A c \in Cases : Busy(p, c) => Inside(p, th[p].f)
<1>1. th[p] \in Thread /\ LocalsOf(p)
  BY DEF IInv, TypeOK, LocalsOK
<1>2. th[p].f # None => th[p].f \in Files
  BY <1>1 DEF Thread
<1>3. th[p].f # None => /\ th[p].f[1] \in Cases
                        /\ th[p].f[2] \in {"run", "res", "log"}
                        /\ th[p].f = <<th[p].f[1], th[p].f[2]>>
  BY <1>2 DEF Files, Kinds
<1>4. ASSUME NEW c \in Cases, Busy(p, c) PROVE Running(p, c)
  <2>1. th[p].f[2] \in {"run", "log"}
    BY <1>3, <1>4 DEF Fresh, Busy
  <2> QED
    BY <1>3, <1>4, <2>1 DEF Busy, Running
<1>5. ASSUME NEW c \in Cases, Running(p, c) PROVE Busy(p, c)
  <2>1. th[p].f \in Cases \X {"run", "log"} /\ th[p].f[1] = c
    BY <1>5 DEF Running
  <2>2. th[p].f \in Files
    BY <2>1 DEF Files, Kinds
  <2> QED
    BY <1>5, <2>1, <2>2, NoneIsNone DEF Busy, Running
<1>6. th[p].pc \in RunPcs => th[p].f # None
  BY <1>1 DEF LocalsOf
<1> QED
  BY <1>2, <1>3, <1>4, <1>5, <1>6 DEF Busy, Inside, InPcs

\* Steps that are no part of a run.
Calm(p) == \A c \in Cases : ~Busy(p, c) /\ ~Busy(p, c)'

Loading(p) ==
  \/ \E k \in Kos : Insmod(p, k) \/ Rmmod(p, k)
  \/ RegAdd(p) \/ RegFiles(p) \/ RegLog(p) \/ RegFunc(p)
  \/ UnregLock(p) \/ UnregUnlink(p) \/ UnregDrain(p) \/ UnregDel(p)

ReadingStep(p) ==
  \/ \E f \in Cases \X ReadKinds : ReadBegin(p, f)
  \/ ReadCheck(p) \/ ReadCount(p) \/ ReadCopy(p) \/ ReadNext(p)

LoggingStep(p) == LogFind(p) \/ LogCase(p) \/ LogLen(p) \/ LogCat(p)

RunningStep(p) ==
  RunClear(p) \/ RunLog(p) \/ RunReturn(p) \/ RunSucc(p) \/ RunRes(p) \/ RunEnd(p)

LEMMA Kinds4 ==
  ASSUME NEW p \in Procs, Step(p) \/ Call(p)
  PROVE  \/ Loading(p) \/ ReadingStep(p) \/ LoggingStep(p) \/ RunningStep(p)
         \/ \E c \in Cases, x \in RunKinds : RunBegin(p, c, x)
BY DEF Step, Call, Loading, ReadingStep, LoggingStep, RunningStep

LEMMA LoadingCalm ==
  ASSUME IInv, NEW p \in Procs, Loading(p)
  PROVE  Calm(p) /\ Others(p) /\ th[p].f = None /\ th'[p].f = None /\ ~Panicked
<1>1. LocalsOf(p)
  BY DEF IInv, LocalsOK
<1>2. th[p].f = None /\ ~Panicked
  BY <1>1, Zenon DEF Loading, LocalsOf, RegPcs, UnregPcs, At, Insmod, Rmmod, RegAdd, RegFiles, RegLog,
              RegFunc, UnregLock, UnregUnlink, UnregDrain, UnregDel
<1>3. th'[p].f = None /\ Others(p)
  BY <1>2, LoaderMoves DEF Loading, Keeps
<1> QED
  BY <1>2, <1>3 DEF Calm, Busy

LEMMA ReadingCalm ==
  ASSUME IInv, NEW p \in Procs, ReadingStep(p)
  PROVE  /\ Calm(p) /\ Others(p) /\ ~Panicked
         /\ th[p].pc \in ReadPcs \cup {"idle", "d_next"}
         /\ th'[p].pc \in ReadPcs \cup {"idle", "d_next", "oops"}
         /\ UNCHANGED <<koState, caseList, mutex, files, data, history>>
         /\ th'[p].pc = "idle" => th'[p].said = 0
<1>1. TypeOK /\ th[p].pc \in ReadPcs \cup {"idle", "d_next"} /\ ~Panicked
  BY DEF IInv, ReadingStep, ReadPcs, At, ReadBegin, ReadCheck, ReadCount, ReadCopy, ReadNext
<1>2. UNCHANGED <<koState, caseList, mutex, files, data, history>>
  BY DEF ReadingStep, ReadBegin, ReadCheck, ReadCount, ReadCopy, ReadNext
<1>3. /\ th'[p].pc \in ReadPcs \cup {"idle", "d_next", "oops"} /\ Others(p)
      /\ th'[p].pc = "idle" => th'[p].said = 0
  <2>1. CASE \E f \in Cases \X ReadKinds : ReadBegin(p, f)
    BY <1>1, <2>1, Enters DEF ReadBegin, ReadPcs
  <2>2. CASE ReadNext(p)
    BY <1>1, <2>2, Enters, Returns DEF ReadNext, ReadPcs
  <2>3. CASE ReadCheck(p) \/ ReadCount(p) \/ ReadCopy(p)
    BY <2>3, ReadMoves DEF ReadPcs
  <2> QED
    BY <2>1, <2>2, <2>3 DEF ReadingStep
<1>4. Calm(p)
  BY <1>1, <1>3 DEF Calm, Busy, ReadPcs, RunPcs, LogPcs
<1> QED
  BY <1>1, <1>2, <1>3, <1>4

\* Steps of logging stay in the call they are part of, and change one log at most.
LEMMA LoggingStays ==
  ASSUME IInv, NEW p \in Procs, LoggingStep(p)
  PROVE  /\ Others(p) /\ ~Panicked /\ th[p].pc \in LogPcs
         /\ th'[p].f = th[p].f /\ th'[p].ko = th[p].ko
         /\ th'[p].pc \in LogPcs \cup {"w_body", "r_func", "oops"}
         /\ th'[p].pc = "w_body" => th[p].f # None
         /\ th'[p].pc = "r_func" => th[p].f = None
         /\ \A c \in Cases : Busy(p, c)' => Busy(p, c)
         /\ UNCHANGED <<koState, caseList, mutex, files, log, res, succ, history>>
<1>1. TypeOK /\ th[p].pc \in LogPcs /\ ~Panicked
  BY Zenon DEF IInv, LoggingStep, LogPcs, At, LogFind, LogCase, LogLen, LogCat
<1>2. UNCHANGED <<koState, caseList, mutex, files, log, res, succ, history>>
  BY Zenon DEF LoggingStep, LogFind, LogCase, LogLen, LogCat, data
<1>3. /\ Others(p) /\ th'[p].f = th[p].f /\ th'[p].ko = th[p].ko
      /\ th'[p].pc \in LogPcs \cup {"w_body", "r_func", "oops"}
      /\ th'[p].pc = "w_body" => th[p].f # None
      /\ th'[p].pc = "r_func" => th[p].f = None
  <2>1. CASE LogFind(p)
    BY <1>1, <2>1, LogMoves, LogReturns DEF Keeps, LogPcs
  <2>2. CASE LogCase(p)
    BY <1>1, <2>2, LogMoves, LogReturns DEF LogPcs
  <2>3. CASE LogLen(p)
    BY <1>1, <2>3, LogMoves, LogReturns DEF Keeps, LogPcs
  <2>4. CASE LogCat(p)
    BY <1>1, <2>4, LogReturns DEF LogCat
  <2> QED
    BY <2>1, <2>2, <2>3, <2>4 DEF LoggingStep
<1> QED
  BY <1>1, <1>2, <1>3 DEF Busy

\* Steps of a run stay in it or end it.
LEMMA RunningStays ==
  ASSUME IInv, NEW p \in Procs, RunningStep(p)
  PROVE  /\ Others(p) /\ ~Panicked /\ th[p].pc \in RunPcs
         /\ \/ th'[p].f = th[p].f /\ th'[p].pc \in {"w_body", "l_find", "w_succ", "w_res", "w_end", "oops"}
            \/ th'[p].f = None /\ th'[p].pc = "idle" /\ th'[p].said = 0
         /\ \A c \in Cases : Busy(p, c)' => Busy(p, c)
         /\ UNCHANGED <<koState, caseList, mutex, files>>
<1>1. th[p].pc \in RunPcs /\ ~Panicked
  BY Zenon DEF RunningStep, RunPcs, At, RunClear, RunLog, RunReturn, RunSucc, RunRes, RunEnd
<1>2. UNCHANGED <<koState, caseList, mutex, files>>
  BY DEF RunningStep, RunClear, RunLog, RunReturn, RunSucc, RunRes, RunEnd
<1>3. /\ Others(p)
      /\ \/ th'[p].f = th[p].f /\ th'[p].pc \in {"w_body", "l_find", "w_succ", "w_res", "w_end", "oops"}
         \/ th'[p].f = None /\ th'[p].pc = "idle" /\ th'[p].said = 0
  <2>1. CASE RunRes(p)
    BY <2>1, ResMoves DEF Keeps
  <2>2. CASE ~RunRes(p)
    BY <2>2, RunMoves DEF RunningStep, Keeps
  <2> QED
    BY <2>1, <2>2
<1> QED
  BY <1>1, <1>2, <1>3 DEF Busy

\* No step makes another thread busy, or idle.
LEMMA OthersBusy ==
  ASSUME NEW p \in Procs, Others(p)
  PROVE  \A q \in Procs \ {p}, c \in Cases : Busy(q, c)' <=> Busy(q, c)
BY DEF Others, Busy, RunPcs, LogPcs

LEMMA StepOthers ==
  ASSUME IInv, NEW p \in Procs, Step(p) \/ Call(p)
  PROVE  Others(p) /\ ~Panicked
<1>1. ASSUME NEW c \in Cases, NEW x \in RunKinds, RunBegin(p, c, x)
      PROVE  Others(p) /\ ~Panicked
  BY <1>1, Begins DEF IInv, RunBegin, At
<1> QED
  BY <1>1, Kinds4, LoadingCalm, ReadingCalm, LoggingStays, RunningStays
------------------------------------------------------------------------------
LEMMA FreshKeeps ==
  ASSUME IInv, Fresh, NEW p \in Procs, Step(p) \/ Call(p)
  PROVE  Fresh'
<1> DEFINE New(q) == /\ th[q].pc \in {"idle", "w_clear"} => th[q].said = 0
                     /\ th[q].pc \in RunPcs \cup LogPcs /\ th[q].f # None => th[q].f[2] # "res"
<1>1. \A q \in Procs \ {p} : New(q)'
  BY StepOthers DEF Fresh, Others, RunPcs, LogPcs
<1>2. New(p)'
  <2>1. CASE Loading(p)
    <3>1. th'[p].f = None
      BY <2>1, LoadingCalm
    <3>2. th'[p].pc \in {"idle", "w_clear"} => th'[p].said = 0
      <4>1. CASE RegFunc(p) \/ UnregDel(p)
        BY <4>1, LoaderMoves
      <4>2. CASE ~(RegFunc(p) \/ UnregDel(p))
        <5>1. th'[p].pc \notin {"idle", "w_clear"}
          BY <2>1, <4>2, LoaderMoves DEF Loading
        <5> QED
          BY <5>1
      <4> QED
        BY <4>1, <4>2
    <3> QED
      BY <3>1, <3>2
  <2>2. CASE ReadingStep(p)
    BY <2>2, ReadingCalm DEF ReadPcs, RunPcs, LogPcs
  <2>3. CASE LoggingStep(p)
    BY <2>3, LoggingStays DEF Fresh, LogPcs
  <2>4. CASE RunningStep(p)
    BY <2>4, RunningStays DEF Fresh, RunPcs, LogPcs
  <2>5. ASSUME NEW c \in Cases, NEW x \in RunKinds, RunBegin(p, c, x) PROVE New(p)'
    <3>1. th[p].pc = "idle" /\ x # "res" /\ TypeOK
      BY <2>5, InputAssumption DEF RunBegin, At, IInv
    <3> QED
      BY <2>5, <3>1, Begins DEF Fresh
  <2> QED
    BY <2>1, <2>2, <2>3, <2>4, <2>5, Kinds4
<1> QED
  BY <1>1, <1>2 DEF Fresh

\* No call is inside a file of a ko that an insmod begins to load.
LEMMA NobodyInside ==
  ASSUME IInv, Fresh, NEW k \in Kos, koState[k] = "absent", NEW c \in CasesOf(k)
  PROVE  \A q \in Procs : /\ ~Busy(q, c)
                          /\ th[q].pc \in ReadPcs => th[q].f[1] # c
<1>1. c \in Cases /\ KoOf(c) = k
  BY OwnerOfCase
<1>2. ASSUME NEW q \in Procs, NEW f \in Files, Inside(q, f) PROVE f[1] # c
  BY <1>1, <1>2, InsideLoaded
<1>3. ASSUME NEW q \in Procs, Busy(q, c) PROVE FALSE
  <2>1. th[q].f \in Files /\ Inside(q, th[q].f) /\ th[q].f[1] = c
    BY <1>1, <1>3, BusyIs DEF Busy
  <2> QED
    BY <1>2, <2>1
<1>4. ASSUME NEW q \in Procs, th[q].pc \in ReadPcs PROVE th[q].f[1] # c
  <2>1. th[q].f # None
    BY <1>4 DEF IInv, LocalsOK, LocalsOf
  <2>2. th[q].f \in Files /\ Inside(q, th[q].f)
    BY <1>4, <2>1, BusyIs DEF Inside, InPcs
  <2> QED
    BY <1>2, <2>2
<1> QED
  BY <1>3, <1>4

\* Every step but an insmod, RunBegin and RunClear leaves crowded alone.
LEMMA CrowdedSame ==
  ASSUME NEW p \in Procs, Step(p) \/ Call(p),
         \A k \in Kos : ~Insmod(p, k), ~RunClear(p),
         \A c \in Cases, x \in RunKinds : ~RunBegin(p, c, x)
  PROVE  crowded' = crowded
BY Zenon DEF Step, Call, history, RegAdd, RegFiles, RegLog, RegFunc, UnregLock, UnregUnlink, UnregDrain,
       UnregDel, RunLog, RunReturn, RunSucc, RunRes, RunEnd, LogFind, LogCase, LogLen, LogCat,
       ReadCheck, ReadCount, ReadCopy, ReadNext, Rmmod, ReadBegin

LEMMA ApartKeeps ==
  ASSUME IInv, Fresh, RunsApart, NEW p \in Procs, Step(p) \/ Call(p)
  PROVE  RunsApart'
<1>1. Others(p)
  BY StepOthers
<1>2. \A q \in Procs \ {p}, c \in Cases : Busy(q, c)' <=> Busy(q, c)
  BY <1>1, OthersBusy
<1>3. ASSUME \A c \in Cases : Busy(p, c)' => Busy(p, c), crowded' = crowded
      PROVE  RunsApart'
  BY <1>2, <1>3 DEF RunsApart
<1>4. ASSUME NEW k \in Kos, Insmod(p, k) PROVE RunsApart'
  <2>1. Calm(p)
    BY <1>4, LoadingCalm DEF Loading
  <2>2. crowded' = crowded \ CasesOf(k) /\ koState[k] = "absent"
    BY <1>4 DEF Insmod
  <2> QED
    BY <1>2, <2>1, <2>2, NobodyInside DEF RunsApart, Calm
<1>5. CASE RunClear(p)
  <2> DEFINE c == th[p].f[1]
  <2>1. \A d \in Cases : Busy(p, d)' => Busy(p, d)
    BY <1>5, RunningStays DEF RunningStep
  <2>2. \/ crowded' = crowded
        \/ crowded' = crowded \ {c} /\ \A q \in Procs \ {p} : ~Running(q, c)
    <3>1. \/ UNCHANGED <<log, logLen, crowded>>
          \/ crowded' = IF \E q \in Procs \ {p} : Running(q, c) THEN crowded ELSE crowded \ {c}
      BY <1>5 DEF RunClear
    <3> QED
      BY <3>1
  <2>3. CASE crowded' = crowded
    BY <1>3, <2>1, <2>3
  <2>4. CASE crowded' = crowded \ {c} /\ \A q \in Procs \ {p} : ~Running(q, c)
    <3>1. c \in Cases => \A q \in Procs \ {p} : ~Busy(q, c)
      BY <2>4, BusyIs
    <3> QED
      BY <1>2, <2>1, <2>4, <3>1 DEF RunsApart
  <2> QED
    BY <2>2, <2>3, <2>4
<1>6. ASSUME NEW c \in Cases, NEW x \in RunKinds, RunBegin(p, c, x) PROVE RunsApart'
  <2>1. \A d \in Cases : Busy(p, d)' => d = c
    BY <1>6, Begins DEF IInv, Busy
  <2>2. \A d \in Cases : ~Busy(p, d)
    BY <1>6 DEF RunBegin, At, Busy, RunPcs, LogPcs
  <2>3. crowded' = (IF \E q \in Procs : Running(q, c) THEN crowded \cup {c} ELSE crowded)
    BY <1>6 DEF RunBegin
  <2>4. \A q \in Procs : Busy(q, c) <=> Running(q, c)
    BY BusyIs
  <2>5. CASE \E q \in Procs : Running(q, c)
    BY <1>2, <2>1, <2>2, <2>3, <2>5 DEF RunsApart
  <2>6. CASE ~ \E q \in Procs : Running(q, c)
    BY <1>2, <2>1, <2>2, <2>3, <2>4, <2>6 DEF RunsApart
  <2> QED
    BY <2>5, <2>6
<1>7. CASE /\ \A k \in Kos : ~Insmod(p, k)
           /\ ~RunClear(p)
           /\ \A c \in Cases, x \in RunKinds : ~RunBegin(p, c, x)
  <2>1. crowded' = crowded
    BY <1>7, CrowdedSame
  <2>2. \A c \in Cases : Busy(p, c)' => Busy(p, c)
    BY <1>7, Kinds4, LoadingCalm, ReadingCalm, LoggingStays, RunningStays DEF Calm
  <2> QED
    BY <1>3, <2>1, <2>2
<1> QED
  BY <1>4, <1>5, <1>6, <1>7

\* With names apart, who appends to a log runs its case.
LEMMA OwnLogKeeps ==
  ASSUME IInv, Fresh, OwnLog, NEW p \in Procs, Step(p) \/ Call(p)
  PROVE  OwnLog'
<1> SUFFICES ASSUME NamesApart, NEW q \in Procs, th'[q].pc \in {"l_len", "l_cat"}
             PROVE  th'[q].f # None /\ th'[q].dst = th'[q].f[1]
  BY DEF OwnLog, NamesApart, NamesDisjoint
<1>1. Others(p)
  BY StepOthers
<1>2. CASE q # p
  BY <1>1, <1>2 DEF Others, OwnLog
<1>3. CASE q = p
  <2>1. CASE LogLen(p)
    <3>1. /\ th'[p].pc = "l_cat" /\ th'[p].f = th[p].f /\ th'[p].dst = th[p].dst
      BY <1>3, <2>1, LogMoves, LogReturns DEF IInv
    <3>2. th[p].pc = "l_len"
      BY <2>1 DEF LogLen, At
    <3> QED
      BY <1>3, <3>1, <3>2 DEF OwnLog
  <2>2. CASE LogCase(p)
    <3> DEFINE tab == CaseTable[th[p].mod]
    <3>1. PICK j \in DOMAIN tab : /\ CaseName[tab[j]] = FuncName(p)
                                  /\ th'[p].dst = tab[j] /\ th'[p].f = th[p].f
      BY <1>3, <2>2, LogMoves, LogReturns DEF IInv
    <3>2. th[p].pc = "l_case"
      BY <2>2, Zenon DEF LogCase, At
    <3>3. th[p].mod = Home(p) /\ th[p].mod \in Kos
      BY <3>2 DEF NamesApart, IInv, LocalsOK, LocalsOf, TypeOK, Thread
    <3>4. tab[j] \in Cases /\ KoOf(tab[j]) = Home(p)
      BY <3>1, <3>3, TableEntries
    <3>5. CASE th[p].f # None
      <4>1. th[p].f[1] \in Cases
        BY <3>5, BusyIs
      <4> QED
        BY <1>3, <3>1, <3>4, <3>5, <4>1 DEF Home, FuncName, NamesApart
    <3>6. CASE th[p].f = None
      BY <3>1, <3>4, <3>6 DEF Home, FuncName, NamesApart
    <3> QED
      BY <3>5, <3>6
  <2>3. CASE LogFind(p) \/ LogCat(p)
    BY <1>3, <2>3, LogMoves, LogReturns DEF IInv, LogCat
  <2>4. CASE Loading(p)
    BY <1>3, <2>4, LoaderMoves, LoadingCalm DEF Loading
  <2>5. CASE ReadingStep(p)
    BY <1>3, <2>5, ReadingCalm DEF ReadPcs
  <2>6. CASE RunningStep(p)
    BY <1>3, <2>6, RunningStays
  <2>7. ASSUME NEW c \in Cases, NEW x \in RunKinds, RunBegin(p, c, x) PROVE FALSE
    BY <1>3, <2>7, Begins DEF IInv
  <2> QED
    BY <2>1, <2>2, <2>3, <2>4, <2>5, <2>6, <2>7, Kinds4 DEF LoggingStep
<1> QED
  BY <1>2, <1>3
------------------------------------------------------------------------------
\* Who changes which page: an insmod, the registration of the case, a memset.
LEMMA PageChanges ==
  ASSUME IInv, PagesOK, NEW p \in Procs, Step(p) \/ Call(p)
  PROVE  \/ \E k \in Kos : /\ Insmod(p, k)
                           /\ \A c \in Cases :
                                log'[c] = IF c \in CasesOf(k) THEN "null" ELSE log[c]
         \/ /\ RegLog(p) /\ th[p].ko \in Kos /\ th[p].i \in DOMAIN CaseTable[th[p].ko]
            /\ log[CaseTable[th[p].ko][th[p].i]] = "null"
            /\ \A c \in Cases : c # CaseTable[th[p].ko][th[p].i] => log'[c] = log[c]
         \/ /\ RunClear(p) /\ th'[p].pc = "w_body" /\ th[p].f[1] \in Cases
            /\ log[th[p].f[1]] # "null"
            /\ \A c \in Cases : log'[c] = IF c = th[p].f[1] THEN "text" ELSE log[c]
         \/ /\ log' = log
            /\ RunClear(p) => th'[p].pc = "oops"
            /\ \A k \in Kos : ~Insmod(p, k)
            /\ ~RegLog(p)
<1>1. log \in [Cases -> {"null", "raw", "text"}] /\ th[p] \in Thread /\ LocalsOf(p) /\ TypeOK
  BY DEF IInv, TypeOK, LocalsOK
<1>2. ASSUME NEW k \in Kos, Insmod(p, k)
      PROVE  \A c \in Cases : log'[c] = IF c \in CasesOf(k) THEN "null" ELSE log[c]
  BY <1>2 DEF Insmod
<1>3. ASSUME RegLog(p)
      PROVE  /\ th[p].ko \in Kos /\ th[p].i \in DOMAIN CaseTable[th[p].ko]
             /\ log[CaseTable[th[p].ko][th[p].i]] = "null"
             /\ \A c \in Cases : c # CaseTable[th[p].ko][th[p].i] => log'[c] = log[c]
  <2> DEFINE d == CaseTable[th[p].ko][th[p].i]
  <2>1. th[p].pc = "r_log" /\ th[p].i \in Nat
    BY <1>1, <1>3 DEF RegLog, At, Thread
  <2>2. th[p].ko \in Kos /\ th[p].i \in DOMAIN CaseTable[th[p].ko]
    BY <1>1, <2>1 DEF LocalsOf, RegPcs
  <2>3. log[d] = "null"
    BY <2>1, <2>2 DEF PagesOK
  <2>4. log' = [log EXCEPT ![d] = "raw"] \/ log' = log
    BY <1>3 DEF RegLog
  <2> QED
    BY <1>1, <2>2, <2>3, <2>4
<1>4. ASSUME RunClear(p)
      PROVE  \/ log' = log /\ th'[p].pc = "oops"
             \/ /\ th'[p].pc = "w_body" /\ th[p].f[1] \in Cases
                /\ log[th[p].f[1]] # "null"
                /\ \A c \in Cases : log'[c] = IF c = th[p].f[1] THEN "text" ELSE log[c]
  <2> DEFINE d == th[p].f[1]
  <2>1. d \in Cases
    <3>1. th[p].f # None
      BY <1>1, <1>4 DEF RunClear, At, LocalsOf, RunPcs
    <3> QED
      BY <1>1, <3>1 DEF Thread, Files
  <2>2. \/ log' = log /\ Goto(p, "oops")
        \/ log[d] # "null" /\ log' = [log EXCEPT ![d] = "text"] /\ Goto(p, "w_body")
    BY <1>4 DEF RunClear
  <2> QED
    BY <1>1, <2>1, <2>2, GoesOn
<1>5. CASE /\ \A k \in Kos : ~Insmod(p, k)
           /\ ~RegLog(p) /\ ~RunClear(p)
  <2>1. log' = log
    <3>1. CASE Loading(p)
      BY <1>5, <3>1 DEF Loading, data, Rmmod, RegAdd, RegFiles, RegFunc,
                        UnregLock, UnregUnlink, UnregDrain, UnregDel
    <3>2. CASE ReadingStep(p)
      BY <3>2, ReadingCalm DEF data
    <3>3. CASE LoggingStep(p)
      BY <3>3, LoggingStays
    <3>4. CASE RunningStep(p)
      BY <1>5, <3>4 DEF RunningStep, data, RunLog, RunReturn, RunSucc, RunRes, RunEnd
    <3>5. ASSUME NEW c \in Cases, NEW x \in RunKinds, RunBegin(p, c, x) PROVE log' = log
      BY <3>5 DEF RunBegin, data
    <3> QED
      BY <3>1, <3>2, <3>3, <3>4, <3>5, Kinds4
  <2> QED
    BY <1>5, <2>1
<1>6. ASSUME RunClear(p) PROVE (\A k \in Kos : ~Insmod(p, k)) /\ ~RegLog(p)
  BY <1>6 DEF RunClear, RegLog, Insmod, At
<1> QED
  BY <1>2, <1>3, <1>4, <1>5, <1>6

LEMMA PagesKeep ==
  ASSUME IInv, Fresh, PagesOK, NEW p \in Procs, Step(p) \/ Call(p)
  PROVE  PagesOK'
<1>1. Others(p) /\ TypeOK /\ LocalsOf(p)
  BY StepOthers DEF IInv, LocalsOK
<1> USE PageChanges
<1>2. ASSUME NEW q \in Procs, th'[q].pc \in {"r_add", "r_fs", "r_log"},
             NEW j \in DOMAIN CaseTable[th'[q].ko], j >= th'[q].i
      PROVE  log'[CaseTable[th'[q].ko][j]] = "null"
  <2> DEFINE c == CaseTable[th'[q].ko][j]
  <2>1. CASE q # p
    <3>1. /\ th[q].pc \in {"r_add", "r_fs", "r_log"} /\ th'[q].ko = th[q].ko /\ th'[q].i = th[q].i
      BY <1>1, <1>2, <2>1 DEF Others
    <3>2. log[c] = "null"
      BY <1>2, <3>1 DEF PagesOK
    <3>3. th[q].ko \in Kos /\ th[q].f = None
      BY <3>1 DEF IInv, LocalsOK, LocalsOf, RegPcs
    <3>4. c \in Cases /\ KoOf(c) = th[q].ko
      BY <1>2, <3>1, <3>3, TableEntries
    <3>5. ASSUME RegLog(p), th[p].ko \in Kos, th[p].i \in DOMAIN CaseTable[th[p].ko]
          PROVE  c # CaseTable[th[p].ko][th[p].i]
      <4>1. Registering(q, th[q].ko)
        BY <3>1, <3>3 DEF Registering, RegPcs
      <4>2. Registering(p, th[p].ko)
        BY <1>1, <3>5, Zenon DEF Registering, RegPcs, RegLog, At, LocalsOf
      <4>3. th[p].ko # th[q].ko
        BY <2>1, <3>3, <4>1, <4>2 DEF IInv, OneOwner
      <4> QED
        BY <3>4, <3>5, <4>3, TableEntries
    <3> QED
      BY <3>2, <3>4, <3>5
  <2>2. CASE q = p
    <3>1. CASE \E k \in Kos : Insmod(p, k)
      <4>1. PICK k \in Kos : Insmod(p, k)
        BY <3>1
      <4>2. th'[p].ko = k
        BY <4>1, LoaderMoves
      <4>3. c \in Cases /\ c \in CasesOf(k)
        BY <1>2, <2>2, <4>2, TableEntries
      <4>4. log'[c] = IF c \in CasesOf(k) THEN "null" ELSE log[c]
        BY <4>1, <4>3 DEF Insmod
      <4> QED
        BY <4>3, <4>4
    <3>2. CASE RegAdd(p) \/ RegFiles(p)
      <4>1. th[p].pc \in {"r_add", "r_fs"} /\ log' = log
        BY <3>2 DEF RegAdd, RegFiles, At, data
      <4>2. th'[p].ko = th[p].ko /\ th'[p].i = th[p].i
        BY <3>2, LoaderMoves DEF Keeps
      <4> QED
        BY <1>2, <2>2, <4>1, <4>2 DEF PagesOK
    <3>3. CASE RegLog(p)
      <4>1. th'[p].ko = th[p].ko /\ th'[p].i = th[p].i + 1
        BY <1>2, <2>2, <3>3, LoaderMoves
      <4>2. th[p].pc = "r_log" /\ th[p].i \in Nat
        BY <1>1, <3>3, Zenon DEF RegLog, At, TypeOK, Thread
      <4>3. th[p].ko \in Kos
        BY <1>1, <4>2 DEF LocalsOf, RegPcs
      <4>4. j \in Nat /\ j >= th[p].i /\ j # th[p].i
        <5>1. DOMAIN CaseTable[th[p].ko] = 1 .. Len(CaseTable[th[p].ko])
          BY <4>3, TableEntries
        <5>2. j \in Int /\ j >= th[p].i + 1
          BY <1>2, <2>2, <4>1, <5>1
        <5> QED
          BY <4>2, <5>2
      <4>5. log[c] = "null"
        BY <1>2, <2>2, <4>1, <4>2, <4>4 DEF PagesOK
      <4>6. th[p].i \in DOMAIN CaseTable[th[p].ko]
        BY <1>1, <4>2 DEF LocalsOf
      <4>7. c \in Cases /\ c # CaseTable[th[p].ko][th[p].i]
        BY <1>2, <2>2, <4>1, <4>3, <4>4, <4>6, TableAssumption, TableEntries
      <4>8. ~RunClear(p) /\ \A k \in Kos : ~Insmod(p, k)
        BY <4>2, Zenon DEF RunClear, Insmod, At
      <4> QED
        BY <3>3, <4>5, <4>7, <4>8
    <3>4. CASE /\ \A k \in Kos : ~Insmod(p, k)
               /\ ~RegAdd(p) /\ ~RegFiles(p) /\ ~RegLog(p)
      <4>1. Loading(p) => th'[p].pc \notin {"r_add", "r_fs", "r_log"}
        BY <3>4, LoaderMoves DEF Loading
      <4>2. ~Loading(p) => th'[p].pc \notin {"r_add", "r_fs", "r_log"}
        <5>1. \A d \in Cases, x \in RunKinds : RunBegin(p, d, x) => th'[p].pc = "w_clear"
          BY <1>1, Begins
        <5> QED
          BY <5>1, Kinds4, ReadingCalm, LoggingStays, RunningStays DEF ReadPcs, LogPcs
      <4> QED
        BY <1>2, <2>2, <4>1, <4>2
    <3> QED
      BY <3>1, <3>2, <3>3, <3>4
  <2> QED
    BY <2>1, <2>2
<1>3. ASSUME NEW q \in Procs, NEW c \in Cases, Busy(q, c)', th'[q].pc # "w_clear"
      PROVE  log'[c] = "text"
  <2>1. CASE q = p /\ RunClear(p)
    <3>1. th'[p].pc # "oops" /\ c = th[p].f[1]
      <4>1. Busy(p, c)
        BY <1>3, <2>1, RunningStays DEF RunningStep
      <4> QED
        BY <1>3, <2>1, <4>1 DEF Busy, RunPcs, LogPcs
    <3>2. th[p].pc = "w_clear"
      BY <2>1 DEF RunClear, At
    <3>3. ~RegLog(p) /\ \A k \in Kos : ~Insmod(p, k)
      BY <3>2, Zenon DEF RegLog, Insmod, At
    <3> QED
      BY <2>1, <3>1, <3>3
  <2>2. CASE ~(q = p /\ RunClear(p))
    <3>1. Busy(q, c) /\ th[q].pc # "w_clear"
      <4>1. CASE q # p
        BY <1>1, <1>3, <4>1, OthersBusy DEF Others, Busy, RunPcs, LogPcs
      <4>2. CASE q = p
        <5>1. \A d \in Cases, x \in RunKinds : ~RunBegin(p, d, x)
          BY <1>1, <1>3, <4>2, Begins
        <5>2. Busy(p, c)
          BY <1>3, <4>2, <5>1, Kinds4, LoadingCalm, ReadingCalm, LoggingStays, RunningStays
             DEF Calm
        <5>3. LoggingStep(p) \/ RunningStep(p)
          BY <1>3, <4>2, <5>1, Kinds4, LoadingCalm, ReadingCalm DEF Calm
        <5>4. th[p].pc # "w_clear"
          BY <2>2, <4>2, <5>3, Zenon DEF LoggingStep, RunningStep, At, LogFind, LogCase, LogLen, LogCat,
                           RunLog, RunReturn, RunSucc, RunRes, RunEnd
        <5> QED
          BY <4>2, <5>2, <5>4
      <4> QED
        BY <4>1, <4>2
    <3>2. log[c] = "text"
      BY <3>1 DEF PagesOK
    <3>3. \A k \in Kos : Insmod(p, k) => c \notin CasesOf(k)
      BY <3>1, NobodyInside DEF Insmod
    <3> QED
      BY <3>2, <3>3
  <2> QED
    BY <2>1, <2>2
<1>4. ASSUME NEW q \in Procs, th'[q].pc \in {"d_cnt", "d_copy"}, th'[q].f[2] # "res"
      PROVE  log'[th'[q].f[1]] # "null"
  <2> DEFINE c == th[q].f[1]
  <2>1. /\ th'[q].f = th[q].f /\ log[c] # "null" /\ th[q].pc \in ReadPcs
    <3>1. CASE q # p
      <4>1. th[q].pc \in {"d_cnt", "d_copy"} /\ th'[q].f = th[q].f
        BY <1>1, <1>4, <3>1 DEF Others
      <4> QED
        BY <1>4, <4>1 DEF PagesOK, ReadPcs
    <3>2. CASE q = p
      <4>1. CASE ReadingStep(p)
        <5>1. TypeOK /\ ~ \E f \in Cases \X ReadKinds : ReadBegin(p, f)
          BY <1>1, <1>4, <3>2, Enters DEF ReadBegin
        <5>2. ~ReadNext(p)
          BY <1>1, <1>4, <3>2, Enters, Returns DEF ReadNext
        <5>3. CASE ReadCheck(p)
          BY <1>4, <3>2, <5>3, ReadMoves DEF Keeps, ReadCheck, At, ReadPcs
        <5>4. CASE ReadCount(p)
          BY <1>4, <3>2, <5>4, ReadMoves DEF ReadCount, At, PagesOK, ReadPcs
        <5>5. ~ReadCopy(p)
          BY <1>4, <3>2, ReadMoves
        <5> QED
          BY <4>1, <5>1, <5>2, <5>3, <5>4, <5>5 DEF ReadingStep
      <4>2. CASE ~ReadingStep(p)
        <5>1. \A d \in Cases, x \in RunKinds : RunBegin(p, d, x) => th'[p].pc = "w_clear"
          BY <1>1, Begins
        <5>2. Loading(p) => th'[p].pc \notin {"d_cnt", "d_copy"}
          BY LoaderMoves DEF Loading
        <5> QED
          BY <1>4, <3>2, <4>2, <5>1, <5>2, Kinds4, LoggingStays, RunningStays DEF LogPcs
      <4> QED
        BY <4>1, <4>2
    <3> QED
      BY <3>1, <3>2
  <2>2. c \in Cases
    <3>1. th[q].f # None
      BY <2>1 DEF IInv, LocalsOK, LocalsOf
    <3> QED
      BY <3>1, BusyIs
  <2>3. ASSUME NEW k \in Kos, Insmod(p, k) PROVE c \notin CasesOf(k)
    <3>1. koState[k] = "absent"
      BY <2>3 DEF Insmod
    <3>2. \A d \in CasesOf(k) : th[q].f[1] # d
      BY <2>1, <3>1, NobodyInside
    <3> QED
      BY <3>2
  <2> QED
    BY <2>1, <2>2, <2>3
<1> QED
  BY <1>2, <1>3, <1>4 DEF PagesOK
------------------------------------------------------------------------------
\* A step that is not about c keeps what is known of its verdict.
LEMMA VerdictAside ==
  ASSUME NEW p \in Procs, Others(p), NEW c \in Cases, VerdictOf(c),
         ~Busy(p, c), ~Busy(p, c)', res'[c] = res[c], succ'[c] = succ[c], last'[c] = last[c]
  PROVE  VerdictOf(c)'
<1>1. \A q \in Procs : Busy(q, c)' <=> Busy(q, c)
  BY OthersBusy
<1>2. \A q \in Procs : Busy(q, c) => /\ q # p
                                     /\ th'[q].pc = th[q].pc /\ th'[q].v = th[q].v
  BY DEF Others, Busy, RunPcs, LogPcs
<1>3. Text(res'[c]) = Text(res[c])
  OBVIOUS
<1> QED
  BY <1>1, <1>2, <1>3 DEF VerdictOf

\* What a step of another case, or of none, leaves alone.
LEMMA ResultChanges ==
  ASSUME IInv, Fresh, NEW p \in Procs, Step(p) \/ Call(p), NEW c \in Cases, ~Busy(p, c),
         \A k \in Kos : Insmod(p, k) => c \notin CasesOf(k)
  PROVE  res'[c] = res[c] /\ succ'[c] = succ[c] /\ last'[c] = last[c]
<1>1. CASE RunningStep(p)
  <2>1. th[p].f[1] # c
    BY <1>1, RunningStays, BusyIs
  <2>2. /\ \/ res' = res
           \/ \E r : res' = [res EXCEPT ![th[p].f[1]] = r]
        /\ \/ succ' = succ
           \/ \E r : succ' = [succ EXCEPT ![th[p].f[1]] = r]
        /\ \/ last' = last
           \/ \E r : last' = [last EXCEPT ![th[p].f[1]] = r]
    <3>1. CASE RunClear(p) \/ RunLog(p)
      BY <3>1 DEF RunClear, RunLog, data, history
    <3>2. CASE RunReturn(p)
      BY <3>2 DEF RunReturn, data
    <3>3. CASE RunSucc(p)
      BY <3>3 DEF RunSucc, history
    <3>4. CASE RunRes(p)
      BY <3>4 DEF RunRes, history
    <3>5. CASE RunEnd(p)
      BY <3>5, Zenon DEF RunEnd, history
    <3> QED
      BY <1>1, <3>1, <3>2, <3>3, <3>4, <3>5 DEF RunningStep
  <2>3. res[c] = res[c] /\ DOMAIN res = Cases /\ DOMAIN succ = Cases /\ DOMAIN last = Cases
    BY DEF IInv, TypeOK
  <2> QED
    BY <2>1, <2>2, <2>3
<1>2. CASE Loading(p)
  <2>1. ASSUME NEW k \in Kos, Insmod(p, k)
        PROVE  res'[c] = res[c] /\ succ'[c] = succ[c] /\ last'[c] = last[c]
    BY <2>1 DEF Insmod
  <2>2. CASE \A k \in Kos : ~Insmod(p, k)
    BY <1>2, <2>2, Zenon DEF Loading, data, history, Rmmod, RegAdd, RegFiles, RegLog, RegFunc,
                      UnregLock, UnregUnlink, UnregDrain, UnregDel
  <2> QED
    BY <2>1, <2>2
<1>3. CASE ReadingStep(p)
  BY <1>3, ReadingCalm DEF data, history
<1>4. CASE LoggingStep(p)
  BY <1>4, LoggingStays DEF history
<1>5. ASSUME NEW d \in Cases, NEW x \in RunKinds, RunBegin(p, d, x)
      PROVE  res'[c] = res[c] /\ succ'[c] = succ[c] /\ last'[c] = last[c]
  BY <1>5 DEF RunBegin, data
<1> QED
  BY <1>1, <1>2, <1>3, <1>4, <1>5, Kinds4

\* An oops stays.
LEMMA PanicStays ==
  ASSUME NEW p \in Procs, Others(p), ~Panicked'
  PROVE  th'[p].pc # "oops"
BY DEF Panicked

LEMMA VerdictsKeep ==
  ASSUME IInv, Fresh, RunsApart, VerdictsOK, RunsApart', NEW p \in Procs, Step(p) \/ Call(p)
  PROVE  VerdictsOK'
<1> SUFFICES ASSUME ~Panicked', NEW c \in Cases, c \notin crowded'
             PROVE  VerdictOf(c)'
  BY DEF VerdictsOK
<1>1. /\ Others(p) /\ ~Panicked /\ th'[p].pc # "oops"
      /\ \A q \in Procs \ {p} : Busy(q, c)' <=> Busy(q, c)
  BY StepOthers, PanicStays, OthersBusy
<1>2. /\ res \in [Cases -> [head : {"", "PASS", "NOT "}, long : BOOLEAN]]
      /\ succ \in [Cases -> BOOLEAN] /\ last \in [Cases -> {"", "PASS", "NOT PASS"}]
      /\ th[p] \in Thread /\ TypeOK
  BY DEF IInv, TypeOK
<1>3. c \notin crowded => VerdictOf(c)
  BY <1>1 DEF VerdictsOK
<1>4. ASSUME NEW k \in Kos, Insmod(p, k) PROVE VerdictOf(c)'
  <2>1. CASE c \in CasesOf(k)
    <3>1. \A q \in Procs : ~Busy(q, c)'
      <4>1. \A q \in Procs : ~Busy(q, c)
        BY <1>4, <2>1, NobodyInside DEF Insmod
      <4> QED
        BY <1>1, <1>4, <4>1, LoadingCalm DEF Loading, Calm
    <3>2. res'[c] = NoText /\ succ'[c] = FALSE /\ last'[c] = ""
      BY <1>4, <2>1 DEF Insmod
    <3>3. Text(NoText) = ""
      BY DEF Text, NoText
    <3> QED
      BY <3>1, <3>2, <3>3 DEF VerdictOf
  <2>2. CASE c \notin CasesOf(k)
    <3>1. c \notin crowded
      BY <1>4, <2>2 DEF Insmod
    <3>2. ~Busy(p, c) /\ ~Busy(p, c)'
      BY <1>4, LoadingCalm DEF Loading, Calm
    <3>3. res'[c] = res[c] /\ succ'[c] = succ[c] /\ last'[c] = last[c]
      BY <1>4, <2>2 DEF Insmod
    <3> QED
      BY <1>1, <1>3, <3>1, <3>2, <3>3, VerdictAside
  <2> QED
    BY <2>1, <2>2
<1>5. CASE RunClear(p)
  <2>1. th'[p].pc = "w_body" /\ th'[p].f = th[p].f /\ th[p].pc = "w_clear"
    BY <1>1, <1>5, RunMoves DEF Keeps, RunClear, At
  <2>2. CASE c = th[p].f[1]
    <3>1. Busy(p, c)'
      BY <2>1, <2>2, BusyIs DEF Busy, RunPcs
    <3>2. \A q \in Procs : Busy(q, c)' => q = p
      BY <3>1 DEF RunsApart
    <3> QED
      BY <2>1, <3>1, <3>2 DEF VerdictOf
  <2>3. CASE c # th[p].f[1]
    <3>1. c \notin crowded
      <4>1. crowded' = crowded \/ crowded' = crowded \ {th[p].f[1]}
        BY <1>5 DEF RunClear
      <4> QED
        BY <2>3, <4>1
    <3>2. ~Busy(p, c) /\ ~Busy(p, c)'
      BY <2>1, <2>3 DEF Busy
    <3>3. \A k \in Kos : ~Insmod(p, k)
      BY <2>1 DEF Insmod, At
    <3> QED
      BY <1>1, <1>3, <3>1, <3>2, <3>3, VerdictAside, ResultChanges
  <2> QED
    BY <2>2, <2>3
<1>6. ASSUME NEW d \in Cases, NEW x \in RunKinds, RunBegin(p, d, x) PROVE VerdictOf(c)'
  <2>1. c \notin crowded /\ res' = res /\ succ' = succ /\ last' = last
    BY <1>6 DEF RunBegin, data
  <2>2. ~Busy(p, c) /\ th'[p].pc = "w_clear"
    <3>1. th[p].pc = "idle"
      BY <1>6 DEF RunBegin, At
    <3>2. th'[p].pc = "w_clear"
      BY <1>2, <1>6, Begins
    <3> QED
      BY <3>1, <3>2 DEF Busy, RunPcs, LogPcs
  <2>3. CASE Busy(p, c)'
    <3>1. \A q \in Procs : Busy(q, c)' => q = p
      BY <2>3 DEF RunsApart
    <3> QED
      BY <2>2, <2>3, <3>1 DEF VerdictOf
  <2>4. CASE ~Busy(p, c)'
    BY <1>1, <1>3, <2>1, <2>2, <2>4, VerdictAside
  <2> QED
    BY <2>3, <2>4
<1>7. CASE /\ \A k \in Kos : ~Insmod(p, k)
           /\ ~RunClear(p)
           /\ \A d \in Cases, x \in RunKinds : ~RunBegin(p, d, x)
  <2>1. c \notin crowded /\ VerdictOf(c)
    BY <1>3, <1>7, CrowdedSame
  <2>2. Busy(p, c)' => Busy(p, c)
    BY <1>7, Kinds4, LoadingCalm, ReadingCalm, LoggingStays, RunningStays DEF Calm
  <2>3. CASE ~Busy(p, c)
    BY <1>1, <1>7, <2>1, <2>2, <2>3, VerdictAside, ResultChanges
  <2>4. CASE Busy(p, c)
    <3>1. /\ \A q \in Procs : Busy(q, c)' => q = p
          /\ c = th[p].f[1]
      BY <1>1, <2>1, <2>4 DEF RunsApart, Busy
    <3>2. CASE LoggingStep(p)
      <4>1. Busy(p, c)' /\ th'[p].pc \notin {"w_succ", "w_res", "w_end"}
        BY <1>1, <2>4, <3>2, LoggingStays DEF Busy, RunPcs, LogPcs
      <4> QED
        BY <3>1, <4>1 DEF VerdictOf
    <3>3. CASE RunLog(p)
      <4>1. th'[p].pc = "l_find" /\ th'[p].f = th[p].f
        BY <3>3, RunMoves
      <4>2. Busy(p, c)'
        BY <2>4, <4>1 DEF Busy, LogPcs
      <4> QED
        BY <3>1, <4>1, <4>2 DEF VerdictOf
    <3>4. CASE RunReturn(p)
      <4>1. /\ th'[p].pc = "w_succ" /\ th'[p].f = th[p].f
            /\ last'[c] = Verdict(th'[p].v)
        BY <1>2, <3>1, <3>4, RunMoves
      <4>2. Busy(p, c)'
        BY <2>4, <4>1 DEF Busy, RunPcs
      <4> QED
        BY <3>1, <4>1, <4>2 DEF VerdictOf
    <3>5. CASE RunSucc(p)
      <4>1. /\ th'[p].pc = "w_res" /\ th'[p].f = th[p].f /\ th'[p].v = th[p].v
            /\ succ'[c] = th[p].v /\ last' = last /\ th[p].pc = "w_succ"
        BY <1>2, <3>1, <3>5, RunMoves DEF Keeps, RunSucc, At, history
      <4>2. Busy(p, c)' /\ last[c] = Verdict(th[p].v)
        BY <2>1, <2>4, <4>1 DEF Busy, RunPcs, VerdictOf
      <4> QED
        BY <3>1, <4>1, <4>2 DEF VerdictOf
    <3>6. CASE RunRes(p)
      <4>1. /\ th[p].pc = "w_res" /\ last' = last /\ succ' = succ
        BY <3>6 DEF RunRes, At, history
      <4>2. succ[c] = th[p].v /\ last[c] = Verdict(th[p].v)
        BY <2>1, <2>4, <4>1 DEF VerdictOf
      <4>3. \/ /\ th[p].v
               /\ res' = [res EXCEPT ![c] = [head |-> "PASS", long |-> @.long]]
               /\ th'[p].pc = "w_end" /\ Keeps(p)
            \/ /\ ~th[p].v
               /\ res' = [res EXCEPT ![c] = [head |-> "NOT ", long |-> TRUE]]
               /\ th'[p].pc = "idle" /\ th'[p].f = None
        BY <3>1, <3>6, <4>2, ResMoves
      <4>4. CASE /\ th[p].v
                 /\ res' = [res EXCEPT ![c] = [head |-> "PASS", long |-> @.long]]
                 /\ th'[p].pc = "w_end" /\ Keeps(p)
        <5>1. Busy(p, c)' /\ res'[c].head = "PASS"
          BY <1>2, <2>4, <4>4 DEF Busy, RunPcs, Keeps
        <5>2. last'[c] = "PASS" /\ succ'[c] = TRUE
          BY <1>2, <4>1, <4>2, <4>4 DEF Verdict
        <5> QED
          BY <3>1, <4>4, <5>1, <5>2 DEF VerdictOf
      <4>5. CASE /\ ~th[p].v
                 /\ res' = [res EXCEPT ![c] = [head |-> "NOT ", long |-> TRUE]]
                 /\ th'[p].pc = "idle" /\ th'[p].f = None
        <5>1. \A q \in Procs : ~Busy(q, c)'
          BY <3>1, <4>5 DEF Busy
        <5>2. res'[c] = [head |-> "NOT ", long |-> TRUE]
          BY <1>2, <4>5
        <5>3. Text(res'[c]) = "NOT PASS"
          <6>1. Text([head |-> "NOT ", long |-> TRUE]) = "NOT PASS"
            BY DEF Text
          <6> QED
            BY <5>2, <6>1
        <5>4. last'[c] = "NOT PASS" /\ succ'[c] = FALSE
          BY <1>2, <4>1, <4>2, <4>5 DEF Verdict
        <5> QED
          BY <5>1, <5>3, <5>4 DEF VerdictOf
      <4> QED
        BY <4>3, <4>4, <4>5
    <3>7. CASE RunEnd(p)
      <4>1. /\ th[p].pc = "w_end" /\ last' = last /\ succ' = succ
            /\ res'[c] = [head |-> res[c].head, long |-> FALSE]
        BY <1>2, <3>1, <3>7 DEF RunEnd, At, history
      <4>2. \A q \in Procs : ~Busy(q, c)'
        BY <3>1, <3>7, RunMoves DEF Busy
      <4>3. last[c] = "PASS" /\ succ[c] = TRUE /\ res[c].head = "PASS"
        BY <2>1, <2>4, <4>1 DEF VerdictOf
      <4>4. Text(res'[c]) = "PASS"
        BY <4>1, <4>3 DEF Text
      <4> QED
        BY <4>1, <4>2, <4>3, <4>4 DEF VerdictOf
    <3>8. ~Loading(p) /\ ~ReadingStep(p)
      BY <2>4, LoadingCalm, ReadingCalm DEF Calm
    <3> QED
      BY <1>7, <3>2, <3>3, <3>4, <3>5, <3>6, <3>7, <3>8, Kinds4 DEF RunningStep
  <2> QED
    BY <2>3, <2>4
<1> QED
  BY <1>4, <1>5, <1>6, <1>7
------------------------------------------------------------------------------
\* With names apart, a page and its text change under a thread that runs the
\* case, an insmod, or the registration of the case, which finds no page.
LEMMA LogLenChanges ==
  ASSUME IInv, Fresh, PagesOK, OwnLog, NamesApart, NEW p \in Procs, Step(p) \/ Call(p),
         NEW c \in Cases, ~Busy(p, c), \A k \in Kos : Insmod(p, k) => c \notin CasesOf(k)
  PROVE  \/ log'[c] = log[c] /\ logLen'[c] = logLen[c]
         \/ /\ RegLog(p) /\ log[c] = "null" /\ log'[c] # "text"
            /\ c = CaseTable[th[p].ko][th[p].i]
<1>1. /\ log \in [Cases -> {"null", "raw", "text"}] /\ logLen \in [Cases -> Nat]
  BY DEF IInv, TypeOK
<1>2. ASSUME NEW k \in Kos, Insmod(p, k)
      PROVE  log'[c] = log[c] /\ logLen'[c] = logLen[c]
  BY <1>2 DEF Insmod
<1>3. CASE RegLog(p)
  <2> DEFINE d == CaseTable[th[p].ko][th[p].i]
  <2>1. /\ log' = [log EXCEPT ![d] = "raw"] \/ log' = log
        /\ (\E m : logLen' = [logLen EXCEPT ![d] = m]) \/ logLen' = logLen
    BY <1>3 DEF RegLog
  <2>2. CASE c = d
    <3>1. log[c] = "null"
      <4>1. ~RunClear(p) /\ \A k \in Kos : ~Insmod(p, k)
        BY <1>3 DEF RegLog, RunClear, Insmod, At
      <4> QED
        BY <1>3, <2>2, <4>1, PageChanges
    <3>2. log'[c] # "text"
      BY <1>1, <2>1, <2>2, <3>1
    <3> QED
      BY <1>3, <2>2, <3>1, <3>2
  <2>3. CASE c # d
    BY <1>1, <2>1, <2>3
  <2> QED
    BY <2>2, <2>3
<1>4. CASE RunClear(p)
  <2>1. th[p].f[1] # c
    BY <1>4, RunningStays, BusyIs DEF RunningStep
  <2>2. /\ log' = log \/ log' = [log EXCEPT ![th[p].f[1]] = "text"]
        /\ logLen' = logLen \/ logLen' = [logLen EXCEPT ![th[p].f[1]] = 0]
    BY <1>4 DEF RunClear
  <2> QED
    BY <1>1, <2>1, <2>2
<1>5. CASE LogCat(p)
  <2>1. th[p].pc = "l_cat"
    BY <1>5 DEF LogCat, At
  <2>2. th[p].f # None /\ th[p].dst = th[p].f[1]
    BY <2>1 DEF OwnLog
  <2>3. th[p].dst # c
    BY <2>1, <2>2 DEF Busy, LogPcs
  <2> QED
    BY <1>1, <1>5, <2>3 DEF LogCat
<1>6. CASE /\ \A k \in Kos : ~Insmod(p, k)
           /\ ~RegLog(p) /\ ~RunClear(p) /\ ~LogCat(p)
  <2>1. CASE Loading(p)
    BY <1>6, <2>1 DEF Loading, data, Rmmod, RegAdd, RegFiles, RegFunc,
                      UnregLock, UnregUnlink, UnregDrain, UnregDel
  <2>2. CASE ReadingStep(p)
    BY <2>2, ReadingCalm DEF data
  <2>3. CASE LoggingStep(p)
    BY <1>6, <2>3, Zenon DEF LoggingStep, data, LogFind, LogCase, LogLen
  <2>4. CASE RunningStep(p)
    BY <1>6, <2>4 DEF RunningStep, data, RunLog, RunReturn, RunSucc, RunRes, RunEnd
  <2>5. ASSUME NEW d \in Cases, NEW x \in RunKinds, RunBegin(p, d, x)
        PROVE  log'[c] = log[c] /\ logLen'[c] = logLen[c]
    BY <2>5 DEF RunBegin, data
  <2> QED
    BY <2>1, <2>2, <2>3, <2>4, <2>5, Kinds4
<1> QED
  BY <1>2, <1>3, <1>4, <1>5, <1>6

LEMMA LogAside ==
  ASSUME NEW p \in Procs, Others(p), NEW c \in Cases, LogsOf(c),
         ~Busy(p, c), ~Busy(p, c)', log'[c] = log[c], logLen'[c] = logLen[c]
  PROVE  LogsOf(c)'
<1>1. \A q \in Procs : Busy(q, c)' <=> Busy(q, c)
  BY OthersBusy
<1>2. \A q \in Procs : Busy(q, c) =>
        /\ q # p
        /\ th'[q].pc = th[q].pc /\ th'[q].n = th[q].n /\ th'[q].said = th[q].said
  BY DEF Others, Busy, RunPcs, LogPcs
<1>3. ASSUME NEW q \in Procs, Busy(q, c)' PROVE LogOf(q, c)'
  <2>1. /\ LogOf(q, c)
        /\ th'[q].pc = th[q].pc /\ th'[q].n = th[q].n /\ th'[q].said = th[q].said
    BY <1>1, <1>2, <1>3 DEF LogsOf
  <2>2. Kept(th[q].said)' = Kept(th[q].said) /\ Kept(th[q].said - th[q].n)' = Kept(th[q].said - th[q].n)
    BY <2>1 DEF Kept
  <2> QED
    BY <2>1, <2>2 DEF LogOf
<1> QED
  BY <1>3 DEF LogsOf

\* With names apart, a test function's LOG finds its module and its case.
LEMMA FindsOwn ==
  ASSUME IInv, Fresh, NamesApart, ~Panicked, NEW p \in Procs, NEW c \in Cases, Busy(p, c)
  PROVE  /\ th[p].pc = "l_find" => \E j \in DOMAIN caseList : Found(p, j)
         /\ th[p].pc = "l_case" =>
              \E j \in DOMAIN CaseTable[th[p].mod] :
                /\ CaseName[CaseTable[th[p].mod][j]] = FuncName(p)
                /\ \A h \in 1 .. j - 1 : CaseName[CaseTable[th[p].mod][h]] # FuncName(p)
<1> DEFINE k == KoOf(c)
<1>1. k \in Kos /\ c \in CasesOf(k)
  BY OwnerOfCase
<1>2. FuncName(p) = CaseName[c] /\ Home(p) = k
  BY DEF Busy, FuncName, Home
<1>3. ASSUME th[p].pc = "l_find" PROVE \E j \in DOMAIN caseList : Found(p, j)
  <2>1. th[p].f \in Files /\ Inside(p, th[p].f) /\ th[p].f[1] = c
    BY BusyIs DEF Busy
  <2>2. koState[k] # "absent" /\ \A q \in Procs : th[q].pc = "r_add" => th[q].ko # k
    BY <2>1, InsideLoaded
  <2>3. Listed(k)
    BY <1>1, <2>2 DEF IInv, ListMatchesLoader
  <2>4. PICK j \in DOMAIN caseList : caseList[j] = k
    BY <2>3 DEF Listed
  <2>5. <<FuncName(p), caseList[j]>> \in NameHas
    BY <1>2, <2>4 DEF NamesApart
  <2>6. ASSUME NEW h \in 1 .. j - 1 PROVE <<FuncName(p), caseList[h]>> \notin NameHas
    <3>1. j \in Nat /\ h \in DOMAIN caseList /\ h # j
      <4>1. caseList \in Seq(Kos)
        BY DEF IInv, TypeOK
      <4>2. DOMAIN caseList = 1 .. Len(caseList) /\ Len(caseList) \in Nat
        BY <4>1, LenProperties
      <4> QED
        BY <2>6, <4>2
    <3>2. caseList[h] \in Kos
      BY <3>1, ListedKos DEF IInv
    <3>3. caseList[h] # k
      BY <2>4, <3>1 DEF IInv, ListMatchesLoader
    <3> QED
      BY <1>2, <3>2, <3>3 DEF NamesApart, NamesDisjoint
  <2> QED
    BY <2>5, <2>6 DEF Found
<1>4. ASSUME th[p].pc = "l_case"
      PROVE  \E j \in DOMAIN CaseTable[th[p].mod] :
               /\ CaseName[CaseTable[th[p].mod][j]] = FuncName(p)
               /\ \A h \in 1 .. j - 1 : CaseName[CaseTable[th[p].mod][h]] # FuncName(p)
  <2>1. th[p].mod = k
    BY <1>2, <1>4 DEF IInv, LocalsOK, LocalsOf, NamesApart
  <2>2. PICK j \in DOMAIN CaseTable[k] : CaseTable[k][j] = c
    BY <1>1 DEF CasesOf
  <2>3. ASSUME NEW h \in 1 .. j - 1 PROVE CaseName[CaseTable[k][h]] # FuncName(p)
    <3>1. h \in DOMAIN CaseTable[k] /\ h # j
      <4>1. DOMAIN CaseTable[k] = 1 .. Len(CaseTable[k]) /\ Len(CaseTable[k]) \in Nat
        BY <1>1, TableEntries, LenProperties
      <4> QED
        BY <2>2, <2>3, <4>1
    <3>2. CaseTable[k][h] \in Cases /\ KoOf(CaseTable[k][h]) = k /\ CaseTable[k][h] # c
      BY <1>1, <2>2, <3>1, TableEntries, TableAssumption
    <3> QED
      BY <1>2, <3>2 DEF NamesApart
  <2> QED
    BY <1>2, <2>1, <2>2, <2>3
<1> QED
  BY <1>3, <1>4

\* The arithmetic of the room left in a page.
LEMMA KeptFacts ==
  /\ Kept(0) = 0
  /\ \A n \in Nat : Kept(n) \in Nat /\ Kept(n) < PageSize
  /\ \A said, n, len \in Nat :
       n <= said /\ len = Kept(said - n) =>
         LET room == PageSize - len - 1
         IN /\ room <= 0 => len = Kept(said)
            /\ room > 0 => len + (IF n < room THEN n ELSE room) = Kept(said)
BY SizeAssumption DEF Kept

LEMMA LogsKeep ==
  ASSUME IInv, Fresh, RunsApart, PagesOK, OwnLog, LogsOK, RunsApart', PagesOK',
         NEW p \in Procs, Step(p) \/ Call(p)
  PROVE  LogsOK'
<1> SUFFICES ASSUME NamesApart, NEW c \in Cases, c \notin crowded'
             PROVE  LogsOf(c)'
  BY DEF LogsOK, NamesApart, NamesDisjoint
<1>1. /\ Others(p) /\ ~Panicked
      /\ \A q \in Procs \ {p} : Busy(q, c)' <=> Busy(q, c)
  BY StepOthers, OthersBusy
<1>2. /\ log \in [Cases -> {"null", "raw", "text"}] /\ logLen \in [Cases -> Nat]
      /\ th[p].said \in Nat /\ th[p].n \in Nat /\ logLen[c] \in Nat /\ TypeOK
  <2>1. th[p] \in Thread /\ TypeOK
    BY DEF IInv, TypeOK
  <2>2. logLen \in [Cases -> Nat] /\ log \in [Cases -> {"null", "raw", "text"}]
    BY DEF IInv, TypeOK
  <2> QED
    BY <2>1, <2>2 DEF Thread
<1>3. c \notin crowded => LogsOf(c)
  BY DEF LogsOK
<1>4. CASE ~Busy(p, c) /\ ~Busy(p, c)' /\ c \notin crowded /\ \A k \in Kos : Insmod(p, k) => c \notin CasesOf(k)
  <2>1. CASE log'[c] = log[c] /\ logLen'[c] = logLen[c]
    BY <1>1, <1>3, <1>4, <2>1, LogAside
  <2>2. CASE log[c] = "null" /\ log'[c] # "text"
    <3>1. ASSUME NEW q \in Procs, Busy(q, c)' PROVE th'[q].pc = "w_clear"
      BY <2>2, <3>1 DEF PagesOK
    <3> QED
      BY <2>2, <3>1 DEF LogsOf, LogOf
  <2> QED
    BY <1>4, <2>1, <2>2, LogLenChanges
<1>5. ASSUME NEW k \in Kos, Insmod(p, k) PROVE LogsOf(c)'
  <2>1. Calm(p)
    BY <1>5, LoadingCalm DEF Loading
  <2>2. CASE c \in CasesOf(k)
    <3>1. \A q \in Procs : ~Busy(q, c)'
      <4>1. \A q \in Procs : ~Busy(q, c)
        BY <1>5, <2>2, NobodyInside DEF Insmod
      <4> QED
        BY <1>1, <2>1, <4>1 DEF Calm
    <3>2. log'[c] = "null"
      BY <1>5, <2>2 DEF Insmod
    <3> QED
      BY <3>1, <3>2 DEF LogsOf
  <2>3. CASE c \notin CasesOf(k)
    <3>1. c \notin crowded /\ log'[c] = log[c] /\ logLen'[c] = logLen[c]
      BY <1>5, <2>3 DEF Insmod
    <3> QED
      BY <1>1, <1>3, <2>1, <3>1, LogAside DEF Calm
  <2> QED
    BY <2>2, <2>3
<1>6. CASE RunClear(p)
  <2> DEFINE d == th[p].f[1]
  <2>1. /\ th[p].pc = "w_clear" /\ Keeps(p) /\ Busy(p, d)
        /\ th'[p].pc \in {"oops", "w_body"} /\ \A k \in Kos : ~Insmod(p, k)
    <3>1. th[p].pc = "w_clear"
      BY <1>6 DEF RunClear, At
    <3> QED
      BY <1>6, <3>1, RunMoves, BusyIs DEF Insmod, At, RunPcs
  <2>2. \/ /\ th'[p].pc = "oops" /\ UNCHANGED <<log, logLen, crowded>>
        \/ /\ th'[p].pc = "w_body" /\ logLen' = [logLen EXCEPT ![d] = 0]
           /\ crowded' = crowded \/ crowded' = crowded \ {d}
    <3>1. \/ Goto(p, "oops") /\ UNCHANGED <<log, logLen, crowded>>
          \/ /\ Goto(p, "w_body") /\ logLen' = [logLen EXCEPT ![d] = 0]
             /\ crowded' = crowded \/ crowded' = crowded \ {d}
      BY <1>6 DEF RunClear
    <3> QED
      BY <1>2, <3>1, GoesOn
  <2>3. CASE c # d
    <3>1. ~Busy(p, c) /\ ~Busy(p, c)' /\ c \notin crowded
      BY <2>1, <2>2, <2>3 DEF Busy, Keeps
    <3> QED
      BY <1>4, <2>1, <3>1
  <2>4. CASE c = d /\ th'[p].pc = "oops"
    <3>1. c \notin crowded /\ log' = log /\ logLen' = logLen /\ ~Busy(p, c)'
      BY <2>2, <2>4 DEF Busy, RunPcs, LogPcs
    <3>2. \A q \in Procs : ~Busy(q, c)'
      BY <1>1, <2>1, <2>4, <3>1 DEF RunsApart
    <3> QED
      BY <1>3, <3>1, <3>2 DEF LogsOf
  <2>5. CASE c = d /\ th'[p].pc = "w_body"
    <3>1. logLen'[c] = 0 /\ th'[p].said = 0
      BY <1>2, <2>1, <2>2, <2>5 DEF Fresh, Keeps
    <3>2. Busy(p, c)' /\ \A q \in Procs : Busy(q, c)' => q = p
      BY <2>1, <2>5 DEF Busy, Keeps, RunPcs, RunsApart
    <3> QED
      BY <2>5, <3>1, <3>2, KeptFacts, SizeAssumption DEF LogsOf, LogOf
  <2> QED
    BY <2>1, <2>3, <2>4, <2>5
<1>7. ASSUME NEW d \in Cases, NEW x \in RunKinds, RunBegin(p, d, x) PROVE LogsOf(c)'
  <2>1. c \notin crowded /\ log' = log /\ logLen' = logLen /\ th[p].pc = "idle"
    BY <1>7 DEF RunBegin, data, At
  <2>2. ~Busy(p, c) /\ th'[p].pc = "w_clear"
    BY <1>2, <1>7, <2>1, Begins DEF Busy, RunPcs, LogPcs
  <2>3. CASE Busy(p, c)'
    <3>1. \A q \in Procs : Busy(q, c)' => q = p
      BY <2>3 DEF RunsApart
    <3> QED
      BY <1>3, <2>1, <2>2, <3>1 DEF LogsOf, LogOf
  <2>4. CASE ~Busy(p, c)'
    BY <1>1, <1>3, <2>1, <2>2, <2>4, LogAside
  <2> QED
    BY <2>3, <2>4
<1>8. CASE /\ \A k \in Kos : ~Insmod(p, k)
           /\ ~RunClear(p)
           /\ \A d \in Cases, x \in RunKinds : ~RunBegin(p, d, x)
           /\ Busy(p, c)
  <2>1. c \notin crowded /\ LogsOf(c)
    BY <1>3, <1>8, CrowdedSame
  <2>2. /\ \A q \in Procs : Busy(q, c)' => q = p
        /\ c = th[p].f[1] /\ th[p].f # None
    BY <1>1, <1>8, <2>1 DEF RunsApart, Busy
  <2>3. LogOf(p, c) /\ (log[c] = "text" => logLen[c] < PageSize)
    BY <1>8, <2>1 DEF LogsOf
  <2>4. ASSUME logLen'[c] = logLen[c], log'[c] = log[c],
               th'[p].pc \notin {"w_body", "w_succ"} \cup LogPcs
        PROVE  LogsOf(c)'
    BY <2>2, <2>3, <2>4 DEF LogsOf, LogOf, LogPcs
  <2>5. CASE RunLog(p)
    <3>1. /\ th[p].pc = "w_body" /\ log' = log /\ logLen' = logLen
          /\ th'[p].pc = "l_find" /\ th'[p].n \in Nat /\ th'[p].said = th[p].said + th'[p].n
      BY <2>5, RunMoves DEF RunLog, At, data
    <3>2. /\ th'[p].n <= th'[p].said /\ th'[p].said - th'[p].n = th[p].said
          /\ logLen[c] = Kept(th[p].said)
      BY <1>2, <2>3, <3>1 DEF LogOf
    <3>3. LogOf(p, c)'
      BY <3>1, <3>2 DEF LogOf, Kept
    <3> QED
      BY <2>2, <2>3, <3>1, <3>3 DEF LogsOf
  <2>6. CASE RunReturn(p)
    <3>1. /\ th[p].pc = "w_body" /\ log' = log /\ logLen' = logLen
          /\ th'[p].pc = "w_succ" /\ th'[p].said = th[p].said
      BY <2>6, RunMoves DEF RunReturn, At, data
    <3>2. LogOf(p, c)'
      BY <2>3, <3>1 DEF LogOf, Kept
    <3> QED
      BY <2>2, <2>3, <3>1, <3>2 DEF LogsOf
  <2>7. CASE RunSucc(p) \/ RunRes(p) \/ RunEnd(p)
    <3>1. log' = log /\ logLen' = logLen
      BY <2>7 DEF RunSucc, RunRes, RunEnd
    <3>2. th'[p].pc \in {"w_res", "w_end", "idle"}
      BY <2>7, RunMoves, ResMoves
    <3> QED
      BY <2>4, <3>1, <3>2 DEF LogPcs
  <2>8. CASE LogFind(p)
    <3>1. th[p].pc = "l_find" /\ log' = log /\ logLen' = logLen
      BY <2>8 DEF LogFind, At, data
    <3>2. th'[p].pc = "l_case" /\ th'[p].n = th[p].n /\ th'[p].said = th[p].said
      BY <1>1, <1>8, <2>8, <3>1, LogMoves, FindsOwn DEF Keeps
    <3>3. LogOf(p, c)'
      BY <2>3, <3>1, <3>2 DEF LogOf, Kept
    <3> QED
      BY <2>2, <2>3, <3>1, <3>3 DEF LogsOf
  <2>9. CASE LogCase(p)
    <3>1. th[p].pc = "l_case" /\ log' = log /\ logLen' = logLen
      BY <2>9, Zenon DEF LogCase, At, data
    <3>2. th'[p].pc = "l_len" /\ th'[p].n = th[p].n /\ th'[p].said = th[p].said
      BY <1>1, <1>8, <2>9, <3>1, LogMoves, FindsOwn
    <3>3. LogOf(p, c)'
      BY <2>3, <3>1, <3>2 DEF LogOf, Kept
    <3> QED
      BY <2>2, <2>3, <3>1, <3>3 DEF LogsOf
  <2>10. CASE LogLen(p)
    <3> DEFINE room == PageSize - logLen[c] - 1
               new  == IF th[p].n < room THEN th[p].n ELSE room
    <3>1. th[p].pc = "l_len" /\ log' = log /\ logLen' = logLen /\ th[p].dst = c
      BY <2>2, <2>10 DEF LogLen, At, data, OwnLog
    <3>2. th[p].n <= th[p].said /\ logLen[c] = Kept(th[p].said - th[p].n)
      BY <2>3, <3>1 DEF LogOf
    <3>3. /\ room <= 0 => logLen[c] = Kept(th[p].said)
          /\ room > 0 => logLen[c] + new = Kept(th[p].said)
      BY <1>2, <3>2, KeptFacts
    <3>4. CASE th'[p].pc = "oops"
      BY <2>4, <3>1, <3>4 DEF LogPcs
    <3>5. CASE room <= 0 /\ LogReturn(p)
      <4>1. th'[p].pc = "w_body" /\ th'[p].said = th[p].said
        BY <1>2, <2>2, <3>5, LogReturns
      <4>2. LogOf(p, c)'
        BY <3>1, <3>3, <3>5, <4>1 DEF LogOf, Kept
      <4> QED
        BY <2>2, <2>3, <3>1, <4>2 DEF LogsOf
    <3>6. CASE /\ room > 0 /\ th'[p].pc = "l_cat" /\ th'[p].n = new
               /\ th'[p].said = th[p].said
      <4>1. LogOf(p, c)'
        BY <3>1, <3>3, <3>6 DEF LogOf, Kept
      <4> QED
        BY <2>2, <2>3, <3>1, <4>1 DEF LogsOf
    <3> QED
      BY <2>10, <3>1, <3>4, <3>5, <3>6, LogMoves
  <2>11. CASE LogCat(p)
    <3>1. th[p].pc = "l_cat" /\ log' = log /\ th[p].dst = c
      BY <2>2, <2>11 DEF LogCat, At, OwnLog
    <3>2. logLen'[c] = logLen[c] + th[p].n /\ LogReturn(p)
      BY <1>2, <2>11, <3>1 DEF LogCat
    <3>3. th'[p].pc = "w_body" /\ th'[p].said = th[p].said
      BY <1>2, <2>2, <3>2, LogReturns
    <3>4. logLen'[c] = Kept(th[p].said) /\ logLen'[c] < PageSize
      BY <1>2, <2>3, <3>1, <3>2, KeptFacts DEF LogOf
    <3>5. LogOf(p, c)'
      BY <3>3, <3>4 DEF LogOf, Kept
    <3> QED
      BY <2>2, <3>4, <3>5 DEF LogsOf
  <2>12. ~Loading(p) /\ ~ReadingStep(p)
    BY <1>8, LoadingCalm, ReadingCalm DEF Calm
  <2> QED
    BY <1>8, <2>5, <2>6, <2>7, <2>8, <2>9, <2>10, <2>11, <2>12, Kinds4
       DEF RunningStep, LoggingStep
<1>9. CASE /\ \A k \in Kos : ~Insmod(p, k)
           /\ ~RunClear(p)
           /\ \A d \in Cases, x \in RunKinds : ~RunBegin(p, d, x)
           /\ ~Busy(p, c)
  <2>1. c \notin crowded
    BY <1>9, CrowdedSame
  <2>2. ~Busy(p, c)'
    BY <1>9, Kinds4, LoadingCalm, ReadingCalm, LoggingStays, RunningStays DEF Calm
  <2> QED
    BY <1>4, <1>9, <2>1, <2>2
<1> QED
  BY <1>5, <1>6, <1>7, <1>8, <1>9
------------------------------------------------------------------------------
\* Only a reading step leaves its thread in a read.
LEMMA ReadersRead ==
  ASSUME IInv, NEW p \in Procs, Step(p) \/ Call(p), th'[p].pc \in ReadPcs \cup {"d_next"}
  PROVE  ReadingStep(p)
<1>1. ~Loading(p)
  BY LoaderMoves DEF Loading, ReadPcs
<1>2. \A d \in Cases, x \in RunKinds : RunBegin(p, d, x) => th'[p].pc = "w_clear"
  BY Begins DEF IInv
<1> QED
  BY <1>1, <1>2, Kinds4, LoggingStays, RunningStays DEF LogPcs, ReadPcs

\* What is left is less than the string, in size_t arithmetic too.
LEMMA ModAtMost ==
  \A a, b \in Nat, m \in Nat \ {0} : b < a => (a - b) % m \in Nat /\ (a - b) % m <= a - b
<1> SUFFICES ASSUME NEW a \in Nat, NEW b \in Nat, NEW m \in Nat \ {0}, b < a
             PROVE  (a - b) % m \in Nat /\ (a - b) % m <= a - b
  OBVIOUS
<1>1. a - b \in Nat
  OBVIOUS
<1>2. \A x \in Nat : x % m \in Nat /\ x % m <= x
  OBVIOUS
<1> QED
  BY <1>1, <1>2

LEMMA StrlenTyped ==
  ASSUME IInv, NEW f \in Files
  PROVE  Strlen(f) \in Nat
<1>1. f[1] \in Cases /\ logLen \in [Cases -> Nat]
  BY DEF Files, IInv, TypeOK
<1>2. TextLen(res[f[1]]) \in Nat
  BY DEF TextLen
<1> QED
  BY <1>1, <1>2 DEF Strlen

LEMMA ReadsKeep ==
  ASSUME IInv, Fresh, PagesOK, OwnLog, ReadsOK, NEW p \in Procs, Step(p) \/ Call(p)
  PROVE  ReadsOK'
<1>1. Others(p) /\ TypeOK
  BY StepOthers DEF IInv
<1>2. ASSUME NEW q \in Procs \ {p}, Unmet(q)'
      PROVE  /\ Unmet(q) /\ th'[q].pc = th[q].pc /\ th'[q].f = th[q].f
             /\ th'[q].pos = th[q].pos /\ th'[q].n = th[q].n
             /\ th[q].f \in Files /\ th[q].f[1] \in Cases
  <2>1. /\ Unmet(q) /\ th'[q].pc = th[q].pc /\ th'[q].f = th[q].f
        /\ th'[q].pos = th[q].pos /\ th'[q].n = th[q].n
    BY <1>1, <1>2 DEF Others, Unmet, ReadPcs
  <2>2. th[q].f # None
    BY <2>1 DEF Unmet, IInv, LocalsOK, LocalsOf
  <2> QED
    BY <2>1, <2>2, BusyIs
<1>3. ASSUME NEW q \in Procs \ {p}, NEW r \in Procs, Unmet(q)',
             NEW c \in Cases, c = th[q].f[1]
      PROVE  ~Busy(r, c)'
  <2>1. Unmet(q) /\ th[q].f \in Files
    BY <1>2, <1>3
  <2>2. ~Busy(r, c)
    BY <1>3, <2>1 DEF ReadsOK
  <2>3. CASE r # p
    BY <1>1, <2>2, <2>3, OthersBusy
  <2>4. CASE r = p
    <3>1. ASSUME NEW d \in Cases, NEW x \in RunKinds, RunBegin(p, d, x) PROVE ~Busy(p, c)'
      <4>1. CASE d = c
        <5>1. th[q].f \in {d} \X Kinds
          BY <1>3, <2>1, <4>1 DEF Files
        <5>2. ~Running(q, d)
          BY <2>1 DEF Unmet, Running, ReadPcs, RunPcs, LogPcs
        <5>3. th'[q].met
          BY <1>1, <3>1, <5>1, <5>2, Begins
        <5> QED
          BY <1>3, <5>3 DEF Unmet
      <4>2. CASE d # c
        <5>1. th'[p].f = <<d, x>>
          BY <1>1, <3>1, Begins
        <5> QED
          BY <4>2, <5>1 DEF Busy
      <4> QED
        BY <4>1, <4>2
    <3> QED
      BY <2>2, <2>4, <3>1, Kinds4, LoadingCalm, ReadingCalm, LoggingStays, RunningStays
         DEF Calm
  <2> QED
    BY <2>3, <2>4
<1>4. ASSUME Unmet(p)'
      PROVE  /\ ReadingStep(p) /\ th'[p].f # None /\ th'[p].f[1] \in Cases
             /\ \A r \in Procs : ~Busy(r, th'[p].f[1])
  <2>1. ReadingStep(p)
    BY <1>4, ReadersRead DEF Unmet
  <2>2. ASSUME NEW f \in Files, ReadEnter(p, f)
        PROVE  /\ th'[p].f # None /\ th'[p].f[1] \in Cases
               /\ \A r \in Procs : ~Busy(r, th'[p].f[1])
    <3>1. th'[p].f = f /\ f[1] \in Cases /\ f # None
      BY <1>1, <2>2, Enters, NoneIsNone DEF Files
    <3>2. \A r \in Procs : ~Running(r, f[1])
      BY <1>1, <1>4, <2>2, Enters DEF Unmet
    <3> QED
      BY <3>1, <3>2, BusyIs
  <2>3. CASE \E f \in Cases \X ReadKinds : ReadBegin(p, f)
    <3>1. PICK f \in Cases \X ReadKinds : ReadEnter(p, f)
      BY <2>3 DEF ReadBegin
    <3>2. f \in Files
      BY InputAssumption DEF Files
    <3> QED
      BY <2>1, <2>2, <3>1, <3>2
  <2>4. CASE ReadNext(p)
    <3>1. th[p].pc = "d_next"
      BY <2>4 DEF ReadNext, At
    <3>2. th[p].f \in Files
      BY <3>1, BusyIs DEF IInv, LocalsOK, LocalsOf
    <3>3. ReadEnter(p, th[p].f)
      BY <1>1, <1>4, <2>4, Returns DEF ReadNext, Unmet, ReadPcs
    <3> QED
      BY <2>1, <2>2, <3>2, <3>3
  <2>5. CASE ReadCheck(p) \/ ReadCount(p) \/ ReadCopy(p)
    <3>1. th[p].pc \in ReadPcs
      BY <2>5 DEF ReadCheck, ReadCount, ReadCopy, At, ReadPcs
    <3>2. th'[p].f = th[p].f /\ th'[p].met = th[p].met
      BY <1>4, <2>5, ReadMoves DEF Unmet, ReadPcs, Keeps
    <3>3. th[p].f # None /\ th[p].f[1] \in Cases
      BY <3>1, BusyIs DEF IInv, LocalsOK, LocalsOf
    <3>4. Unmet(p)
      BY <1>4, <3>1, <3>2 DEF Unmet
    <3> QED
      BY <2>1, <3>2, <3>3, <3>4 DEF ReadsOK
  <2> QED
    BY <2>1, <2>3, <2>4, <2>5 DEF ReadingStep
<1>5. ASSUME NEW q \in Procs, NEW r \in Procs, Unmet(q)'
      PROVE  \E c \in Cases : c = th'[q].f[1] /\ ~Busy(r, c)'
  <2>1. CASE q # p
    BY <1>2, <1>3, <1>5, <2>1
  <2>2. CASE q = p
    <3>1. ReadingStep(p) /\ Calm(p)
      BY <1>4, <1>5, <2>2, ReadingCalm
    <3>2. PICK c \in Cases : c = th'[p].f[1] /\ ~Busy(r, c)
      BY <1>4, <1>5, <2>2
    <3>3. ~Busy(r, c)'
      BY <1>1, <3>1, <3>2, OthersBusy DEF Calm
    <3> QED
      BY <2>2, <3>2, <3>3
  <2> QED
    BY <2>1, <2>2
<1>6. ASSUME NamesApart, NEW q \in Procs, Unmet(q)'
      PROVE  /\ th'[q].pc = "d_cnt" => th'[q].pos < Strlen(th[q].f)'
             /\ th'[q].pc = "d_copy" => th'[q].pos + th'[q].n <= Strlen(th[q].f)'
             /\ th'[q].pc \in {"d_cnt", "d_copy"} => th'[q].f = th[q].f
  <2>1. CASE q # p
    <3> SUFFICES ASSUME th'[q].pc \in {"d_cnt", "d_copy"}
                 PROVE  /\ th'[q].pc = "d_cnt" => th'[q].pos < Strlen(th[q].f)'
                        /\ th'[q].pc = "d_copy" => th'[q].pos + th'[q].n <= Strlen(th[q].f)'
                        /\ th'[q].pc \in {"d_cnt", "d_copy"} => th'[q].f = th[q].f
      BY <1>2, <1>6, <2>1
    <3> DEFINE c == th[q].f[1]
    <3>1. /\ Unmet(q) /\ th'[q].pc = th[q].pc /\ th'[q].f = th[q].f
          /\ th'[q].pos = th[q].pos /\ th'[q].n = th[q].n /\ c \in Cases
      BY <1>2, <1>6, <2>1
    <3>2. ~Busy(p, c)
      BY <3>1 DEF ReadsOK
    <3>3. ASSUME NEW k \in Kos, Insmod(p, k) PROVE c \notin CasesOf(k)
      <4>1. koState[k] = "absent" /\ th[q].pc \in ReadPcs
        BY <3>1, <3>3 DEF Insmod, ReadPcs
      <4>2. \A d \in CasesOf(k) : th[q].f[1] # d
        BY <4>1, NobodyInside
      <4> QED
        BY <4>2
    <3>4. res'[c] = res[c]
      BY <3>1, <3>2, <3>3, ResultChanges
    <3>5. th[q].f[2] # "res" => logLen'[c] = logLen[c]
      <4>1. th[q].f[2] # "res" => log[c] # "null"
        BY <3>1 DEF PagesOK
      <4> QED
        BY <1>6, <3>1, <3>2, <3>3, <4>1, LogLenChanges
    <3>6. Strlen(th[q].f)' = Strlen(th[q].f)
      BY <3>1, <3>4, <3>5 DEF Strlen, TextLen
    <3> QED
      BY <1>6, <3>1, <3>6 DEF ReadsOK
  <2>2. CASE q = p
    <3>1. ReadingStep(p) /\ UNCHANGED <<log, logLen, res>>
      BY <1>4, <1>6, <2>2, ReadingCalm DEF data
    <3>2. th'[p].pc \in {"d_cnt", "d_copy"} =>
            /\ th[p].pc \in ReadPcs /\ th'[p].f = th[p].f /\ th'[p].met = th[p].met
            /\ ReadCheck(p) \/ ReadCount(p)
      <4>1. (\E f \in Cases \X ReadKinds : ReadBegin(p, f)) \/ ReadNext(p) =>
              th'[p].pc \in {"d_chk", "idle"}
        BY <1>1, Enters, Returns DEF ReadBegin, ReadNext
      <4> QED
        BY <3>1, <4>1, ReadMoves, Zenon DEF ReadingStep, ReadCheck, ReadCount, At, ReadPcs, Keeps
    <3> SUFFICES ASSUME th'[p].pc \in {"d_cnt", "d_copy"}
                 PROVE  /\ th'[p].pc = "d_cnt" => th'[p].pos < Strlen(th[p].f)'
                        /\ th'[p].pc = "d_copy" => th'[p].pos + th'[p].n <= Strlen(th[p].f)'
      BY <2>2, <3>2
    <3>3. th[p].f \in Files /\ Strlen(th[p].f) \in Nat /\ th[p].pos \in Nat
      <4>1. th[p].f \in Files
        BY <3>2, BusyIs DEF IInv, LocalsOK, LocalsOf
      <4>2. th[p] \in Thread
        BY <1>1 DEF TypeOK
      <4> QED
        BY <4>1, <4>2, StrlenTyped DEF Thread
    <3>4. th'[p].f = th[p].f => Strlen(th[p].f)' = Strlen(th[p].f)
      BY <3>1 DEF Strlen, TextLen
    <3>5. CASE ReadCheck(p)
      <4>1. th'[p].pc = "d_cnt" /\ th'[p].pos = th[p].pos /\ ~(th[p].pos >= Strlen(th[p].f))
        BY <3>5, ReadMoves DEF Keeps
      <4> QED
        BY <3>2, <3>3, <3>4, <4>1
    <3>6. CASE ReadCount(p)
      <4>1. /\ th[p].pc = "d_cnt" /\ th'[p].pc = "d_copy" /\ th'[p].pos = th[p].pos
            /\ Unmet(p)
        BY <1>6, <2>2, <3>2, <3>6, ReadMoves DEF ReadCount, At, Unmet, ReadPcs
      <4>2. th[p].pos < Strlen(th[p].f)
        BY <1>6, <4>1 DEF ReadsOK
      <4> DEFINE left == (Strlen(th[p].f) - th[p].pos) % SizeMod
      <4>3. left \in Nat /\ left <= Strlen(th[p].f) - th[p].pos
        BY <3>3, <4>2, ModAtMost, SizeAssumption
      <4>4. PICK m \in ReadSizes : th'[p].n \in {m, left, PageSize} /\ th'[p].n <= left
        BY <3>6, ReadMoves
      <4>5. th'[p].n \in Nat
        BY <4>3, <4>4, SizeAssumption
      <4>6. th[p].pos + th'[p].n <= Strlen(th[p].f)
        BY <3>3, <4>3, <4>4, <4>5
      <4> QED
        BY <3>2, <3>4, <4>1, <4>6
    <3> QED
      BY <3>2, <3>5, <3>6
  <2> QED
    BY <2>1, <2>2
<1>7. \A q, r \in Procs : Unmet(q)' => ~Busy(r, th[q].f[1])'
  BY <1>5 DEF Busy
<1>8. ASSUME NamesApart, NEW q \in Procs, Unmet(q)'
      PROVE  /\ th'[q].pc = "d_cnt" => th'[q].pos < Strlen(th[q].f)'
             /\ th'[q].pc = "d_copy" => th'[q].pos + th'[q].n <= Strlen(th[q].f)'
  BY <1>6, <1>8
<1> QED
  BY <1>7, <1>8 DEF ReadsOK, NamesApart, NamesDisjoint
------------------------------------------------------------------------------
LEMMA InitRunInv == Init => RunInv
<1> SUFFICES ASSUME Init PROVE RunInv
  OBVIOUS
<1>1. \A p \in Procs : /\ th[p].pc = "idle" /\ th[p].said = 0
                       /\ \A c \in Cases : ~Busy(p, c)
  BY DEF Init, Idle, Busy, RunPcs, LogPcs
<1>2. \A c \in Cases : /\ log[c] = "null" /\ last[c] = "" /\ succ[c] = FALSE
                       /\ Text(res[c]) = ""
  <2>1. Text(NoText) = ""
    BY DEF Text, NoText
  <2> QED
    BY <2>1 DEF Init
<1>3. RunsApart /\ Fresh /\ PagesOK /\ OwnLog
  BY <1>1 DEF RunsApart, Fresh, PagesOK, OwnLog, RunPcs, LogPcs
<1>4. VerdictsOK /\ LogsOK
  BY <1>1, <1>2 DEF VerdictsOK, VerdictOf, LogsOK, LogsOf
<1>5. ReadsOK
  BY <1>1 DEF ReadsOK, Unmet, ReadPcs
<1> QED
  BY <1>3, <1>4, <1>5 DEF RunInv

LEMMA NextRunInv == IInv /\ RunInv /\ [Next]_vars => RunInv'
<1> SUFFICES ASSUME IInv, RunInv, [Next]_vars PROVE RunInv'
  OBVIOUS
<1>1. CASE UNCHANGED vars
  <2>1. UNCHANGED <<koState, caseList, mutex, files, log, logLen, res, succ, th, crowded, last>>
    BY <1>1 DEF vars, data, history
  <2>2. RunsApart' /\ Fresh' /\ PagesOK' /\ OwnLog'
    BY <2>1 DEF RunInv, RunsApart, Busy, Fresh, PagesOK, OwnLog
  <2>3. VerdictsOK'
    <3>1. \A c \in Cases : Text(res[c])' = Text(res[c])
      BY <2>1 DEF Text
    <3>2. Panicked' = Panicked /\ \A q \in Procs, c \in Cases : Busy(q, c)' = Busy(q, c)
      BY <2>1 DEF Panicked, Busy
    <3> QED
      BY <2>1, <3>1, <3>2 DEF RunInv, VerdictsOK, VerdictOf
  <2>4. LogsOK'
    BY <2>1 DEF RunInv, LogsOK, LogsOf, LogOf, Busy, Kept
  <2>5. ReadsOK'
    BY <2>1 DEF RunInv, ReadsOK, Unmet, Busy, Strlen, TextLen
  <2> QED
    BY <2>2, <2>3, <2>4, <2>5 DEF RunInv
<1>2. ASSUME NEW p \in Procs, Step(p) \/ Call(p)
      PROVE  RunInv'
  <2>1. Fresh' /\ RunsApart' /\ PagesOK' /\ OwnLog'
    BY <1>2, FreshKeeps, ApartKeeps, PagesKeep, OwnLogKeeps DEF RunInv
  <2>2. VerdictsOK' /\ LogsOK' /\ ReadsOK'
    BY <1>2, <2>1, VerdictsKeep, LogsKeep, ReadsKeep DEF RunInv
  <2> QED
    BY <2>1, <2>2 DEF RunInv
<1> QED
  BY <1>1, <1>2 DEF Next

\* RunInv holds in every state munit can reach.
THEOREM RunsHold == Spec => [](IInv /\ RunInv)
BY InitInv, NextInv, InitRunInv, NextRunInv, PTL DEF Spec

\* A case whose latest run overlapped no other shows the verdict of that run.
THEOREM VerdictShown == Spec => []SoloVerdict
<1>1. IInv /\ RunInv => SoloVerdict
  <2> SUFFICES ASSUME IInv, RunInv, ~Panicked, NEW c \in Cases, c \notin crowded,
                      \A p \in Procs : ~Running(p, c)
               PROVE  Text(res[c]) = last[c] /\ succ[c] = (last[c] = "PASS")
    BY DEF SoloVerdict
  <2>1. \A p \in Procs : ~Busy(p, c)
    BY BusyIs DEF RunInv
  <2> QED
    BY <2>1 DEF RunInv, VerdictsOK, VerdictOf
<1> QED
  BY <1>1, RunsHold, PTL

\* A log whose case's latest run overlapped no other stays inside its page.
THEOREM LogInPage == Spec => []LogFits
<1>1. IInv /\ RunInv => LogFits
  BY DEF LogFits, RunInv, LogsOK, LogsOf
<1> QED
  BY <1>1, RunsHold, PTL

\* A run that overlaps no other records all it logs, up to the page.
THEOREM LogComplete == Spec => []LogRecorded
<1>1. IInv /\ RunInv => LogRecorded
  <2> SUFFICES ASSUME IInv, RunInv, NamesApart, NEW p \in Procs, th[p].pc = "w_succ",
                      th[p].f[1] \notin crowded
               PROVE  logLen[th[p].f[1]] = Kept(th[p].said)
    BY DEF LogRecorded, Kept
  <2>1. th[p].f[1] \in Cases /\ Busy(p, th[p].f[1])
    BY BusyIs DEF RunInv, RunPcs
  <2> QED
    BY <2>1 DEF RunInv, LogsOK, LogsOf, LogOf
<1> QED
  BY <1>1, RunsHold, PTL

\* A read that no run of its case meets copies text only.
THEOREM ReadInText == Spec => []ReadWithinText
<1>1. IInv /\ RunInv => ReadWithinText
  BY DEF ReadWithinText, RunInv, ReadsOK, Unmet, ReadPcs
<1> QED
  BY <1>1, RunsHold, PTL
------------------------------------------------------------------------------
\* Registration of other kos, and removal, leave the files and pages of k.
LEMMA RegAside ==
  ASSUME IInv, PagesOK, NEW p \in Procs, Step(p) \/ Call(p), NEW k \in Kos,
         koState[k] \in {"coming", "live"}, ~(RegFiles(p) /\ th[p].ko = k)
  PROVE  /\ \A m \in Int : FilesUpTo(k, m) => FilesUpTo(k, m)'
         /\ \A m \in Int : PagesUpTo(k, m) => PagesUpTo(k, m)'
<1> DEFINE tab == CaseTable[k]
<1>1. \A j \in DOMAIN tab : tab[j] \in Cases /\ tab[j] \in CasesOf(k) /\ KoOf(tab[j]) = k
  BY TableEntries
<1>2. ASSUME NEW j \in DOMAIN tab, NEW x \in Kinds
      PROVE  <<tab[j], x>> \in files' <=> <<tab[j], x>> \in files
  <2>1. CASE RegFiles(p)
    <3>1. th[p].ko \in Kos /\ th[p].ko # k
      BY <2>1 DEF RegFiles, At, IInv, LocalsOK, LocalsOf, RegPcs
    <3>2. th[p].i \in DOMAIN CaseTable[th[p].ko] => tab[j] # CaseTable[th[p].ko][th[p].i]
      BY <1>1, <3>1, TableEntries
    <3> QED
      BY <2>1, <3>2 DEF RegFiles
  <2>2. CASE UnregUnlink(p)
    <3>1. th[p].ko \in Kos /\ th[p].i \in DOMAIN CaseTable[th[p].ko] /\ th[p].pc = "u_fs"
      BY <2>2 DEF UnregUnlink, At, IInv, LocalsOK, LocalsOf, UnregPcs
    <3>2. koState[th[p].ko] = "going"
      BY <3>1 DEF IInv, OneOwner, Unregistering, UnregPcs
    <3>3. tab[j] # CaseTable[th[p].ko][th[p].i]
      BY <1>1, <3>1, <3>2, TableEntries
    <3> QED
      BY <2>2, <3>3 DEF UnregUnlink
  <2>3. CASE ~RegFiles(p) /\ ~UnregUnlink(p)
    <3>1. files' = files
      BY <2>3, Kinds4, ReadingCalm, LoggingStays, RunningStays
         DEF Loading, Insmod, Rmmod, RegAdd, RegLog, RegFunc, UnregLock, UnregDrain, UnregDel,
             RunBegin
    <3> QED
      BY <3>1
  <2> QED
    BY <2>1, <2>2, <2>3
<1>3. ASSUME NEW j \in DOMAIN tab, log[tab[j]] # "null"
      PROVE  log'[tab[j]] # "null"
  <2>1. ASSUME NEW h \in Kos, Insmod(p, h) PROVE tab[j] \notin CasesOf(h)
    <3>1. h # k
      BY <2>1 DEF Insmod
    <3> QED
      BY <1>1, <3>1, OwnerOfCase
  <2> QED
    BY <1>1, <1>3, <2>1, PageChanges
<1> QED
  BY <1>2, <1>3 DEF FilesUpTo, PagesUpTo

LEMMA RegKeeps ==
  ASSUME IInv, PagesOK, RegInv, NEW p \in Procs, Step(p) \/ Call(p)
  PROVE  RegInv'
<1>1. Others(p) /\ TypeOK /\ LocalsOf(p) /\ th[p] \in Thread /\ ~Panicked
  BY StepOthers DEF IInv, TypeOK, LocalsOK
<1>2. th[p].i \in Nat /\ th[p].i # 0
  BY <1>1 DEF Thread, LocalsOf
<1>3. \A k \in Kos : /\ CaseTable[k] \in Seq(Cases) /\ Len(CaseTable[k]) \in Nat
                     /\ DOMAIN CaseTable[k] = 1 .. Len(CaseTable[k])
  BY TableEntries, LenProperties
<1>4. ASSUME NEW q \in Procs \ {p}, th'[q].pc \in {"r_add", "r_fs", "r_log"}
      PROVE  /\ th'[q].pc = th[q].pc /\ th'[q].ko = th[q].ko /\ th'[q].i = th[q].i
             /\ th[q].ko \in Kos /\ koState[th[q].ko] = "coming" /\ th[q].i \in Nat
             /\ ~(RegFiles(p) /\ th[p].ko = th[q].ko)
  <2>1. th'[q].pc = th[q].pc /\ th'[q].ko = th[q].ko /\ th'[q].i = th[q].i
    BY <1>1, <1>4 DEF Others
  <2>2. th[q].ko \in Kos /\ th[q].f = None
    BY <1>4, <2>1 DEF IInv, LocalsOK, LocalsOf, RegPcs
  <2>3. Registering(q, th[q].ko)
    BY <1>4, <2>1, <2>2 DEF Registering, RegPcs
  <2>4. RegFiles(p) => Registering(p, th[p].ko)
    BY <1>1 DEF RegFiles, At, Registering, RegPcs, LocalsOf
  <2>5. th[q] \in Thread
    BY <1>1 DEF TypeOK
  <2> QED
    BY <2>1, <2>2, <2>3, <2>4, <2>5 DEF IInv, OneOwner, Thread
<1>5. ASSUME NEW q \in Procs, th'[q].pc = "r_add" PROVE th'[q].i = 1
  <2>1. CASE q # p
    BY <1>4, <1>5, <2>1 DEF RegInv
  <2>2. CASE q = p
    <3>1. Loading(p)
      BY <1>1, <1>5, <2>2, Kinds4, ReadingCalm, LoggingStays, RunningStays, Begins
         DEF ReadPcs, LogPcs
    <3> QED
      BY <1>5, <2>2, <3>1, LoaderMoves DEF Loading
  <2> QED
    BY <2>1, <2>2
<1>6. th'[p].pc \in {"r_fs", "r_log"} => RegAdd(p) \/ RegFiles(p) \/ RegLog(p)
  <2>1. th'[p].pc \in {"r_fs", "r_log"} => Loading(p)
    BY <1>1, Kinds4, ReadingCalm, LoggingStays, RunningStays, Begins DEF ReadPcs, LogPcs
  <2> QED
    BY <2>1, LoaderMoves DEF Loading
<1>7. ASSUME NEW q \in Procs, th'[q].pc = "r_fs"
      PROVE  \E k \in Kos, i \in Nat :
               /\ k = th'[q].ko /\ i = th'[q].i /\ i <= Len(CaseTable[k]) + 1
               /\ FilesUpTo(k, i - 1)' /\ PagesUpTo(k, i - 1)'
  <2>1. CASE q # p
    <3> DEFINE k == th[q].ko
               i == th[q].i
    <3>1. /\ k \in Kos /\ i \in Nat /\ k = th'[q].ko /\ i = th'[q].i
          /\ koState[k] = "coming" /\ ~(RegFiles(p) /\ th[p].ko = k)
          /\ i <= Len(CaseTable[k]) + 1 /\ FilesUpTo(k, i - 1) /\ PagesUpTo(k, i - 1)
      BY <1>4, <1>7, <2>1 DEF RegInv
    <3>2. PICK h \in Kos, j \in Nat : h = k /\ j = i
      BY <3>1
    <3>3. FilesUpTo(h, j - 1)' /\ PagesUpTo(h, j - 1)'
      <4>1. j - 1 \in Int /\ FilesUpTo(h, j - 1) /\ PagesUpTo(h, j - 1)
        BY <3>1, <3>2
      <4> QED
        BY <3>1, <3>2, <4>1, RegAside
    <3> QED
      BY <3>1, <3>2, <3>3
  <2>2. CASE q = p /\ RegAdd(p)
    <3>1. /\ th[p].pc = "r_add" /\ th[p].ko \in Kos /\ th[p].i = 1 /\ files' = files
          /\ th'[p].ko = th[p].ko /\ th'[p].i = 1
      BY <1>1, <2>2, LoaderMoves DEF RegAdd, At, LocalsOf, RegPcs, RegInv, Keeps
    <3>2. PICK k \in Kos : k = th[p].ko
      BY <3>1
    <3>3. \A j \in DOMAIN CaseTable[k], x \in Kinds : <<CaseTable[k][j], x>> \notin files
      <4>1. \A f \in files : KoOf(f[1]) # k
        BY <3>1, <3>2 DEF IInv, FilesOK
      <4> QED
        BY <3>2, <4>1, TableEntries
    <3>4. \A j \in DOMAIN CaseTable[k] : j \in Int /\ ~(j <= 0)
      BY <1>3
    <3>5. FilesUpTo(k, 0)' /\ PagesUpTo(k, 0)'
      BY <3>1, <3>3, <3>4 DEF FilesUpTo, PagesUpTo
    <3>6. 1 \in Nat /\ 1 - 1 = 0 /\ 1 <= Len(CaseTable[k]) + 1
      BY <1>3
    <3>7. PICK i \in Nat : i = 1 /\ i - 1 = 0
      BY <3>6
    <3> QED
      BY <2>2, <3>1, <3>2, <3>5, <3>6, <3>7
  <2>3. CASE q = p /\ RegLog(p)
    <3>1. /\ th[p].pc = "r_log" /\ th[p].ko \in Kos /\ th[p].i \in DOMAIN CaseTable[th[p].ko]
          /\ th'[p].ko = th[p].ko /\ th'[p].i = th[p].i + 1 /\ koState' = koState
      BY <1>1, <1>7, <2>3, LoaderMoves, Zenon DEF RegLog, At, LocalsOf, RegPcs
    <3>2. PICK k \in Kos, i \in Nat : k = th[p].ko /\ i = th[p].i
      BY <1>2, <3>1
    <3>3. FilesUpTo(k, i) /\ PagesUpTo(k, i - 1) /\ koState[k] = "coming"
      <4>1. Registering(p, k)
        BY <1>1, <3>1, <3>2 DEF Registering, RegPcs, LocalsOf
      <4> QED
        BY <3>1, <3>2, <4>1 DEF RegInv, IInv, OneOwner
    <3>4. FilesUpTo(k, i)' /\ PagesUpTo(k, i - 1)'
      <4>1. ~RegFiles(p) /\ i \in Int /\ i - 1 \in Int
        BY <3>1, <3>2 DEF RegFiles, At
      <4> QED
        BY <3>3, <4>1, RegAside
    <3>5. log'[CaseTable[k][i]] # "null"
      <4>1. log' = [log EXCEPT ![CaseTable[k][i]] = "raw"]
        <5>1. ~Goto(p, "r_func")
          BY <1>1, <1>7, <2>3, GoesOn
        <5> QED
          BY <2>3, <3>2, <5>1 DEF RegLog
      <4>2. CaseTable[k][i] \in Cases /\ log \in [Cases -> {"null", "raw", "text"}]
        BY <1>1, <3>1, <3>2, TableEntries DEF TypeOK
      <4> QED
        BY <4>1, <4>2
    <3>6. PagesUpTo(k, i)'
      <4>1. \A j \in DOMAIN CaseTable[k] : j \in Int /\ (j <= i => j = i \/ j <= i - 1)
        BY <1>3
      <4> QED
        BY <3>4, <3>5, <4>1 DEF PagesUpTo
    <3>7. i <= Len(CaseTable[k])
      BY <1>3, <3>1, <3>2
    <3>8. PICK j \in Nat : j = i + 1 /\ j - 1 = i /\ j <= Len(CaseTable[k]) + 1
      BY <1>3, <3>7
    <3> QED
      BY <2>3, <3>1, <3>2, <3>4, <3>6, <3>8
  <2>4. ~RegFiles(p) \/ q # p
    BY <1>7, LoaderMoves
  <2> QED
    BY <1>6, <1>7, <2>1, <2>2, <2>3, <2>4
<1>8. ASSUME NEW q \in Procs, th'[q].pc = "r_log"
      PROVE  \E k \in Kos, i \in Nat :
               /\ k = th'[q].ko /\ i = th'[q].i
               /\ FilesUpTo(k, i)' /\ PagesUpTo(k, i - 1)'
  <2>1. CASE q # p
    <3>1. PICK k \in Kos, i \in Nat :
             /\ k = th'[q].ko /\ i = th'[q].i /\ k = th[q].ko /\ i = th[q].i
             /\ koState[k] = "coming" /\ ~(RegFiles(p) /\ th[p].ko = k) /\ th[q].pc = "r_log"
      BY <1>4, <1>8, <2>1
    <3>2. FilesUpTo(k, i) /\ PagesUpTo(k, i - 1) /\ i \in Int /\ i - 1 \in Int
      BY <3>1 DEF RegInv
    <3>3. FilesUpTo(k, i)' /\ PagesUpTo(k, i - 1)'
      BY <3>1, <3>2, RegAside
    <3> QED
      BY <3>1, <3>3
  <2>2. CASE q = p /\ RegFiles(p)
    <3>1. /\ th[p].pc = "r_fs" /\ th[p].ko \in Kos /\ log' = log
          /\ th'[p].ko = th[p].ko /\ th'[p].i = th[p].i
      BY <1>1, <2>2, LoaderMoves DEF RegFiles, At, LocalsOf, RegPcs, Keeps, data
    <3>2. PICK k \in Kos, i \in Nat : k = th[p].ko /\ i = th[p].i
      BY <1>2, <3>1
    <3>3. FilesUpTo(k, i - 1) /\ PagesUpTo(k, i - 1)
      BY <3>1, <3>2 DEF RegInv
    <3>4. i \in DOMAIN CaseTable[k] /\ files' = files \cup {<<CaseTable[k][i], x>> : x \in Kinds}
      <4>1. ~Goto(p, "r_func")
        BY <1>1, <1>8, <2>2, GoesOn
      <4> QED
        BY <2>2, <3>2, <4>1 DEF RegFiles
    <3>5. ASSUME NEW j \in DOMAIN CaseTable[k], NEW x \in Kinds
          PROVE  <<CaseTable[k][j], x>> \in files' <=> j <= i
      <4>1. j \in Int /\ (j <= i <=> j <= i - 1 \/ j = i)
        BY <1>3
      <4>2. j # i => CaseTable[k][j] # CaseTable[k][i]
        BY <3>4, TableAssumption
      <4> QED
        BY <3>3, <3>4, <4>1, <4>2 DEF FilesUpTo
    <3>6. FilesUpTo(k, i)' /\ PagesUpTo(k, i - 1)'
      BY <3>1, <3>3, <3>5 DEF FilesUpTo, PagesUpTo
    <3> QED
      BY <2>2, <3>1, <3>2, <3>6
  <2>3. CASE q = p /\ ~RegFiles(p)
    BY <1>6, <1>8, <2>3, LoaderMoves
  <2> QED
    BY <2>1, <2>2, <2>3
<1>9. ASSUME NEW k \in Kos, Settled(k)'
      PROVE  \E m \in 0 .. Len(CaseTable[k]) : FilesUpTo(k, m)' /\ PagesUpTo(k, m - 1)'
  <2>1. CASE Settled(k)
    <3>1. PICK m \in 0 .. Len(CaseTable[k]) : FilesUpTo(k, m) /\ PagesUpTo(k, m - 1)
      BY <2>1 DEF RegInv
    <3>2. m \in Int /\ m - 1 \in Int
      BY <1>3
    <3>3. koState[k] \in {"coming", "live"} /\ ~(RegFiles(p) /\ th[p].ko = k)
      <4>1. RegFiles(p) => Registering(p, th[p].ko) /\ th[p].pc = "r_fs" /\ th[p].ko \in Kos
        BY <1>1 DEF RegFiles, At, Registering, RegPcs, LocalsOf
      <4> QED
        BY <2>1, <4>1 DEF Settled, IInv, OneOwner, LogPcs
    <3> QED
      BY <3>1, <3>2, <3>3, RegAside
  <2>2. CASE ~Settled(k)
    <3>1. /\ RegFiles(p) \/ RegLog(p)
          /\ th[p].ko = k /\ th'[p].pc = "r_func"
      <4>1. ASSUME NEW q \in Procs \ {p}, Registering(q, k)', th'[q].pc \in {"r_func"} \cup LogPcs
            PROVE  FALSE
        BY <1>1, <2>2, <4>1 DEF Others, Settled, Registering, RegPcs, LogPcs
      <4>2. ASSUME koState'[k] = "live" PROVE FALSE
        <5>1. koState[k] # "live"
          BY <2>2 DEF Settled
        <5>2. RegFunc(p)
          <6>1. koState \in [Kos -> LoadStates]
            BY <1>1 DEF TypeOK
          <6>2. Loading(p)
            BY <4>2, <5>1, Kinds4, ReadingCalm, LoggingStays, RunningStays DEF RunBegin
          <6> QED
            BY <4>2, <5>1, <6>1, <6>2, Zenon
               DEF Loading, Insmod, Rmmod, RegAdd, RegFiles, RegLog, UnregLock, UnregUnlink,
                   UnregDrain, UnregDel
        <5>3. th[p].ko = k
          BY <1>1, <4>2, <5>1, <5>2 DEF RegFunc, TypeOK
        <5>4. th[p].pc = "r_func" /\ th[p].f = None
          BY <1>1, <5>2 DEF RegFunc, At, LocalsOf, RegPcs
        <5> QED
          BY <2>2, <5>3, <5>4 DEF Settled, Registering, RegPcs
      <4>3. Registering(p, k)' /\ th'[p].pc \in {"r_func"} \cup LogPcs
        BY <1>9, <4>1, <4>2 DEF Settled
      <4>4. th'[p].ko = k /\ th'[p].f = None
        BY <4>3 DEF Registering
      <4>5. ~LoggingStep(p)
        <5>1. LoggingStep(p) => th[p].ko = k /\ th[p].f = None /\ th[p].pc \in LogPcs
          BY <4>4, LoggingStays
        <5> QED
          BY <2>2, <5>1 DEF Settled, Registering
      <4>6. ~RegFunc(p)
        <5>1. RegFunc(p) => th[p].ko = k /\ th[p].f = None /\ th[p].pc = "r_func"
          BY <1>1, <4>3, <4>4, LoaderMoves DEF RegFunc, At, LocalsOf, RegPcs, LogPcs
        <5> QED
          BY <2>2, <5>1 DEF Settled, Registering, RegPcs
      <4>7. ~RunningStep(p)
        <5>1. RunningStep(p) => (th'[p].f = th[p].f /\ th[p].f # None) \/ th'[p].pc = "idle"
          BY RunningStays DEF IInv, LocalsOK, LocalsOf
        <5> QED
          BY <4>3, <4>4, <5>1 DEF LogPcs
      <4>8. Loading(p)
        <5>1. \A c \in Cases, x \in RunKinds : RunBegin(p, c, x) => th'[p].pc = "w_clear"
          BY <1>1, Begins
        <5> QED
          BY <4>3, <4>5, <4>7, <5>1, Kinds4, ReadingCalm DEF ReadPcs, LogPcs
      <4>9. RegFiles(p) \/ RegLog(p)
        BY <4>3, <4>6, <4>8, LoaderMoves DEF Loading, LogPcs
      <4> QED
        BY <4>3, <4>4, <4>9, LoaderMoves DEF Keeps, LogPcs
    <3>2. PICK i \in Nat : i = th[p].i /\ i # 0
      BY <1>2
    <3>3. CASE RegFiles(p)
      <4>1. /\ th[p].pc = "r_fs" /\ log' = log /\ i <= Len(CaseTable[k]) + 1
            /\ FilesUpTo(k, i - 1) /\ PagesUpTo(k, i - 1)
        BY <3>1, <3>2, <3>3 DEF RegFiles, At, data, RegInv
      <4>2. i \notin DOMAIN CaseTable[k] /\ files' = files
        <5>1. ~Goto(p, "r_log")
          BY <1>1, <3>1, GoesOn
        <5> QED
          BY <3>1, <3>2, <3>3, <5>1 DEF RegFiles
      <4>3. PICK m \in 0 .. Len(CaseTable[k]) : m = i - 1 /\ m = Len(CaseTable[k])
        BY <1>3, <3>2, <4>1, <4>2
      <4>4. FilesUpTo(k, m)'
        BY <4>1, <4>2, <4>3 DEF FilesUpTo
      <4>5. \A j \in DOMAIN CaseTable[k] : j <= m - 1 => j <= i - 1
        BY <1>3, <4>3
      <4>6. PagesUpTo(k, m - 1)'
        BY <4>1, <4>5 DEF PagesUpTo
      <4> QED
        BY <4>4, <4>6
    <3>4. CASE RegLog(p)
      <4>1. /\ th[p].pc = "r_log" /\ files' = files /\ log' = log
            /\ FilesUpTo(k, i) /\ PagesUpTo(k, i - 1) /\ i \in DOMAIN CaseTable[k]
        <5>1. ~Become(p, [th[p] EXCEPT !.pc = "r_fs", !.i = @ + 1])
          <6>1. [th[p] EXCEPT !.pc = "r_fs", !.i = @ + 1].pc = "r_fs"
            BY <1>1 DEF Thread
          <6> QED
            BY <1>1, <3>1, <6>1, Moves
        <5>2. th[p].pc = "r_log"
          BY <3>4 DEF RegLog, At
        <5> QED
          BY <1>1, <3>1, <3>2, <3>4, <5>1, <5>2 DEF RegLog, RegInv, LocalsOf
      <4>2. i \in 0 .. Len(CaseTable[k])
        BY <1>3, <4>1
      <4> QED
        BY <4>1, <4>2 DEF FilesUpTo, PagesUpTo
    <3> QED
      BY <3>1, <3>3, <3>4
  <2> QED
    BY <2>1, <2>2
<1>10. \A q \in Procs : th'[q].pc = "r_fs" =>
         /\ th'[q].i <= Len(CaseTable[th'[q].ko]) + 1
         /\ FilesUpTo(th[q].ko, th[q].i - 1)' /\ PagesUpTo(th[q].ko, th[q].i - 1)'
  BY <1>7 DEF FilesUpTo, PagesUpTo
<1>11. \A q \in Procs : th'[q].pc = "r_log" =>
         FilesUpTo(th[q].ko, th[q].i)' /\ PagesUpTo(th[q].ko, th[q].i - 1)'
  BY <1>8 DEF FilesUpTo, PagesUpTo
<1> QED
  BY <1>5, <1>9, <1>10, <1>11 DEF RegInv

\* Registration keeps its bookkeeping in every reachable state.
LEMMA RegHolds == Spec => [](IInv /\ RunInv /\ RegInv)
<1>1. Init => RegInv
  <2> SUFFICES ASSUME Init PROVE RegInv
    OBVIOUS
  <2>1. /\ \A p \in Procs : th[p].pc = "idle"
        /\ \A k \in Kos : koState[k] = "absent"
    BY DEF Init, Idle
  <2> QED
    BY <2>1 DEF RegInv, Settled, LogPcs
<1>2. IInv /\ RunInv /\ RegInv /\ [Next]_vars => RegInv'
  <2> SUFFICES ASSUME IInv, RunInv, RegInv, [Next]_vars PROVE RegInv'
    OBVIOUS
  <2>1. CASE UNCHANGED vars
    <3>1. UNCHANGED <<koState, files, log, th>>
      BY <2>1 DEF vars, data
    <3> QED
      BY <3>1 DEF RegInv, FilesUpTo, PagesUpTo, Settled, Registering
  <2>2. ASSUME NEW p \in Procs, Step(p) \/ Call(p) PROVE RegInv'
    BY <2>2, RegKeeps DEF RunInv
  <2> QED
    BY <2>1, <2>2 DEF Next
<1> QED
  BY <1>1, <1>2, RunsHold, InitInv, InitRunInv, NextInv, NextRunInv, PTL DEF Spec

\* However registration went, the cases of a live ko that have files are a prefix
\* of its table, and all of them but the last have a log.
THEOREM RegisteredPrefix == Spec => []RegistrationIsPrefix
<1>1. RegInv => RegistrationIsPrefix
  <2> SUFFICES ASSUME RegInv, NEW k \in Kos, koState[k] = "live"
               PROVE  \E m \in 0 .. Len(CaseTable[k]) :
                        /\ \A j \in 1 .. Len(CaseTable[k]), x \in Kinds :
                             <<CaseTable[k][j], x>> \in files <=> j <= m
                        /\ \A j \in 1 .. m - 1 : log[CaseTable[k][j]] # "null"
    BY DEF RegistrationIsPrefix
  <2>1. PICK m \in 0 .. Len(CaseTable[k]) : FilesUpTo(k, m) /\ PagesUpTo(k, m - 1)
    BY DEF RegInv, Settled
  <2>2. DOMAIN CaseTable[k] = 1 .. Len(CaseTable[k]) /\ Len(CaseTable[k]) \in Nat
    BY TableEntries, LenProperties
  <2>3. \A j \in 1 .. m - 1 : j \in DOMAIN CaseTable[k] /\ j <= m - 1
    BY <2>2
  <2> QED
    BY <2>1, <2>2, <2>3 DEF FilesUpTo, PagesUpTo
<1> QED
  BY <1>1, RegHolds, PTL
==============================================================================
