-------------------------------- MODULE Munit --------------------------------
(***************************************************************************)
(* The munit driver: the kernel half of Bee, which lets shells run the     *)
(* test cases of loaded case modules ("case kos") through debugfs.         *)
(*                                                                         *)
(*   beetools/munit/munit_drv.c   register_cases, unregister_cases, the    *)
(*                                file operations, munit_get_module_case_log *)
(*   beeinc/munit.h               the case table and MUNIT_CASE_INIT       *)
(*                                                                         *)
(* Kernel threads (Procs) interleave at the granularity of one access to   *)
(* shared memory.  A thread is in one system call at a time: an insmod or  *)
(* rmmod of a case ko, a write to a case's "run" or "log" file, a read of  *)
(* one of its three files.  The module loader and debugfs are external and *)
(* are modelled by what munit relies on: a ko is unloaded only when live,  *)
(* and removing a debugfs file waits for the calls inside it to return.    *)
(*                                                                         *)
(* Definitions commented as mutants are changed copies of the definition   *)
(* that follows, against which the properties are tried.                   *)
(***************************************************************************)
EXTENDS Integers, Sequences, FiniteSets

CONSTANTS
  Procs,        \* kernel threads, each serving one shell
  Kos,          \* case kos; each registers one munit module, under its own name
  Cases,        \* all entries of all case tables
  CaseTable,    \* [Kos -> Seq(Cases)]: the mcase[] array of each ko
  CaseName,     \* [Cases -> names]: MUNIT_CASE's .name, the test function's name
  InitName,     \* [Kos -> names]: name of the function given to MUNIT_CASE_INIT
  NameHas,      \* <<name, ko>>: strstr(name, the name ko registers) finds it
  PageSize,     \* PAGE_SIZE: the size of a case's log
  LineLens,     \* lengths of a formatted log line
  MaxLines,     \* bound: lines a test function logs in one run
  Verdicts,     \* verdicts test functions return (TRUE: func_run() == 0)
  RunKinds,     \* files shells write to: "run" and "log" share their handlers
  ReadKinds,    \* files shells read
  RawLens,      \* what strlen may find in a page that was never cleared
  ReadSizes,    \* buffer sizes readers pass to read()
  SizeMod,      \* 2^width of size_t
  AllocMayFail, \* whether kmalloc may return NULL
  None

Kinds == {"run", "res", "log"}
Files == Cases \X Kinds

\* The table entries of ko k.
CasesOf(k) == {CaseTable[k][j] : j \in DOMAIN CaseTable[k]}

ASSUME TableAssumption ==
  /\ CaseTable \in [Kos -> Seq(Cases)]
  /\ \A c \in Cases : \E k \in Kos : c \in CasesOf(k)
  /\ \A k1, k2 \in Kos : k1 # k2 => CasesOf(k1) \cap CasesOf(k2) = {}
  /\ \A k \in Kos : \A i, j \in DOMAIN CaseTable[k] :
       CaseTable[k][i] = CaseTable[k][j] => i = j

ASSUME SizeAssumption ==
  /\ PageSize \in Nat \ {0}
  /\ MaxLines \in Nat
  /\ LineLens \subseteq Nat
  /\ RawLens \subseteq Nat
  /\ ReadSizes \subseteq Nat \ {0}
  /\ SizeMod \in Nat \ {0}
  /\ AllocMayFail \in BOOLEAN

ASSUME InputAssumption ==
  /\ Verdicts \subseteq BOOLEAN
  /\ RunKinds \subseteq {"run", "log"}
  /\ ReadKinds \subseteq Kinds

ASSUME NoneAssumption == None \notin Procs \cup Kos \cup Cases \cup Files

\* The ko whose table holds c.
KoOf(c) == CHOOSE k \in Kos : c \in CasesOf(k)

VARIABLES
  koState,   \* the loader's view of each ko
  caseList,  \* case_module: the registered modules, in registration order
  mutex,     \* case_module_mutex: its owner, or None
  files,     \* debugfs files that are linked
  log,       \* mcase->log: "null", "raw" (kmalloc'd, not yet cleared) or "text"
  logLen,    \* strlen(mcase->log)
  res,       \* mcase->res: its bytes 0..3 and whether a character follows them
  succ,      \* mcase->succ
  th,        \* the threads: program counter and locals
  crowded,   \* history: cases whose latest run overlapped another run of the case
  last       \* history: the verdict each case's test function last returned

data    == <<log, logLen, res, succ>>
history == <<crowded, last>>
vars    == <<koState, caseList, mutex, files, data, th, history>>

Verdict(v) == IF v THEN "PASS" ELSE "NOT PASS"

\* mcase->res as a string: "NOT PASS" and "PASS" share their last characters,
\* so a torn strcpy shows as "NOT " or "PASSPASS".
Text(r) ==
  IF r.head = "" \/ ~r.long THEN r.head
  ELSE IF r.head = "NOT " THEN "NOT PASS" ELSE "PASSPASS"
TextLen(r) == IF r.head = "" THEN 0 ELSE IF r.long THEN 8 ELSE 4
NoText     == [head |-> "", long |-> FALSE]

Idle == [pc |-> "idle", ko |-> None, i |-> 1, f |-> None, rm |-> None,
         mod |-> None, dst |-> None, n |-> 0, pos |-> 0, v |-> FALSE,
         said |-> 0, lines |-> 0, met |-> FALSE]

Init ==
  /\ koState = [k \in Kos |-> "absent"]
  /\ caseList = <<>>
  /\ mutex = None
  /\ files = {}
  /\ log = [c \in Cases |-> "null"]
  /\ logLen = [c \in Cases |-> 0]
  /\ res = [c \in Cases |-> NoText]
  /\ succ = [c \in Cases |-> FALSE]
  /\ th = [p \in Procs |-> Idle]
  /\ crowded = {}
  /\ last = [c \in Cases |-> ""]

\* An oops panics the kernel (CONFIG_PANIC_ON_OOPS): no thread steps after it.
Panicked     == \E p \in Procs : th[p].pc = "oops"
At(p, l)     == th[p].pc = l /\ ~Panicked
Become(p, t) == th' = [th EXCEPT ![p] = t]
Goto(p, l)   == Become(p, [th[p] EXCEPT !.pc = l])
Return(p)    == Become(p, Idle)

RunPcs  == {"w_clear", "w_body", "w_succ", "w_res", "w_end"}
LogPcs  == {"l_find", "l_case", "l_len", "l_cat"}
ReadPcs == {"d_chk", "d_cnt", "d_copy"}
InPcs   == RunPcs \cup LogPcs \cup ReadPcs

\* p executes a test function, or what munit_write does around it.
Running(p, c) ==
  /\ th[p].f \in {c} \X {"run", "log"}
  /\ th[p].pc \in RunPcs \cup LogPcs

\* The call of p is inside debugfs file f: between debugfs_file_get and
\* debugfs_file_put.  ("d_next" is between two read() calls on an open file.)
Inside(p, f) == th[p].f = f /\ th[p].pc \in InPcs
------------------------------------------------------------------------------
\* insmod <ko>: load_module lays out the ko's static data, its init calls
\* register_cases, which allocates the module structure.  Neither allocation
\* is checked.
Insmod(p, k) ==
  /\ At(p, "idle")
  /\ koState[k] = "absent"
  /\ koState' = [koState EXCEPT ![k] = "coming"]
  /\ log'    = [c \in Cases |-> IF c \in CasesOf(k) THEN "null" ELSE log[c]]
  /\ logLen' = [c \in Cases |-> IF c \in CasesOf(k) THEN 0 ELSE logLen[c]]
  /\ res'    = [c \in Cases |-> IF c \in CasesOf(k) THEN NoText ELSE res[c]]
  /\ succ'   = [c \in Cases |-> IF c \in CasesOf(k) THEN FALSE ELSE succ[c]]
  /\ last'   = [c \in Cases |-> IF c \in CasesOf(k) THEN "" ELSE last[c]]
  /\ crowded' = crowded \ CasesOf(k)
  /\ \/ Become(p, [th[p] EXCEPT !.pc = "r_add", !.ko = k])
     \/ AllocMayFail /\ Become(p, [th[p] EXCEPT !.pc = "oops", !.ko = k])
  /\ UNCHANGED <<caseList, mutex, files>>

\* register_cases: list_add_tail under the mutex.
RegAdd(p) ==
  /\ At(p, "r_add")
  /\ mutex = None
  /\ caseList' = Append(caseList, th[p].ko)
  /\ Goto(p, "r_fs")
  /\ UNCHANGED <<koState, mutex, files, data, history>>

\* munit_module_case_create_fs, the loop head and the files of one case.  The
\* three files appear in one step: every handler but munit_res_read touches
\* only what the next step sets, and that one reads static data.
RegFiles(p) ==
  LET k == th[p].ko
      i == th[p].i
  IN /\ At(p, "r_fs")
     /\ \/ /\ i \in DOMAIN CaseTable[k]
           /\ files' = files \cup {<<CaseTable[k][i], x>> : x \in Kinds}
           /\ Goto(p, "r_log")
        \/ /\ i \notin DOMAIN CaseTable[k]
           /\ files' = files
           /\ Goto(p, "r_func")
     /\ UNCHANGED <<koState, caseList, mutex, data, history>>

\* Mutant: "continue" for "return" when there is no page.
RegLogGoesOn(p) ==
  LET c == CaseTable[th[p].ko][th[p].i]
  IN /\ At(p, "r_log")
     /\ \/ /\ log' = [log EXCEPT ![c] = "raw"]
           /\ \E m \in RawLens : logLen' = [logLen EXCEPT ![c] = m]
        \/ AllocMayFail /\ UNCHANGED <<log, logLen>>
     /\ Become(p, [th[p] EXCEPT !.pc = "r_fs", !.i = @ + 1])
     /\ UNCHANGED <<koState, caseList, mutex, files, res, succ, history>>

\* munit_module_case_create_fs: the log page, which comes uncleared.  On
\* failure the remaining cases get neither files nor a log, and register_cases
\* returns as if all went well.
RegLog(p) ==
  LET c == CaseTable[th[p].ko][th[p].i]
  IN /\ At(p, "r_log")
     /\ \/ /\ log' = [log EXCEPT ![c] = "raw"]
           /\ \E m \in RawLens : logLen' = [logLen EXCEPT ![c] = m]
           /\ Become(p, [th[p] EXCEPT !.pc = "r_fs", !.i = @ + 1])
        \/ /\ AllocMayFail
           /\ UNCHANGED <<log, logLen>>
           /\ Goto(p, "r_func")
     /\ UNCHANGED <<koState, caseList, mutex, files, res, succ, history>>

\* case_module_init: the ko's own init function may log a line; then the ko is
\* live.
RegFunc(p) ==
  /\ At(p, "r_func")
  /\ \/ /\ th[p].lines = 0
        /\ \E m \in LineLens :
             Become(p, [th[p] EXCEPT !.pc = "l_find", !.lines = 1, !.n = m])
        /\ koState' = koState
     \/ /\ koState' = [koState EXCEPT ![th[p].ko] = "live"]
        /\ Return(p)
  /\ UNCHANGED <<caseList, mutex, files, data, history>>
------------------------------------------------------------------------------
\* list_del of the j-th element.
Without(s, j) == [h \in 1 .. Len(s) - 1 |-> IF h < j THEN s[h] ELSE s[h + 1]]

\* rmmod <ko>: the loader accepts a live ko and calls case_module_exit.
Rmmod(p, k) ==
  /\ At(p, "idle")
  /\ koState[k] = "live"
  /\ koState' = [koState EXCEPT ![k] = "going"]
  /\ Become(p, [th[p] EXCEPT !.pc = "u_lock", !.ko = k])
  /\ UNCHANGED <<caseList, mutex, files, data, history>>

\* Mutant: list_del comes before the removal of the files.
UnregLockDel(p) ==
  /\ At(p, "u_lock")
  /\ mutex = None
  /\ mutex' = p
  /\ \E j \in DOMAIN caseList :
       caseList[j] = th[p].ko /\ caseList' = Without(caseList, j)
  /\ Goto(p, "u_fs")
  /\ UNCHANGED <<koState, files, data, history>>

\* unregister_cases: take the mutex and find the module of that name.
UnregLock(p) ==
  /\ At(p, "u_lock")
  /\ mutex = None
  /\ \E j \in DOMAIN caseList : caseList[j] = th[p].ko
  /\ mutex' = p
  /\ Goto(p, "u_fs")
  /\ UNCHANGED <<koState, caseList, files, data, history>>

\* munit_module_case_decreate_fs: debugfs_remove_recursive on the directory of
\* case i unlinks its files one at a time and waits for each ...
UnregUnlink(p) ==
  LET c == CaseTable[th[p].ko][th[p].i]
  IN /\ At(p, "u_fs")
     /\ th[p].i \in DOMAIN CaseTable[th[p].ko]
     /\ \/ \E x \in Kinds :
             /\ <<c, x>> \in files
             /\ files' = files \ {<<c, x>>}
             /\ Become(p, [th[p] EXCEPT !.pc = "u_drain", !.rm = <<c, x>>])
        \/ /\ \A x \in Kinds : <<c, x>> \notin files
           /\ files' = files
           /\ Become(p, [th[p] EXCEPT !.i = @ + 1])
     /\ UNCHANGED <<koState, caseList, mutex, data, history>>

\* Mutant: files made by debugfs_create_file_unsafe, whose removal waits for none.
UnregDrainNone(p) ==
  /\ At(p, "u_drain")
  /\ Become(p, [th[p] EXCEPT !.pc = "u_fs", !.rm = None])
  /\ UNCHANGED <<koState, caseList, mutex, files, data, history>>

\* ... until no call is inside it.  The mutex stays held.  Who has the file open
\* reads EIO from now on, also when the ko comes back.
UnregDrain(p) ==
  /\ At(p, "u_drain")
  /\ \A q \in Procs : ~Inside(q, th[p].rm)
  /\ th' = [q \in Procs |->
              IF q = p THEN [th[p] EXCEPT !.pc = "u_fs", !.rm = None]
              ELSE IF th[q].pc = "d_next" /\ th[q].f = th[p].rm THEN Idle ELSE th[q]]
  /\ UNCHANGED <<koState, caseList, mutex, files, data, history>>

\* Mutants: no list_del; no munit_module_case_decreate_fs.
UnregDelKeeps(p) ==
  /\ At(p, "u_fs")
  /\ th[p].i \notin DOMAIN CaseTable[th[p].ko]
  /\ mutex' = None
  /\ koState' = [koState EXCEPT ![th[p].ko] = "absent"]
  /\ Return(p)
  /\ UNCHANGED <<caseList, files, data, history>>

UnregDelEarly(p) ==
  /\ At(p, "u_fs")
  /\ \E j \in DOMAIN caseList :
       caseList[j] = th[p].ko /\ caseList' = Without(caseList, j)
  /\ mutex' = None
  /\ koState' = [koState EXCEPT ![th[p].ko] = "absent"]
  /\ Return(p)
  /\ UNCHANGED <<files, data, history>>

\* unregister_cases: list_del, kfree, unlock; the loader then frees the ko with
\* its case table.  The log pages are not freed.
UnregDel(p) ==
  LET k == th[p].ko
  IN /\ At(p, "u_fs")
     /\ th[p].i \notin DOMAIN CaseTable[k]
     /\ \E j \in DOMAIN caseList :
          caseList[j] = k /\ caseList' = Without(caseList, j)
     /\ mutex' = None
     /\ koState' = [koState EXCEPT ![k] = "absent"]
     /\ Return(p)
     /\ UNCHANGED <<files, data, history>>
------------------------------------------------------------------------------
\* Opening f of a case, or reading on through an open one: debugfs_file_get
\* succeeds on a linked file only.  A read remembers whether a run of its case
\* was going on; a run tells the reads that are.
ReadEnter(p, f) ==
  /\ f \in files
  /\ Become(p, [th[p] EXCEPT !.pc = "d_chk", !.f = f,
                             !.met = @ \/ \E q \in Procs : Running(q, f[1])])

\* munit_write of "1" to "run" or "log", which share munit_fops (any other
\* value is refused before anything changes).
RunBegin(p, c, x) ==
  /\ At(p, "idle")
  /\ <<c, x>> \in files
  /\ th' = [q \in Procs |->
              IF q = p THEN [th[p] EXCEPT !.pc = "w_clear", !.f = <<c, x>>]
              ELSE IF th[q].f \in {c} \X Kinds /\ ~Running(q, c)
                   THEN [th[q] EXCEPT !.met = TRUE] ELSE th[q]]
  /\ crowded' = IF \E q \in Procs : Running(q, c) THEN crowded \cup {c} ELSE crowded
  /\ UNCHANGED <<koState, caseList, mutex, files, data, last>>

\* Mutant: no memset.
RunClearNot(p) ==
  LET c == th[p].f[1]
  IN /\ At(p, "w_clear")
     /\ log[c] # "null"
     /\ log' = [log EXCEPT ![c] = "text"]
     /\ crowded' = IF \E q \in Procs \ {p} : Running(q, c)
                   THEN crowded ELSE crowded \ {c}
     /\ Goto(p, "w_body")
     /\ UNCHANGED <<koState, caseList, mutex, files, logLen, res, succ, last>>

\* memset of the log.  From here a run that is alone starts afresh.
RunClear(p) ==
  LET c == th[p].f[1]
  IN /\ At(p, "w_clear")
     /\ \/ /\ log[c] = "null"
           /\ Goto(p, "oops")
           /\ UNCHANGED <<log, logLen, crowded>>
        \/ /\ log[c] # "null"
           /\ log' = [log EXCEPT ![c] = "text"]
           /\ logLen' = [logLen EXCEPT ![c] = 0]
           /\ crowded' = IF \E q \in Procs \ {p} : Running(q, c)
                         THEN crowded ELSE crowded \ {c}
           /\ Goto(p, "w_body")
     /\ UNCHANGED <<koState, caseList, mutex, files, res, succ, last>>

\* The test function: LOG a line ...
RunLog(p) ==
  /\ At(p, "w_body")
  /\ th[p].lines < MaxLines
  /\ \E m \in LineLens :
       Become(p, [th[p] EXCEPT !.pc = "l_find", !.n = m,
                               !.said = @ + m, !.lines = @ + 1])
  /\ UNCHANGED <<koState, caseList, mutex, files, data, history>>

\* ... or return a verdict.
RunReturn(p) ==
  /\ At(p, "w_body")
  /\ \E v \in Verdicts :
       /\ Become(p, [th[p] EXCEPT !.pc = "w_succ", !.v = v])
       /\ last' = [last EXCEPT ![th[p].f[1]] = Verdict(v)]
  /\ UNCHANGED <<koState, caseList, mutex, files, data, crowded>>

\* Mutant: no "else succ = false".
RunSuccSticky(p) ==
  /\ At(p, "w_succ")
  /\ succ' = [succ EXCEPT ![th[p].f[1]] = @ \/ th[p].v]
  /\ Goto(p, "w_res")
  /\ UNCHANGED <<koState, caseList, mutex, files, log, logLen, res, history>>

RunSucc(p) ==
  /\ At(p, "w_succ")
  /\ succ' = [succ EXCEPT ![th[p].f[1]] = th[p].v]
  /\ Goto(p, "w_res")
  /\ UNCHANGED <<koState, caseList, mutex, files, log, logLen, res, history>>

\* strcpy of the verdict.  succ is plain memory: the compiler may test the value
\* it has just stored or read succ again.  "NOT PASS" is copied by one 8-byte
\* store (its terminator falls on a byte that is always 0); "PASS" by a 4-byte
\* store and a store of its terminator.
RunRes(p) ==
  LET c == th[p].f[1]
  IN /\ At(p, "w_res")
     /\ \E s \in {th[p].v, succ[c]} :
          IF s
          THEN /\ res' = [res EXCEPT ![c] = [head |-> "PASS", long |-> @.long]]
               /\ Goto(p, "w_end")
          ELSE /\ res' = [res EXCEPT ![c] = [head |-> "NOT ", long |-> TRUE]]
               /\ Return(p)
     /\ UNCHANGED <<koState, caseList, mutex, files, log, logLen, succ, history>>

RunEnd(p) ==
  /\ At(p, "w_end")
  /\ res' = [res EXCEPT ![th[p].f[1]] = [head |-> @.head, long |-> FALSE]]
  /\ Return(p)
  /\ UNCHANGED <<koState, caseList, mutex, files, log, logLen, succ, history>>
------------------------------------------------------------------------------
\* LOG_INFO and LOG_ERR: munit_get_module_case_log(__func__, ...), called by a
\* test function or by a ko's init function.
FuncName(p) == IF th[p].f # None THEN CaseName[th[p].f[1]] ELSE InitName[th[p].ko]
LogReturn(p) ==
  Become(p, [th[p] EXCEPT !.pc = IF th[p].f # None THEN "w_body" ELSE "r_func",
                          !.n = 0, !.mod = None, !.dst = None])

\* munit_search_test_module: the first registered module, in list order, whose
\* name is a substring of the function's.  It is used after the unlock.
Found(p, j) ==
  /\ j \in DOMAIN caseList
  /\ <<FuncName(p), caseList[j]>> \in NameHas
  /\ \A h \in 1 .. j - 1 : <<FuncName(p), caseList[h]>> \notin NameHas

\* Mutant: the early return of a module found forgets the unlock.
LogFindKeepsLock(p) ==
  /\ At(p, "l_find")
  /\ mutex = None
  /\ \/ \E j \in DOMAIN caseList :
          /\ Found(p, j)
          /\ mutex' = p
          /\ Become(p, [th[p] EXCEPT !.pc = "l_case", !.mod = caseList[j]])
     \/ /\ \A j \in DOMAIN caseList : ~Found(p, j)
        /\ mutex' = mutex
        /\ LogReturn(p)
  /\ UNCHANGED <<koState, caseList, files, data, history>>

LogFind(p) ==
  /\ At(p, "l_find")
  /\ mutex = None
  /\ \/ \E j \in DOMAIN caseList :
          /\ Found(p, j)
          /\ Become(p, [th[p] EXCEPT !.pc = "l_case", !.mod = caseList[j]])
     \/ /\ \A j \in DOMAIN caseList : ~Found(p, j)
        /\ LogReturn(p)
  /\ UNCHANGED <<koState, caseList, mutex, files, data, history>>

\* munit_get_module_case: the first entry of that module named as the function.
LogCase(p) ==
  LET tab   == CaseTable[th[p].mod]
      Hit(j) == /\ CaseName[tab[j]] = FuncName(p)
                /\ \A h \in 1 .. j - 1 : CaseName[tab[h]] # FuncName(p)
  IN /\ At(p, "l_case")
     /\ \/ \E j \in DOMAIN tab :
             /\ Hit(j)
             /\ Become(p, [th[p] EXCEPT !.pc = "l_len", !.dst = tab[j]])
        \/ /\ \A j \in DOMAIN tab : ~Hit(j)
           /\ LogReturn(p)
     /\ UNCHANGED <<koState, caseList, mutex, files, data, history>>

\* Mutant: the room is computed without the terminator.
LogLenNoTerminator(p) ==
  LET c    == th[p].dst
      room == PageSize - logLen[c]
  IN /\ At(p, "l_len")
     /\ log[c] # "null"
     /\ \/ room <= 0 /\ LogReturn(p)
        \/ /\ room > 0
           /\ Become(p, [th[p] EXCEPT !.pc = "l_cat", !.n = IF @ < room THEN @ ELSE room])
     /\ UNCHANGED <<koState, caseList, mutex, files, data, history>>

\* The room left in the log; th.n becomes the number of characters to append.
LogLen(p) ==
  LET c    == th[p].dst
      room == PageSize - logLen[c] - 1
  IN /\ At(p, "l_len")
     /\ \/ log[c] = "null" /\ Goto(p, "oops")
        \/ log[c] # "null" /\ room <= 0 /\ LogReturn(p)
        \/ /\ log[c] # "null" /\ room > 0
           /\ Become(p, [th[p] EXCEPT !.pc = "l_cat", !.n = IF @ < room THEN @ ELSE room])
     /\ UNCHANGED <<koState, caseList, mutex, files, data, history>>

\* strncat: appends at the end the string has by now.
LogCat(p) ==
  /\ At(p, "l_cat")
  /\ logLen' = [logLen EXCEPT ![th[p].dst] = @ + th[p].n]
  /\ LogReturn(p)
  /\ UNCHANGED <<koState, caseList, mutex, files, log, res, succ, history>>
------------------------------------------------------------------------------
\* cat <file>: open it, then read until end of file, an error, or enough.
ReadBegin(p, f) ==
  /\ At(p, "idle")
  /\ ReadEnter(p, f)
  /\ UNCHANGED <<koState, caseList, mutex, files, data, history>>

\* munit_read ("run" and "log") and munit_res_read share their shape: strlen of
\* the buffer, compared with *pos ...
Strlen(f) == IF f[2] = "res" THEN TextLen(res[f[1]]) ELSE logLen[f[1]]

ReadCheck(p) ==
  LET f == th[p].f
  IN /\ At(p, "d_chk")
     /\ \/ f[2] # "res" /\ log[f[1]] = "null" /\ Goto(p, "oops")
        \/ /\ f[2] = "res" \/ log[f[1]] # "null"
           /\ IF th[p].pos >= Strlen(f) THEN Return(p) ELSE Goto(p, "d_cnt")
     /\ UNCHANGED <<koState, caseList, mutex, files, data, history>>

\* Mutants: the count is a signed int; it is not clamped by what is left.
ReadCountSigned(p) ==
  LET left == Strlen(th[p].f) - th[p].pos
  IN /\ At(p, "d_cnt")
     /\ \E m \in ReadSizes :
          Become(p, [th[p] EXCEPT !.pc = "d_copy", !.n = IF m < left THEN m ELSE left])
     /\ UNCHANGED <<koState, caseList, mutex, files, data, history>>

ReadCountAll(p) ==
  /\ At(p, "d_cnt")
  /\ \E m \in ReadSizes : Become(p, [th[p] EXCEPT !.pc = "d_copy", !.n = m])
  /\ UNCHANGED <<koState, caseList, mutex, files, data, history>>

\* ... then strlen again, in size_t arithmetic, clamped by the caller's count
\* and, in munit_read only, by the page.
ReadCount(p) ==
  LET f    == th[p].f
      left == (Strlen(f) - th[p].pos) % SizeMod
      Clamp(m) == IF f[2] # "res" /\ m > PageSize THEN PageSize ELSE m
  IN /\ At(p, "d_cnt")
     /\ \E m \in ReadSizes :
          Become(p, [th[p] EXCEPT !.pc = "d_copy", !.n = Clamp(IF m < left THEN m ELSE left)])
     /\ UNCHANGED <<koState, caseList, mutex, files, data, history>>

\* kmalloc (unchecked), memcpy, copy_to_user, *pos += count; a count of 0, which
\* a log cleared since the check gives, is end of file to the reader.
ReadCopy(p) ==
  /\ At(p, "d_copy")
  /\ \/ th[p].n = 0 /\ Return(p)
     \/ /\ th[p].n > 0
        /\ Become(p, [th[p] EXCEPT !.pc = "d_next", !.pos = @ + th[p].n, !.n = 0])
     \/ AllocMayFail /\ th[p].n > 0 /\ Goto(p, "oops")
  /\ UNCHANGED <<koState, caseList, mutex, files, data, history>>

\* The next read(): on an unlinked file it is EIO.  The reader may also stop.
ReadNext(p) ==
  /\ At(p, "d_next")
  /\ ReadEnter(p, th[p].f) \/ Return(p)
  /\ UNCHANGED <<koState, caseList, mutex, files, data, history>>
------------------------------------------------------------------------------
\* What a thread does once its system call has begun.
Step(p) ==
  \/ RegAdd(p) \/ RegFiles(p) \/ RegLog(p) \/ RegFunc(p)
  \/ UnregLock(p) \/ UnregUnlink(p) \/ UnregDrain(p) \/ UnregDel(p)
  \/ RunClear(p) \/ RunLog(p) \/ RunReturn(p) \/ RunSucc(p) \/ RunRes(p) \/ RunEnd(p)
  \/ LogFind(p) \/ LogCase(p) \/ LogLen(p) \/ LogCat(p)
  \/ ReadCheck(p) \/ ReadCount(p) \/ ReadCopy(p) \/ ReadNext(p)

\* What the shells ask for.
Call(p) ==
  \/ \E k \in Kos : Insmod(p, k) \/ Rmmod(p, k)
  \/ \E c \in Cases, x \in RunKinds : RunBegin(p, c, x)
  \/ \E f \in Cases \X ReadKinds : ReadBegin(p, f)

Next == \E p \in Procs : Step(p) \/ Call(p)

Spec == Init /\ [][Next]_vars

\* A thread in a system call is scheduled, and its test functions return.  The
\* mutex hands over to its waiters in turn, so a thread that finds it free again
\* and again gets it: strong fairness for the steps that take it.
Fairness ==
  \A p \in Procs :
    /\ WF_vars(Step(p))
    /\ SF_vars(RegAdd(p)) /\ SF_vars(UnregLock(p)) /\ SF_vars(LogFind(p))

LiveSpec == Spec /\ Fairness
==============================================================================
