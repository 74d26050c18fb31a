------------------------------ MODULE MunitProps ------------------------------
(***************************************************************************)
(* What the munit driver must keep true, and what it can only keep true    *)
(* while a case is not run twice at a time.                                *)
(***************************************************************************)
EXTENDS Munit

LoadStates == {"absent", "coming", "live", "going"}
Pcs == InPcs \cup {"idle", "r_add", "r_fs", "r_log", "r_func",
                   "u_lock", "u_fs", "u_drain", "d_next", "oops"}
Thread == [pc : Pcs, ko : Kos \cup {None}, i : Nat, f : Files \cup {None},
           rm : Files \cup {None}, mod : Kos \cup {None}, dst : Cases \cup {None},
           n : Nat, pos : Nat, v : BOOLEAN, said : Nat, lines : Nat, met : BOOLEAN]

\* The variables of the driver and the locals of its threads have the types of
\* their C declarations.
TypeOK ==
  /\ koState \in [Kos -> LoadStates]
  /\ caseList \in Seq(Kos)
  /\ mutex \in Procs \cup {None}
  /\ files \subseteq Files
  /\ log \in [Cases -> {"null", "raw", "text"}]
  /\ logLen \in [Cases -> Nat]
  /\ res \in [Cases -> [head : {"", "PASS", "NOT "}, long : BOOLEAN]]
  /\ succ \in [Cases -> BOOLEAN]
  /\ th \in [Procs -> Thread]
  /\ crowded \subseteq Cases
  /\ last \in [Cases -> {"", "PASS", "NOT PASS"}]
------------------------------------------------------------------------------
\* Every function name holds the name of its own module at most: what the
\* example driver asks of case names.
NamesDisjoint ==
  /\ \A c \in Cases, k \in Kos : <<CaseName[c], k>> \in NameHas => k = KoOf(c)
  /\ \A j, k \in Kos : <<InitName[j], k>> \in NameHas => k = j

\* Moreover it holds that name, and tells the functions of a ko apart: no two
\* cases of a ko, nor a case and its init function, share one.
NamesApart ==
  /\ NamesDisjoint
  /\ \A c \in Cases : /\ <<CaseName[c], KoOf(c)>> \in NameHas
                      /\ CaseName[c] # InitName[KoOf(c)]
  /\ \A c, d \in Cases : KoOf(c) = KoOf(d) /\ CaseName[c] = CaseName[d] => c = d

Listed(k) == \E j \in DOMAIN caseList : caseList[j] = k

\* No call is inside a debugfs file of a case whose ko has been unloaded:
\* munit_write would run freed code and write to a freed case table.  Holds
\* because unregister_cases waits for every file before it lets rmmod go on.
NoUseAfterUnload ==
  \A p \in Procs, c \in Cases :
    (\E x \in Kinds : Inside(p, <<c, x>>)) => koState[KoOf(c)] # "absent"

\* munit_get_module_case_log uses the module and the case it found after
\* dropping the mutex.  While names are disjoint and the kernel runs, the module
\* is still registered then, and the case's ko still loaded.
NoDanglingModule ==
  NamesDisjoint /\ ~Panicked =>
    \A p \in Procs :
      /\ th[p].pc = "l_case" => Listed(th[p].mod)
      /\ th[p].pc \in {"l_len", "l_cat"} => koState[KoOf(th[p].dst)] # "absent"

\* A ko is on case_module at most once; while the kernel runs it is there exactly
\* from register_cases' list_add_tail to unregister_cases' list_del.  The mutex
\* is held exactly by a thread between unregister_cases' lock and unlock.
ListMatchesLoader ==
  /\ \A i, j \in DOMAIN caseList : caseList[i] = caseList[j] => i = j
  /\ ~Panicked => \A k \in Kos :
       Listed(k) <=> /\ koState[k] # "absent"
                     /\ \A p \in Procs : th[p].ko = k => th[p].pc # "r_add"
  /\ \A p \in Procs : mutex = p <=> th[p].pc \in {"u_fs", "u_drain"}

\* However registration went, the cases of a live ko that have files are a
\* prefix of its table, all three files each, and every one of them but the last
\* has a log: a failed kmalloc may hide cases but leaves none that cannot run,
\* the last one apart.
RegistrationIsPrefix ==
  \A k \in Kos : koState[k] = "live" =>
    LET tab == CaseTable[k]
    IN \E m \in 0 .. Len(tab) :
         /\ \A j \in 1 .. Len(tab), x \in Kinds : <<tab[j], x>> \in files <=> j <= m
         /\ \A j \in 1 .. m - 1 : log[tab[j]] # "null"
------------------------------------------------------------------------------
\* When no run of a case is going on and its latest run overlapped no other,
\* "res" shows the verdict its test function last returned, whole, and succ
\* agrees with it; before the first run both are empty.  (A run that panics the
\* kernel leaves no verdict, and nobody to read it.)
SoloVerdict ==
  ~Panicked => \A c \in Cases \ crowded :
    (\A p \in Procs : ~Running(p, c)) =>
      /\ Text(res[c]) = last[c]
      /\ succ[c] = (last[c] = "PASS")

\* The text in a log never outgrows its page, terminator included, unless runs of
\* the case overlap: the room computed before vsnprintf is still there at strncat.
LogFits ==
  NamesApart => \A c \in Cases \ crowded : log[c] = "text" => logLen[c] < PageSize

\* A run that overlaps no other run of its case records all that its test
\* function logged, up to the page: no LOG call is lost or lands elsewhere.
LogRecorded ==
  NamesApart =>
    \A p \in Procs :
      /\ th[p].pc = "w_succ"
      /\ th[p].f[1] \notin crowded
      => logLen[th[p].f[1]] = IF th[p].said < PageSize THEN th[p].said ELSE PageSize - 1

\* A read that no run of its case overlaps copies characters of the log or the
\* result only: the second strlen has not become less than *pos.
ReadWithinText ==
  NamesApart => \A p \in Procs :
    th[p].pc = "d_copy" /\ ~th[p].met => th[p].pos + th[p].n <= Strlen(th[p].f)
------------------------------------------------------------------------------
\* munit keeps the promise of CaseBoard.
CaseIn(p) == IF th[p].pc \in InPcs /\ th[p].f # None THEN th[p].f[1] ELSE None

Board == INSTANCE CaseBoard WITH
           up   <- {k \in Kos : koState[k] # "absent"},
           Owner <- [c \in Cases |-> KoOf(c)],
           open <- {f[1] : f \in files},
           in   <- [p \in Procs |-> CaseIn(p)]

\* Cases open only while their ko is loaded, and a ko is unloaded only when its
\* cases are closed and empty.
ImplementsBoard == Board!Spec
------------------------------------------------------------------------------
\* unregister_cases holds the mutex and waits for a call that waits for it.
Embraced ==
  \E p, q \in Procs :
    th[p].pc = "u_drain" /\ th[q].pc = "l_find" /\ th[q].f = th[p].rm

\* A system call of munit ends, unless the kernel panics, or an rmmod meets a
\* run that is about to log.
CallsEnd ==
  \A p \in Procs :
    []<>(th[p].pc = "idle" \/ Panicked \/ Embraced)

\* "-r: delete the module" (bt:157): an rmmod of a loaded case ko that has
\* begun ends with the ko gone, or in a panic.
RmmodReturns ==
  \A p \in Procs, k \in Kos :
    (th[p].pc = "u_lock" /\ th[p].ko = k) ~> (koState[k] = "absent" \/ Panicked)

==============================================================================
