------------------------------ MODULE MunitRunInv ------------------------------
(***************************************************************************)
(* The inductive invariant behind SoloVerdict, LogFits, LogRecorded,       *)
(* ReadWithinText and RegistrationIsPrefix: what a run that is alone has   *)
(* written so far, where it logs, what a read that no run meets relies on, *)
(* and how far registration has come.  It rests on IInv.                   *)
(***************************************************************************)
EXTENDS MunitInv

\* Running, by the case of the file only.
Busy(p, c) == th[p].pc \in RunPcs \cup LogPcs /\ th[p].f # None /\ th[p].f[1] = c

\* Two runs of a case that go on at a time make it crowded.
RunsApart ==
  \A c \in Cases \ crowded, p, q \in Procs : Busy(p, c) /\ Busy(q, c) => p = q

\* A system call has said nothing before its memset; a run is of a file that
\* takes one.
Fresh ==
  \A p \in Procs :
    /\ th[p].pc \in {"idle", "w_clear"} => th[p].said = 0
    /\ th[p].pc \in RunPcs \cup LogPcs /\ th[p].f # None => th[p].f[2] # "res"

\* Pages come in table order; past the memset a run has one, and so has a read
\* past its check.
PagesOK ==
  /\ \A p \in Procs : th[p].pc \in {"r_add", "r_fs", "r_log"} =>
       \A j \in DOMAIN CaseTable[th[p].ko] :
         j >= th[p].i => log[CaseTable[th[p].ko][j]] = "null"
  /\ \A p \in Procs, c \in Cases :
       Busy(p, c) /\ th[p].pc # "w_clear" => log[c] = "text"
  /\ \A p \in Procs : th[p].pc \in {"d_cnt", "d_copy"} /\ th[p].f[2] # "res" =>
       log[th[p].f[1]] # "null"

\* With names apart, a test function logs to its own case, and nobody else does.
OwnLog ==
  NamesApart => \A p \in Procs : th[p].pc \in {"l_len", "l_cat"} =>
    th[p].f # None /\ th[p].dst = th[p].f[1]

\* From the verdict returned to succ, from succ to res.
VerdictOf(c) ==
  /\ (\A p \in Procs : ~Busy(p, c)) =>
       /\ Text(res[c]) = last[c]
       /\ succ[c] = (last[c] = "PASS")
  /\ \A p \in Procs : Busy(p, c) =>
       /\ th[p].pc \in {"w_succ", "w_res"} => last[c] = Verdict(th[p].v)
       /\ th[p].pc = "w_res" => succ[c] = th[p].v
       /\ th[p].pc = "w_end" => last[c] = "PASS" /\ succ[c] = TRUE /\ res[c].head = "PASS"

VerdictsOK == ~Panicked => \A c \in Cases \ crowded : VerdictOf(c)

\* What the log holds once n characters have been logged.
Kept(n) == IF n < PageSize THEN n ELSE PageSize - 1

LogOf(p, c) ==
  /\ th[p].pc \in {"w_body", "w_succ"} => logLen[c] = Kept(th[p].said)
  /\ th[p].pc \in {"l_find", "l_case", "l_len"} =>
       th[p].n <= th[p].said /\ logLen[c] = Kept(th[p].said - th[p].n)
  /\ th[p].pc = "l_cat" => logLen[c] + th[p].n = Kept(th[p].said)

LogsOf(c) ==
  /\ log[c] = "text" => logLen[c] < PageSize
  /\ \A p \in Procs : Busy(p, c) => LogOf(p, c)

LogsOK == NamesApart => \A c \in Cases \ crowded : LogsOf(c)

\* What is read stays as long as no run of the case begins.
Unmet(p) == th[p].pc \in ReadPcs \cup {"d_next"} /\ ~th[p].met
ReadsOK ==
  /\ \A p, q \in Procs : Unmet(p) => ~Busy(q, th[p].f[1])
  /\ NamesApart => \A p \in Procs : Unmet(p) =>
       /\ th[p].pc = "d_cnt" => th[p].pos < Strlen(th[p].f)
       /\ th[p].pc = "d_copy" => th[p].pos + th[p].n <= Strlen(th[p].f)

RunInv == RunsApart /\ Fresh /\ PagesOK /\ OwnLog /\ VerdictsOK /\ LogsOK /\ ReadsOK
------------------------------------------------------------------------------
\* The first m cases of k have files, the others none; the first m have a page.
FilesUpTo(k, m) ==
  \A j \in DOMAIN CaseTable[k], x \in Kinds : <<CaseTable[k][j], x>> \in files <=> j <= m
PagesUpTo(k, m) == \A j \in DOMAIN CaseTable[k] : j <= m => log[CaseTable[k][j]] # "null"

\* Registration of k is over, well or not.
Settled(k) ==
  \/ koState[k] = "live"
  \/ \E p \in Procs : Registering(p, k) /\ th[p].pc \in {"r_func"} \cup LogPcs

RegInv ==
  /\ \A p \in Procs : th[p].pc = "r_add" => th[p].i = 1
  /\ \A p \in Procs : th[p].pc = "r_fs" =>
       /\ th[p].i <= Len(CaseTable[th[p].ko]) + 1
       /\ FilesUpTo(th[p].ko, th[p].i - 1) /\ PagesUpTo(th[p].ko, th[p].i - 1)
  /\ \A p \in Procs : th[p].pc = "r_log" =>
       FilesUpTo(th[p].ko, th[p].i) /\ PagesUpTo(th[p].ko, th[p].i - 1)
  /\ \A k \in Kos : Settled(k) =>
       \E m \in 0 .. Len(CaseTable[k]) : FilesUpTo(k, m) /\ PagesUpTo(k, m - 1)
==============================================================================
