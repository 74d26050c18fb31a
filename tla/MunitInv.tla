------------------------------- MODULE MunitInv -------------------------------
(***************************************************************************)
(* The inductive invariant behind NoUseAfterUnload, NoDanglingModule,      *)
(* ListMatchesLoader and the refinement of CaseBoard: who owns a ko that   *)
(* is coming or going, which files are still linked, where a call can be   *)
(* inside a file that is not, and which module a call logs to.             *)
(***************************************************************************)
EXTENDS MunitProps

RegPcs   == {"r_add", "r_fs", "r_log", "r_func"}
UnregPcs == {"u_lock", "u_fs", "u_drain"}

\* p is in insmod of k (which includes its init function's LOG), in rmmod of k.
Registering(p, k)   == th[p].ko = k /\ th[p].f = None /\ th[p].pc \in RegPcs \cup LogPcs
Unregistering(p, k) == th[p].ko = k /\ th[p].pc \in UnregPcs

\* The ko whose code p executes when it logs.
Home(p) == IF th[p].f # None THEN KoOf(th[p].f[1]) ELSE th[p].ko

\* The locals p relies on at each program counter.
LocalsOf(p) ==
  /\ th[p].i # 0
  /\ th[p].pc = "idle" => th[p].i = 1
  /\ th[p].pc \in RegPcs \cup UnregPcs \cup {"idle"} => th[p].f = None
  /\ th[p].pc \in RegPcs \cup UnregPcs => th[p].ko \in Kos
  /\ th[p].pc \in LogPcs /\ th[p].f = None => th[p].ko \in Kos
  /\ th[p].pc \in RunPcs \cup ReadPcs \cup {"d_next"} => th[p].f # None
  /\ th[p].pc = "r_log" => th[p].i \in DOMAIN CaseTable[th[p].ko]
  /\ th[p].pc = "l_case" => /\ th[p].mod # None
                            /\ NamesDisjoint => th[p].mod = Home(p)
  /\ th[p].pc \in {"l_len", "l_cat"} => /\ th[p].dst # None
                                        /\ NamesDisjoint => KoOf(th[p].dst) = Home(p)
  /\ th[p].pc = "u_drain" => /\ th[p].rm # None
                             /\ th[p].rm[1] \in CasesOf(th[p].ko)

LocalsOK == \A p \in Procs : LocalsOf(p)

\* A ko is coming or going on behalf of one thread.
OneOwner ==
  \A p \in Procs, k \in Kos :
    /\ Registering(p, k) => koState[k] = "coming"
    /\ Unregistering(p, k) => koState[k] = "going"
    /\ \A q \in Procs :
         /\ Registering(p, k) /\ Registering(q, k) => p = q
         /\ Unregistering(p, k) /\ Unregistering(q, k) => p = q

\* Linked files belong to kos that are in memory and on the list; rmmod has
\* unlinked the file it waits for and those of the cases it has passed.
FilesOK ==
  /\ \A f \in files :
       /\ koState[KoOf(f[1])] # "absent"
       /\ \A p \in Procs : th[p].pc = "r_add" => th[p].ko # KoOf(f[1])
  /\ \A p \in Procs : th[p].pc \in UnregPcs =>
       \A j \in DOMAIN CaseTable[th[p].ko], x \in Kinds :
         j < th[p].i => <<CaseTable[th[p].ko][j], x>> \notin files
  /\ \A p \in Procs : th[p].pc = "u_drain" => th[p].rm \notin files

\* A call is inside a file only while it is linked or being waited for.
Drained ==
  \A q \in Procs, f \in Files :
    Inside(q, f) => f \in files \/ \E p \in Procs : th[p].pc = "u_drain" /\ th[p].rm = f

IInv == TypeOK /\ LocalsOK /\ OneOwner /\ FilesOK /\ Drained /\ ListMatchesLoader

\* A step of p that neither enters nor leaves registration or removal, and enters
\* linked files only: most steps of runs, logging and reads.
Quiet(p) ==
  /\ UNCHANGED <<koState, caseList, mutex, files>>
  /\ ~Panicked
  /\ \A q \in Procs \ {p} :
       /\ th'[q].pc = th[q].pc /\ th'[q].ko = th[q].ko /\ th'[q].i = th[q].i
       /\ th'[q].f = th[q].f /\ th'[q].rm = th[q].rm
       /\ th'[q].mod = th[q].mod /\ th'[q].dst = th[q].dst
  /\ th[p].pc \notin UnregPcs \cup {"r_add"}
  /\ th'[p].pc \notin UnregPcs \cup {"r_add"}
  /\ \A k \in Kos : Registering(p, k)' => Registering(p, k)
  /\ \A f \in Files : Inside(p, f)' =>
       Inside(p, f) \/ (f \in files /\ th[p].pc \notin InPcs)
  /\ LocalsOf(p)'
==============================================================================
