---------------------------- MODULE OciCacheProofs ----------------------------
(***************************************************************************)
(* Proofs about the image cache: the types and what belongs to which name, *)
(* of any number of processes; then what holds of one oskit at a time.     *)
(***************************************************************************)
EXTENDS OciCacheInv, ListLemmas

(***************************************************************************)
(* Steps and entries                                                       *)
(***************************************************************************)

\* What a step carries.
LEMMA PlanParts ==
  ASSUME NEW x \in Plans
  PROVE  /\ x.do \in {"blob", "copy", "rm"} => x.d \in Blobs
         /\ x.do = "remove" => x.ref \in Refs
         /\ x.do \in {"append", "replace"} => x.e \in Listing
         /\ x.do = "index" => x.add \in Seq(Images)
         /\ x.do = "tag" => x.i \in Images /\ x.again \in BOOLEAN
BY DEF Plans

LEMMA PlanKinds ==
  ASSUME NEW x \in Plans
  PROVE  x.do \in {"init", "look", "fetch", "validate", "return", "push", "manifest", "clean",
                   "trunc", "data", "blob", "copy", "rm", "remove", "append", "replace", "index", "tag"}
BY DEF Plans

LEMMA PlansAre ==
  /\ \A w \in {"init", "look", "fetch", "validate", "return", "push", "manifest", "clean",
               "trunc", "data"} : Do(w) \in Plans /\ Do(w).do = w
  /\ \A d \in Blobs : Blob(d) \in Plans /\ [do |-> "copy", d |-> d] \in Plans
                        /\ [do |-> "rm", d |-> d] \in Plans
  /\ \A r \in Refs : Unlist(r) \in Plans
  /\ \A e \in Listing : AppendTo(e) \in Plans /\ Relist(e) \in Plans
  /\ \A s \in Seq(Images) : [do |-> "index", add |-> s] \in Plans
  /\ \A i \in Images, b \in BOOLEAN : [do |-> "tag", i |-> i, again |-> b] \in Plans
BY DEF Plans, Do, Blob, Unlist, AppendTo, Relist

LEMMA BlobsAre ==
  /\ \A i \in Images : Manifest(i) \in Blobs /\ Layers(i) \in Blobs
                         /\ Manifest(i)[1] = "manifest" /\ Layers(i)[1] = "layers"
  /\ \A s \in Seq(Images) : Index(s) \in Blobs /\ Index(s)[1] = "index" /\ Index(s)[2] = s
BY DEF Blobs, Manifest, Layers, Index

LEMMA ListingParts ==
  ASSUME NEW e \in Listing
  PROVE  /\ e.ref \in Refs /\ e.kind \in {"image", "index"}
         /\ e.kind = "image" => e.dig \in Images
         /\ e.kind = "index" => e.dig \in Seq(Images)
BY DEF Listing

LEMMA ContentParts ==
  ASSUME NEW c \in Contents
  PROVE  /\ c.kind \in {"image", "index"}
         /\ c.kind = "image" => c.dig \in Images /\ c = ImageOf(c.dig)
         /\ c.kind = "index" => c.dig \in Seq(Images) /\ c = IndexOf(c.dig)
BY DEF Contents, ImageOf, IndexOf

LEMMA ContentsAre ==
  /\ \A i \in Images : ImageOf(i) \in Contents
  /\ \A s \in Seq(Images) : IndexOf(s) \in Contents
  /\ Nothing \notin Contents
BY DEF Contents, ImageOf, IndexOf, Nothing

LEMMA EntryIs ==
  ASSUME NEW r \in Refs, NEW c \in Contents
  PROVE  /\ Entry(r, c) \in Listing /\ Entry(r, c).ref = r
         /\ Entry(r, c).kind = c.kind /\ Entry(r, c).dig = c.dig
BY ContentParts DEF Entry, Listing

LEMMA RefsAre ==
  /\ \A n \in Names : Ref(n) \in Refs /\ Ref(n)[1] = n /\ Ref(n)[2] = Plain
  /\ \A n \in Names, a \in Arches : Tag(n, a) \in Refs /\ Tag(n, a)[1] = n /\ Tag(n, a)[2] = a
                                      /\ a # Plain
  /\ \A r \in Refs : r[1] \in Names /\ r[2] \in Arches \cup {Plain} /\ r = <<r[1], r[2]>>
BY PlatAssumption DEF Ref, Refs, Tag

LEMMA EmptyLists == <<>> \in Seq(Plans) /\ <<>> \in Seq(Listing) /\ <<>> \in Seq(Images)
OBVIOUS

LEMMA FirstIs ==
  ASSUME NEW at \in SUBSET Nat, at # {}
  PROVE  First(at) \in at /\ \A h \in at : First(at) <= h
BY LeastOf DEF First

(***************************************************************************)
(* The steps of a command                                                  *)
(***************************************************************************)

\* Steps that may be put in the place of the first step of a command.
Fresh(steps, o) ==
  /\ \A k \in DOMAIN steps :
       /\ steps[k].do \in DoneBy(o.op)
       /\ StepFits(steps[k], o.ref[1])
       /\ steps[k].do \in {"init", "copy", "trunc"} => k = 1
       /\ steps[k].do = "trunc" => Len(steps) > 1 /\ steps[2].do = "data"
       /\ steps[k].do = "data" => k = 2 /\ steps[1].do = "trunc"
       /\ steps[k].do \in Closing => k = Len(steps) /\ o.todo[1].do \in Closing
  /\ o.todo[1].do = "trunc" => steps = <<>>

\* They leave the command in order.
LEMMA FreshFits ==
  ASSUME NEW o \in Jobs, JobFits(o), o.todo # <<>>,
         NEW steps \in Seq(Plans), Fresh(steps, o),
         NEW buf \in Seq(Listing), \A j \in DOMAIN buf : EntryFits(buf[j]),
         NEW got \in Contents \cup {Nothing}, o.op = "pull" => ContentFits(got, o.ref[1]),
         NEW w, w = [o EXCEPT !.todo = steps \o Tail(o.todo), !.buf = buf, !.got = got]
  PROVE  w \in Jobs /\ JobFits(w)
<1> DEFINE t == o.todo
<1>1. t \in Seq(Plans) /\ t # <<>>
  BY DEF Jobs
<1> HIDE DEF t
<1> DEFINE u == steps \o Tail(t)
           l == Len(steps)
<1>2. /\ u \in Seq(Plans) /\ Len(u) = l + Len(t) - 1
      /\ l \in Nat /\ Len(t) \in Nat \ {0}
      /\ DOMAIN steps = 1..l /\ DOMAIN t = 1..Len(t) /\ DOMAIN u = 1..(l + Len(t) - 1)
      /\ \A k \in 1..l : u[k] = steps[k]
      /\ \A k \in 2..Len(t) : u[l + k - 1] = t[k]
      /\ \A k \in 1..(l + Len(t) - 1) :
           IF k <= l THEN u[k] = steps[k]
           ELSE k - l + 1 \in 2..Len(t) /\ u[k] = t[k - l + 1]
  <2> DEFINE P == Plans
  <2>1. t \in Seq(P) /\ steps \in Seq(P) /\ t # <<>>
    BY <1>1
  <2> HIDE DEF P
  <2>2. /\ u \in Seq(P) /\ Len(u) = l + Len(t) - 1
        /\ l \in Nat /\ Len(t) \in Nat \ {0}
        /\ DOMAIN steps = 1..l /\ DOMAIN t = 1..Len(t) /\ DOMAIN u = 1..(l + Len(t) - 1)
        /\ \A k \in 1..l : u[k] = steps[k]
        /\ \A k \in 2..Len(t) : u[l + k - 1] = t[k]
        /\ \A k \in 1..(l + Len(t) - 1) :
             IF k <= l THEN u[k] = steps[k]
             ELSE k - l + 1 \in 2..Len(t) /\ u[k] = t[k - l + 1]
    BY <2>1, InPlaceOfHead, SMTT(30)
  <2> QED
    BY <2>2 DEF P
<1>3. w.op = o.op /\ w.ref = o.ref /\ w.arch = o.arch /\ w.ok = o.ok /\ w.todo = u /\ w.buf = buf /\ w.got = got
  BY DEF Jobs, t
<1>4. w \in Jobs
  BY <1>2, <1>3 DEF Jobs
<1> HIDE DEF u, t, l
<1>4a. l \in Nat /\ \A k \in 1..l : u[k] = steps[k]
  BY <1>2
<1>5. ASSUME NEW k \in DOMAIN u
      PROVE  /\ u[k].do \in DoneBy(o.op) /\ StepFits(u[k], o.ref[1])
             /\ u[k].do \in {"init", "copy", "trunc"} => k = 1
             /\ u[k].do = "trunc" => Len(u) > 1 /\ u[2].do = "data"
             /\ u[k].do = "data" => k = 1 \/ (k = 2 /\ u[1].do = "trunc")
             /\ u[k].do \in Closing => k = Len(u)
  <2>0. k \in 1..(l + Len(t) - 1)
    BY <1>2
  <2>1. CASE k <= l
    <3>1. k \in 1..l /\ k \in DOMAIN steps /\ u[k] = steps[k]
      BY <1>2, <2>0, <2>1
    <3>2. steps[k].do = "trunc" => l > 1 /\ u[2] = steps[2]
      <4>1. steps[k].do = "trunc" => l > 1
        BY <3>1 DEF Fresh, l
      <4> QED
        BY <1>2, <4>1
    <3>3. u[1] = steps[1]
      BY <1>4a, <3>1
    <3>4. ASSUME u[k].do \in Closing PROVE k = Len(u)
      <4>1. k = l /\ t[1].do \in Closing /\ 1 \in DOMAIN t
        BY <1>2, <3>1, <3>4 DEF Fresh, t, l
      <4>2. Len(t) = 1
        BY <4>1 DEF JobFits, Ordered, t
      <4> QED BY <1>2, <4>1, <4>2
    <3> QED
      BY <1>2, <3>1, <3>2, <3>3, <3>4 DEF Fresh
  <2>2. CASE ~(k <= l)
    <3> DEFINE h == k - l + 1
    <3>1. h \in 2..Len(t) /\ h \in DOMAIN t /\ u[k] = t[h]
      BY <1>2, <2>0, <2>2
    <3>2. /\ t[h].do \in DoneBy(o.op) /\ StepFits(t[h], o.ref[1])
          /\ t[h].do \in {"init", "copy", "trunc"} => h = 1
          /\ t[h].do = "data" => h = 1 \/ (h = 2 /\ t[1].do = "trunc")
          /\ t[h].do \in Closing => h = Len(t)
      BY <3>1 DEF JobFits, Ordered, t
    <3>3. t[h].do = "data" => l = 0 /\ k = 1
      BY <1>2, <3>1, <3>2 DEF Fresh, t, l
    <3>4. h = Len(t) => k = Len(u)
      BY <1>2, <2>0
    <3> QED
      BY <3>1, <3>2, <3>3, <3>4
  <2> QED
    BY <2>1, <2>2
<1>6. ~o.ok
  BY DEF JobFits, Ordered
<1>7. Ordered(w)
  BY <1>3, <1>5, <1>6 DEF JobFits, Ordered
<1> QED
  BY <1>3, <1>4, <1>5, <1>7 DEF JobFits

(***************************************************************************)
(* OciType and OwnInv, by the state they speak of                          *)
(***************************************************************************)
JobsFit == job \in [Procs -> Jobs] /\ \A p \in Procs : JobFits(job[p])

RootFits ==
  /\ root \in {NoRoot, Torn} \/ (root.es \in Seq(Listing) /\ root = Good(root.es))
  /\ \A j \in DOMAIN root.es : EntryFits(root.es[j])

BlobsFit == (\A d \in full \cup part : d \in Blobs) /\ full \cap part = {}

RemoteFits ==
  /\ remote \in [Refs -> Contents \cup {Nothing}]
  /\ \A r \in Refs :
       /\ ContentFits(remote[r], r[1])
       /\ r[2] # Plain /\ remote[r] # Nothing =>
            /\ remote[r].kind = "image"
            /\ PlatOf[remote[r].dig] # NoPlat /\ PlatOf[remote[r].dig].arch = r[2]

CountsFit == ops \in 0..MaxOps /\ faults \in 0..MaxFaults

Types == JobsFit /\ RootFits /\ BlobsFit /\ RemoteFits /\ CountsFit

LEMMA TypesAre == Types <=> OciType /\ OwnInv
BY DEF Types, JobsFit, RootFits, BlobsFit, RemoteFits, CountsFit, OciType, OwnInv

\* index.json in all its states is a list of entries.
LEMMA RootEntries ==
  ASSUME RootFits
  PROVE  root.es \in Seq(Listing) /\ (Readable <=> root = Good(root.es)) /\ root.is \in {"none", "torn", "good"}
         /\ (~Readable => root.es = <<>>)
<1>1. CASE root = NoRoot
  BY <1>1, EmptyLists DEF NoRoot, Readable, Good
<1>2. CASE root = Torn
  BY <1>2, EmptyLists DEF Torn, Readable, Good
<1>3. CASE root.es \in Seq(Listing) /\ root = Good(root.es)
  BY <1>3 DEF Good, Readable
<1> QED
  BY <1>1, <1>2, <1>3 DEF RootFits

LEMMA ThenFits ==
  ASSUME JobsFit, NEW p \in Procs, Todo(p) # <<>>,
         NEW steps \in Seq(Plans), Fresh(steps, job[p]), Then(p, steps)
  PROVE  /\ JobsFit'
         /\ Todo(p)' = steps \o Tail(Todo(p))
         /\ job'[p] = [job[p] EXCEPT !.todo = steps \o Tail(job[p].todo)]
         /\ \A q \in Procs : q # p => job'[q] = job[q]
<1> DEFINE w == [job[p] EXCEPT !.todo = steps \o Tail(job[p].todo)]
<1>1. job[p] \in Jobs /\ JobFits(job[p]) /\ job[p].todo # <<>>
  BY DEF JobsFit, Todo
<1>2. w = [job[p] EXCEPT !.todo = steps \o Tail(job[p].todo), !.buf = job[p].buf, !.got = job[p].got]
  BY <1>1 DEF Jobs
<1>3. /\ job[p].buf \in Seq(Listing) /\ \A j \in DOMAIN job[p].buf : EntryFits(job[p].buf[j])
      /\ job[p].got \in Contents \cup {Nothing}
      /\ job[p].op = "pull" => ContentFits(job[p].got, job[p].ref[1])
  BY <1>1 DEF Jobs, JobFits
<1>4. w \in Jobs /\ JobFits(w)
  <2> HIDE DEF w
  <2> QED BY <1>1, <1>2, <1>3, FreshFits
<1>5. job' = [job EXCEPT ![p] = w]
  BY DEF Then
<1>6. w.todo = steps \o Tail(job[p].todo)
  BY <1>1 DEF Jobs
<1> HIDE DEF w
<1>7. job'[p] = w /\ (\A q \in Procs : q # p => job'[q] = job[q]) /\ job' \in [Procs -> Jobs]
  BY <1>4, <1>5 DEF JobsFit
<1> QED
  BY <1>4, <1>6, <1>7 DEF JobsFit, Todo, w

\* A command that ends leaves nothing to do.
LEMMA ReturnFits ==
  ASSUME JobsFit, NEW p \in Procs, NEW ok \in BOOLEAN, Return(p, ok)
  PROVE  /\ JobsFit'
         /\ Todo(p)' = <<>>
         /\ job'[p] = [job[p] EXCEPT !.todo = <<>>, !.ok = ok]
         /\ \A q \in Procs : q # p => job'[q] = job[q]
<1> DEFINE w == [job[p] EXCEPT !.todo = <<>>, !.ok = ok]
<1>1. job[p] \in Jobs /\ JobFits(job[p])
  BY DEF JobsFit
<1>2. /\ w \in Jobs /\ w.todo = <<>> /\ w.op = job[p].op /\ w.ref = job[p].ref
      /\ w.arch = job[p].arch /\ w.buf = job[p].buf /\ w.got = job[p].got
  BY <1>1, EmptyLists DEF Jobs
<1>3. job' = [job EXCEPT ![p] = w]
  BY DEF Return
<1> HIDE DEF w
<1>4. JobFits(w)
  BY <1>1, <1>2 DEF JobFits, Ordered
<1>5. job'[p] = w /\ (\A q \in Procs : q # p => job'[q] = job[q]) /\ job' \in [Procs -> Jobs]
  BY <1>2, <1>3 DEF JobsFit
<1> QED
  BY <1>2, <1>4, <1>5 DEF JobsFit, Todo, w

\* A new index.json is in memory and about to be written.
LEMMA WriteRootFits ==
  ASSUME JobsFit, NEW p \in Procs, Todo(p) # <<>>, {"trunc", "data"} \subseteq DoneBy(job[p].op),
         job[p].todo[1].do # "trunc",
         NEW new \in Seq(Listing), \A j \in DOMAIN new : EntryFits(new[j]), WriteRoot(p, new)
  PROVE  /\ JobsFit'
         /\ Todo(p)' = <<Do("trunc"), Do("data")>> \o Tail(Todo(p))
         /\ job'[p] = [job[p] EXCEPT !.todo = <<Do("trunc"), Do("data")>> \o Tail(job[p].todo), !.buf = new]
         /\ \A q \in Procs : q # p => job'[q] = job[q]
<1> DEFINE steps == <<Do("trunc"), Do("data")>>
           w == [job[p] EXCEPT !.todo = steps \o Tail(job[p].todo), !.buf = new]
<1>1. job[p] \in Jobs /\ JobFits(job[p]) /\ job[p].todo # <<>>
  BY DEF JobsFit, Todo
<1>2. w = [job[p] EXCEPT !.todo = steps \o Tail(job[p].todo), !.buf = new, !.got = job[p].got]
  BY <1>1 DEF Jobs
<1>3. /\ job[p].got \in Contents \cup {Nothing}
      /\ job[p].op = "pull" => ContentFits(job[p].got, job[p].ref[1])
  BY <1>1 DEF Jobs, JobFits
<1>4. steps \in Seq(Plans) /\ Fresh(steps, job[p])
  <2>1. /\ steps \in Seq(Plans) /\ DOMAIN steps = 1..2 /\ Len(steps) = 2
        /\ steps[1].do = "trunc" /\ steps[2].do = "data"
    BY PlansAre DEF Do
  <2> HIDE DEF steps
  <2> QED BY <2>1 DEF Fresh, StepFits, Closing
<1>5. w \in Jobs /\ JobFits(w)
  <2> HIDE DEF w, steps
  <2> QED BY <1>1, <1>2, <1>3, <1>4, FreshFits
<1>6. job' = [job EXCEPT ![p] = w]
  BY DEF WriteRoot
<1>7. w.todo = steps \o Tail(job[p].todo)
  BY <1>1 DEF Jobs
<1> HIDE DEF w
<1>8. job'[p] = w /\ (\A q \in Procs : q # p => job'[q] = job[q]) /\ job' \in [Procs -> Jobs]
  BY <1>5, <1>6 DEF JobsFit
<1> QED
  BY <1>5, <1>7, <1>8 DEF JobsFit, Todo, w

(***************************************************************************)
(* A command begins                                                        *)
(***************************************************************************)
Starts(steps, op, n) ==
  \A k \in DOMAIN steps :
    /\ steps[k].do \in DoneBy(op) \ {"init", "copy", "trunc", "data"}
    /\ StepFits(steps[k], n)
    /\ steps[k].do \in Closing => k = Len(steps)

\* The steps of a command that has just begun.
FirstSteps(steps) == IF root = NoRoot THEN <<Do("init")>> \o steps ELSE steps

LEMMA FirstStepsAre ==
  ASSUME NEW steps \in Seq(Plans)
  PROVE  /\ FirstSteps(steps) \in Seq(Plans)
         /\ root # NoRoot => FirstSteps(steps) = steps
         /\ root = NoRoot => /\ Len(FirstSteps(steps)) = Len(steps) + 1
                             /\ FirstSteps(steps)[1] = Do("init")
                             /\ \A k \in 1..Len(steps) : FirstSteps(steps)[k + 1] = steps[k]
         /\ \A k \in DOMAIN FirstSteps(steps) :
              \/ k = 1 /\ FirstSteps(steps)[k] = Do("init")
              \/ \E j \in DOMAIN steps : /\ FirstSteps(steps)[k] = steps[j]
                                         /\ j = Len(steps) => k = Len(FirstSteps(steps))
<1> DEFINE P == Plans
           h == Do("init")
<1>1. h \in P /\ steps \in Seq(P)
  BY PlansAre
<1> HIDE DEF P, h
<1>2. /\ <<h>> \o steps \in Seq(P) /\ Len(steps) \in Nat
      /\ Len(<<h>> \o steps) = Len(steps) + 1
      /\ (<<h>> \o steps)[1] = h
      /\ \A k \in 1..Len(steps) : (<<h>> \o steps)[k + 1] = steps[k]
      /\ \A k \in 1..(Len(steps) + 1) : k = 1 \/ k - 1 \in 1..Len(steps)
      /\ \A k \in 1..(Len(steps) + 1) : k - 1 = Len(steps) => k = Len(<<h>> \o steps)
      /\ \A k \in 1..(Len(steps) + 1) : k = 1 \/ (<<h>> \o steps)[k] = steps[k - 1]
      /\ DOMAIN (<<h>> \o steps) = 1..(Len(steps) + 1) /\ DOMAIN steps = 1..Len(steps)
  BY <1>1
<1>3. \A k \in DOMAIN (<<h>> \o steps) :
         \/ k = 1 /\ (<<h>> \o steps)[k] = h
         \/ \E j \in DOMAIN steps : /\ (<<h>> \o steps)[k] = steps[j]
                                    /\ j = Len(steps) => k = Len(<<h>> \o steps)
  BY <1>2
<1>4. \A k \in DOMAIN steps : \E j \in DOMAIN steps : steps[k] = steps[j] /\ (j = Len(steps) => k = Len(steps))
  OBVIOUS
<1> QED
  BY <1>1, <1>2, <1>3, <1>4 DEF FirstSteps, P, h

LEMMA BeginFits ==
  ASSUME JobsFit, NEW p \in Procs, NEW op \in Ops \ {"idle", "clean"},
         NEW r \in Refs, op # "load" => \E n \in Names : r = Ref(n),
         NEW a \in Arches \cup {Plain}, op = "pull" => a \in Arches,
         NEW steps \in Seq(Plans), Starts(steps, op, r[1]),
         Begin(p, op, r, a, steps)
  PROVE  /\ JobsFit'
         /\ Todo(p) = <<>> /\ Todo(p)' = FirstSteps(steps)
         /\ job'[p] = [Idle EXCEPT !.op = op, !.ref = r, !.arch = a, !.todo = FirstSteps(steps)]
         /\ \A q \in Procs : q # p => job'[q] = job[q]
         /\ UNCHANGED <<disk, remote, faults>> /\ ops' = ops + 1 /\ ops < MaxOps
<1> DEFINE w == [Idle EXCEPT !.op = op, !.ref = r, !.arch = a, !.todo = FirstSteps(steps)]
<1>1. job' = [job EXCEPT ![p] = w] /\ Todo(p) = <<>>
  BY DEF Begin, FirstSteps
<1>2. /\ w.op = op /\ w.ref = r /\ w.arch = a /\ w.todo = FirstSteps(steps) /\ w.buf = <<>>
      /\ w.got = Nothing /\ w.ok = FALSE
  BY DEF Idle
<1>3. FirstSteps(steps) \in Seq(Plans)
  BY FirstStepsAre
<1>4. w \in Jobs
  <2>1. Idle \in Jobs
    BY EmptyLists DEF Idle, Jobs, Ops
  <2> QED
    BY <1>3, <2>1 DEF Jobs
<1>5. \A k \in DOMAIN w.todo :
        /\ w.todo[k].do \in DoneBy(op) \ {"copy", "trunc", "data"}
        /\ w.todo[k].do = "init" => k = 1
        /\ StepFits(w.todo[k], r[1])
        /\ w.todo[k].do \in Closing => k = Len(w.todo)
  <2> SUFFICES ASSUME NEW k \in DOMAIN w.todo
               PROVE  /\ w.todo[k].do \in DoneBy(op) \ {"copy", "trunc", "data"}
                      /\ w.todo[k].do = "init" => k = 1
                      /\ StepFits(w.todo[k], r[1])
                      /\ w.todo[k].do \in Closing => k = Len(w.todo)
    OBVIOUS
  <2>1. CASE k = 1 /\ w.todo[k] = Do("init")
    BY <2>1 DEF Do, StepFits, DoneBy, Ops, Closing
  <2>2. CASE \E j \in DOMAIN steps : w.todo[k] = steps[j] /\ (j = Len(steps) => k = Len(w.todo))
    BY <2>2 DEF Starts
  <2> QED
    BY <1>2, <2>1, <2>2, FirstStepsAre
<1>6. ContentFits(Nothing, r[1])
  BY DEF ContentFits, Nothing
<1> HIDE DEF w
<1>7. Ordered(w)
  BY <1>2, <1>5 DEF Ordered
<1>8. JobFits(w)
  BY <1>2, <1>5, <1>6, <1>7 DEF JobFits
<1>9. job'[p] = w /\ (\A q \in Procs : q # p => job'[q] = job[q]) /\ job' \in [Procs -> Jobs]
  BY <1>1, <1>4 DEF JobsFit
<1>10. JobsFit' /\ Todo(p)' = FirstSteps(steps)
  BY <1>2, <1>8, <1>9 DEF JobsFit, Todo
<1> QED
  BY <1>1, <1>9, <1>10 DEF w, Begin

(***************************************************************************)
(* IndexWrite merges the new images into the old index                     *)
(***************************************************************************)
LEMMA NewForIs ==
  ASSUME NEW add \in Seq(Images), NEW k \in Keys(add)
  PROVE  \E j \in DOMAIN add :
           /\ NewFor(add, k) = add[j] /\ Key(add[j]) = k
           /\ \A h \in DOMAIN add : h > j => Key(add[h]) # k
<1> DEFINE l == Len(add)
           S == {l - j : j \in {h \in 1..l : Key(add[h]) = k}}
<1>1. l \in Nat /\ DOMAIN add = 1..l
  OBVIOUS
<1>2. \E j \in 1..l : Key(add[j]) = k
  BY <1>1 DEF Keys, ToSet
<1> HIDE DEF l
<1>3. S # {} /\ S \in SUBSET Nat
  BY <1>1, <1>2
<1>4. PICK n \in S : \A m \in S : n <= m
  BY <1>3, LeastOf
<1>5. PICK j \in 1..l : Key(add[j]) = k /\ n = l - j
  BY <1>4
<1>6. ASSUME NEW h \in 1..l, h > j PROVE Key(add[h]) # k
  <2> SUFFICES ASSUME Key(add[h]) = k PROVE FALSE
    OBVIOUS
  <2>1. l - h \in S
    OBVIOUS
  <2>2. l - j <= l - h
    BY <1>4, <1>5, <2>1
  <2> QED
    BY <1>1, <1>6, <2>2
<1> HIDE DEF S
<1>7. \E i \in DOMAIN add : Key(add[i]) = k /\ \A h \in DOMAIN add : h > i => Key(add[h]) # k
  BY <1>1, <1>5, <1>6
<1> QED
  BY <1>7 DEF NewFor

\* Each old position holds what it held or the new image for its key, and each new
\* key that the old index lacks has one position after them.
Merges(old, add, new, ks) ==
  /\ ks \in Seq(Left(old, add))
  /\ \A k \in Left(old, add) : \E j \in 1..Len(ks) : ks[j] = k
  /\ \A i, j \in 1..Len(ks) : ks[i] = ks[j] => i = j
  /\ Len(new) = Len(old) + Len(ks)
  /\ \A j \in 1..Len(old) : new[j] = Replaced(old, add)[j]
  /\ \A j \in 1..Len(ks) : new[Len(old) + j] = NewFor(add, ks[j])

LEMMA ReplacedIs ==
  ASSUME NEW old \in Seq(Images), NEW add \in Seq(Images)
  PROVE  /\ Replaced(old, add) \in Seq(Images) /\ Len(Replaced(old, add)) = Len(old)
         /\ \A j \in 1..Len(old) :
              Replaced(old, add)[j] =
                IF /\ PlatOf[old[j]] # NoPlat
                   /\ Key(old[j]) \in Keys(add)
                   /\ \A h \in 1..(j - 1) : PlatOf[old[h]] # NoPlat => Key(old[h]) # Key(old[j])
                THEN NewFor(add, Key(old[j])) ELSE old[j]
<1>1. DOMAIN old = 1..Len(old) /\ Len(old) \in Nat
  OBVIOUS
<1>2. \A j \in 1..Len(old) : Key(old[j]) \in Keys(add) => NewFor(add, Key(old[j])) \in Images
  <2> SUFFICES ASSUME NEW j \in 1..Len(old), Key(old[j]) \in Keys(add)
               PROVE  NewFor(add, Key(old[j])) \in Images
    OBVIOUS
  <2>1. PICK h \in DOMAIN add : NewFor(add, Key(old[j])) = add[h]
    BY NewForIs
  <2> QED
    BY <2>1
<1>3. Replaced(old, add) \in [1..Len(old) -> Images]
  BY <1>1, <1>2 DEF Replaced
<1> QED
  BY <1>1, <1>3 DEF Replaced

LEMMA MergedIs ==
  ASSUME NEW old \in Seq(Images), NEW add \in Seq(Images),
         \A i \in ToSet(add) : PlatOf[i] # NoPlat,
         NEW new \in Merged(old, add)
  PROVE  new \in Seq(Images) /\ \E ks : Merges(old, add, new, ks)
<1>1. IsFiniteSet(Left(old, add))
  <2>1. \A i \in ToSet(add) : i \in Images
    BY DEF ToSet
  <2>2. Left(old, add) \subseteq Arches
    BY <2>1, PlatAssumption DEF Left, Keys, Key
  <2> QED
    BY <2>2, PlatAssumption, FS_Subset
<1>2. PICK ks \in SetToSeqs(Left(old, add)) :
        new = Replaced(old, add) \o [j \in DOMAIN ks |-> NewFor(add, ks[j])]
  BY DEF Merged
<1>3. /\ ks \in Seq(Left(old, add)) /\ DOMAIN ks = 1..Len(ks)
      /\ \A k \in Left(old, add) : \E j \in DOMAIN ks : ks[j] = k
      /\ \A i, j \in DOMAIN ks : ks[i] = ks[j] => i = j
  BY <1>1, SetToSeqsIs
<1> DEFINE tail == [j \in DOMAIN ks |-> NewFor(add, ks[j])]
<1>4. \A j \in 1..Len(ks) : NewFor(add, ks[j]) \in Images
  <2> SUFFICES ASSUME NEW j \in 1..Len(ks) PROVE NewFor(add, ks[j]) \in Images
    OBVIOUS
  <2>1. ks[j] \in Keys(add)
    BY <1>3 DEF Left
  <2>2. PICK h \in DOMAIN add : NewFor(add, ks[j]) = add[h]
    BY <2>1, NewForIs
  <2> QED
    BY <2>2
<1>5. Len(ks) \in Nat
  BY <1>3
<1>6. tail \in Seq(Images) /\ Len(tail) = Len(ks) /\ \A j \in 1..Len(ks) : tail[j] = NewFor(add, ks[j])
  BY <1>3, <1>4, <1>5
<1>7. new = Replaced(old, add) \o tail
  BY <1>2
<1> HIDE DEF tail
<1>8. /\ new \in Seq(Images) /\ Len(new) = Len(old) + Len(ks)
      /\ \A j \in 1..Len(old) : new[j] = Replaced(old, add)[j]
      /\ \A j \in 1..Len(ks) : new[Len(old) + j] = NewFor(add, ks[j])
  <2> DEFINE r == Replaced(old, add)
  <2>1. r \in Seq(Images) /\ Len(r) = Len(old) /\ Len(old) \in Nat
    BY ReplacedIs
  <2> HIDE DEF r
  <2>2. new = r \o tail
    BY <1>7 DEF r
  <2>3. \A j \in 1..Len(ks) : (r \o tail)[Len(old) + j] = tail[j]
    BY <1>5, <1>6, <2>1
  <2>4. /\ new \in Seq(Images) /\ Len(new) = Len(old) + Len(ks)
        /\ \A j \in 1..Len(old) : new[j] = r[j]
    BY <1>5, <1>6, <2>1, <2>2
  <2> QED
    BY <1>6, <2>2, <2>3, <2>4 DEF r
<1>9. /\ \A k \in Left(old, add) : \E j \in 1..Len(ks) : ks[j] = k
      /\ \A i, j \in 1..Len(ks) : ks[i] = ks[j] => i = j
  BY <1>3
<1>10. Merges(old, add, new, ks)
  BY <1>3, <1>8, <1>9 DEF Merges
<1> QED
  BY <1>8, <1>10

\* A merged index has only the old and the new images.
LEMMA MergedFrom ==
  ASSUME NEW old \in Seq(Images), NEW add \in Seq(Images),
         \A i \in ToSet(add) : PlatOf[i] # NoPlat,
         NEW new \in Merged(old, add)
  PROVE  /\ new \in Seq(Images)
         /\ ToSet(new) \subseteq ToSet(old) \cup ToSet(add)
         /\ add # <<>> => new # <<>>
<1>1. PICK ks : new \in Seq(Images) /\ Merges(old, add, new, ks)
  BY MergedIs
<1>2. Len(ks) \in Nat /\ Len(old) \in Nat /\ DOMAIN new = 1..Len(new) /\ DOMAIN old = 1..Len(old)
  BY <1>1 DEF Merges
<1>3. \A k \in Keys(add) : NewFor(add, k) \in ToSet(add)
  <2> SUFFICES ASSUME NEW k \in Keys(add) PROVE NewFor(add, k) \in ToSet(add)
    OBVIOUS
  <2> QED
    BY NewForIs DEF ToSet
<1>4. ASSUME NEW j \in 1..Len(new) PROVE new[j] \in ToSet(old) \cup ToSet(add)
  <2>1. CASE j <= Len(old)
    <3>1. j \in 1..Len(old)
      BY <1>1, <1>2, <2>1
    <3>2. new[j] = Replaced(old, add)[j]
      BY <1>1, <3>1 DEF Merges
    <3> QED
      BY <1>2, <1>3, <3>1, <3>2, ReplacedIs DEF ToSet
  <2>2. CASE ~(j <= Len(old))
    <3>1. j - Len(old) \in 1..Len(ks) /\ Len(old) + (j - Len(old)) = j
      BY <1>1, <1>2, <2>2 DEF Merges
    <3>2. new[j] = NewFor(add, ks[j - Len(old)]) /\ ks[j - Len(old)] \in Keys(add)
      BY <1>1, <3>1 DEF Merges, Left
    <3> QED
      BY <1>3, <3>2
  <2> QED
    BY <2>1, <2>2
<1>5. ToSet(new) \subseteq ToSet(old) \cup ToSet(add)
  BY <1>2, <1>4 DEF ToSet
<1>6. ASSUME add # <<>>, new = <<>> PROVE FALSE
  <2>1. old = <<>> /\ Len(ks) = 0
    BY <1>1, <1>2, <1>6 DEF Merges
  <2>2. Key(add[1]) \in Keys(add)
    BY <1>6 DEF Keys, ToSet
  <2>3. ToSet(old) = {}
    BY <2>1 DEF ToSet
  <2>4. Key(add[1]) \in Left(old, add)
    BY <2>2, <2>3 DEF Left
  <2> QED
    BY <1>1, <2>1, <2>4 DEF Merges
<1> QED
  BY <1>1, <1>5, <1>6

(***************************************************************************)
(* Every step keeps the types, and what belongs to which name              *)
(***************************************************************************)

\* The command of a process that is at a step.
LEMMA AtIs ==
  ASSUME JobsFit, NEW p \in Procs, NEW what, At(p, what)
  PROVE  /\ Todo(p) # <<>> /\ Todo(p) \in Seq(Plans) /\ Todo(p) = job[p].todo
         /\ Now(p) \in Plans /\ Now(p) = Todo(p)[1] /\ Now(p).do = what
         /\ what \in DoneBy(job[p].op) /\ StepFits(Now(p), job[p].ref[1])
         /\ job[p] \in Jobs /\ JobFits(job[p]) /\ job[p].op \in Ops
<1>1. job[p] \in Jobs /\ JobFits(job[p]) /\ Todo(p) = job[p].todo
  BY DEF JobsFit, Todo
<1>2. Todo(p) \in Seq(Plans) /\ Todo(p) # <<>> /\ job[p].op \in Ops
  BY <1>1 DEF Jobs, At
<1>3. Now(p) = Todo(p)[1] /\ Now(p) \in Plans /\ 1 \in DOMAIN Todo(p)
  <2> DEFINE P == Plans
  <2>1. Todo(p) \in Seq(P) /\ Todo(p) # <<>>
    BY <1>2
  <2> HIDE DEF P
  <2>2. Now(p) = Todo(p)[1] /\ Now(p) \in P /\ 1 \in DOMAIN Todo(p)
    BY <2>1 DEF Now
  <2> QED
    BY <2>2 DEF P
<1>4. Now(p).do = what
  BY DEF At, Now
<1> QED
  BY <1>1, <1>2, <1>3, <1>4 DEF JobFits, Ordered

\* Commands that change index.json are at work on a reference.
LEMMA RefIs ==
  ASSUME NEW o \in Jobs, JobFits(o), o.op \notin {"idle", "clean"}
  PROVE  /\ o.ref \in Refs /\ o.ref[1] \in Names
         /\ o.op # "load" => o.ref = Ref(o.ref[1])
<1>1. o.op \in {"pull", "load", "index", "descriptor", "push"}
  BY DEF Jobs, Ops
<1> QED
  BY <1>1, RefsAre DEF JobFits, Ordered

LEMMA RefAt ==
  ASSUME JobsFit, NEW p \in Procs, NEW what, At(p, what), what # "clean"
  PROVE  /\ job[p].ref \in Refs /\ job[p].ref[1] \in Names
         /\ job[p].op # "load" => job[p].ref = Ref(job[p].ref[1])
<1>1. job[p].op \notin {"idle", "clean"}
  BY AtIs DEF DoneBy
<1> QED
  BY <1>1, AtIs, RefIs

\* Only the jobs change.
LEMMA QuietTypes ==
  ASSUME Types, JobsFit', UNCHANGED <<disk, remote, faults>>, ops' = ops \/ (ops' = ops + 1 /\ ops < MaxOps)
  PROVE  Types'
<1>1. RootFits' /\ BlobsFit' /\ RemoteFits'
  BY DEF Types, RootFits, BlobsFit, RemoteFits, disk
<1>2. CountsFit'
  BY InputAssumption DEF Types, CountsFit
<1> QED
  BY <1>1, <1>2 DEF Types

LEMMA OfKindIs ==
  ASSUME NEW es \in Seq(Listing), NEW r, NEW k
  PROVE  /\ Named(es, r) \subseteq DOMAIN es /\ Named(es, r) \in SUBSET Nat
         /\ OfKind(es, r, k) \subseteq Named(es, r) /\ OfKind(es, r, k) \in SUBSET Nat
         /\ OfKind(es, r, k) # {} =>
              /\ First(OfKind(es, r, k)) \in DOMAIN es
              /\ es[First(OfKind(es, r, k))] \in Listing
              /\ es[First(OfKind(es, r, k))].ref = r /\ es[First(OfKind(es, r, k))].kind = k
<1>1. DOMAIN es \in SUBSET Nat
  OBVIOUS
<1>2. /\ Named(es, r) \subseteq DOMAIN es /\ OfKind(es, r, k) \subseteq Named(es, r)
      /\ \A j \in OfKind(es, r, k) : es[j].ref = r /\ es[j].kind = k
  BY DEF Named, OfKind
<1>3. OfKind(es, r, k) # {} => First(OfKind(es, r, k)) \in OfKind(es, r, k)
  BY <1>1, <1>2, FirstIs
<1> QED
  BY <1>1, <1>2, <1>3

\* FindRoot finds an entry, an image before an index.
LEMMA FindRootIs ==
  ASSUME RootFits, NEW r
  PROVE  \/ FindRoot(r) = Nothing
         \/ /\ FindRoot(r) \in Contents /\ FindRoot(r) # Nothing /\ Readable
            /\ \E j \in DOMAIN root.es :
                 /\ root.es[j] \in Listing /\ root.es[j].ref = r
                 /\ root.es[j].kind = FindRoot(r).kind /\ root.es[j].dig = FindRoot(r).dig
                 /\ j = First(OfKind(root.es, r, FindRoot(r).kind)) /\ OfKind(root.es, r, FindRoot(r).kind) # {}
                 /\ root.es[j].kind = "index" => OfKind(root.es, r, "image") = {} /\ IndexesReadable(r)
<1> DEFINE es == root.es
           im == OfKind(es, r, "image")
           ix == OfKind(es, r, "index")
<1>1. es \in Seq(Listing)
  BY RootEntries
<1>2. CASE Readable /\ im # {}
  <2>1. FindRoot(r) = ImageOf(es[First(im)].dig)
    BY <1>2 DEF FindRoot
  <2>2. First(im) \in DOMAIN es /\ es[First(im)] \in Listing /\ es[First(im)].ref = r /\ es[First(im)].kind = "image"
    BY <1>1, <1>2, OfKindIs
  <2> HIDE DEF im, es
  <2>3. FindRoot(r).kind = "image" /\ FindRoot(r).dig = es[First(im)].dig
    BY <2>1 DEF ImageOf
  <2>4. FindRoot(r) \in Contents /\ FindRoot(r) # Nothing
    BY <2>1, <2>2, ListingParts, ContentsAre
  <2> QED
    BY <1>2, <2>2, <2>3, <2>4 DEF im, es
<1>3. CASE Readable /\ im = {} /\ ix # {} /\ IndexesReadable(r)
  <2>1. FindRoot(r) = IndexOf(es[First(ix)].dig)
    BY <1>3 DEF FindRoot
  <2>2. First(ix) \in DOMAIN es /\ es[First(ix)] \in Listing /\ es[First(ix)].ref = r /\ es[First(ix)].kind = "index"
    BY <1>1, <1>3, OfKindIs
  <2> HIDE DEF im, ix, es
  <2>3. FindRoot(r).kind = "index" /\ FindRoot(r).dig = es[First(ix)].dig
    BY <2>1 DEF IndexOf
  <2>4. FindRoot(r) \in Contents /\ FindRoot(r) # Nothing
    BY <2>1, <2>2, ListingParts, ContentsAre
  <2> QED
    BY <1>3, <2>2, <2>3, <2>4 DEF im, ix, es
<1>4. CASE ~Readable \/ (im = {} /\ ~(ix # {} /\ IndexesReadable(r)))
  BY <1>4 DEF FindRoot
<1> QED
  BY <1>2, <1>3, <1>4

\* The steps that each command begins with.
LEMMA WriteImageIs ==
  ASSUME NEW i \in Images
  PROVE  /\ WriteImage(i) \in Seq(Plans) /\ Len(WriteImage(i)) = 2 /\ DOMAIN WriteImage(i) = 1..2
         /\ WriteImage(i)[1] = Blob(Layers(i)) /\ WriteImage(i)[2] = Blob(Manifest(i))
         /\ Reverse(WriteImage(i)) = <<Blob(Manifest(i)), Blob(Layers(i))>>
         /\ Reverse(WriteImage(i)) \in Seq(Plans)
<1>1. Blob(Layers(i)) \in Plans /\ Blob(Manifest(i)) \in Plans
  BY PlansAre, BlobsAre
<1>2. /\ WriteImage(i) \in Seq(Plans) /\ Len(WriteImage(i)) = 2 /\ DOMAIN WriteImage(i) = 1..2
      /\ WriteImage(i)[1] = Blob(Layers(i)) /\ WriteImage(i)[2] = Blob(Manifest(i))
  BY <1>1 DEF WriteImage
<1>3. Reverse(WriteImage(i)) = <<Blob(Manifest(i)), Blob(Layers(i))>>
  BY <1>2 DEF Reverse
<1> QED
  BY <1>1, <1>2, <1>3

\* What the steps of a command must be, one by one.
LEMMA StepsAre ==
  ASSUME NEW n
  PROVE  /\ \A w \in {"init", "look", "fetch", "validate", "return", "push", "manifest", "clean",
                      "trunc", "data"} : StepFits(Do(w), n) /\ Do(w).do = w
         /\ \A i \in Images : /\ StepFits(Blob(Layers(i)), n) /\ StepFits(Blob(Manifest(i)), n)
                              /\ Blob(Layers(i)).do = "blob" /\ Blob(Manifest(i)).do = "blob"
         /\ \A r : Unlist(r).do = "remove" /\ Unlist(r).ref = r
         /\ \A r : r[1] = n => StepFits(Unlist(r), n)
         /\ \A e : /\ AppendTo(e).do = "append" /\ AppendTo(e).e = e
                   /\ Relist(e).do = "replace" /\ Relist(e).e = e
         /\ \A e : e.ref[1] = n /\ EntryFits(e) => StepFits(AppendTo(e), n) /\ StepFits(Relist(e), n)
         /\ \A s : Fits(s, n) => StepFits([do |-> "index", add |-> s], n)
         /\ \A s \in Seq(Images) : s # <<>> /\ Fits(s, n) =>
              StepFits(Blob(Index(s)), n) /\ StepFits([do |-> "rm", d |-> Index(s)], n)
<1>1. \A i \in Images : StepFits(Blob(Layers(i)), n) /\ StepFits(Blob(Manifest(i)), n)
  BY BlobsAre DEF StepFits, Blob
<1>2. \A s \in Seq(Images) : s # <<>> /\ Fits(s, n) =>
              StepFits(Blob(Index(s)), n) /\ StepFits([do |-> "rm", d |-> Index(s)], n)
  BY BlobsAre DEF StepFits, Blob
<1> QED
  BY <1>1, <1>2 DEF StepFits, Do, Blob, Unlist, AppendTo, Relist

LEMMA LoadsAre ==
  ASSUME NEW n \in Names, NEW i \in Loads[n]
  PROVE  /\ i \in Images /\ i \in ImagesOf(n)
         /\ PlatOf[i] # NoPlat => PlatOf[i].arch \in Arches
BY PlatAssumption, InputAssumption DEF ImagesOf

LEMMA PullBegins ==
  ASSUME Types, NEW p \in Procs, BeginPull(p)
  PROVE  /\ Types'
         /\ \E n \in Names, a \in Arches, steps \in {<<Do("fetch")>>, <<Do("look"), Do("fetch")>>} :
              Begin(p, "pull", Ref(n), a, steps)
<1>1. PICK n \in Names, a \in Arches, always \in BOOLEAN :
        Begin(p, "pull", Ref(n), a, IF always THEN <<Do("fetch")>> ELSE <<Do("look"), Do("fetch")>>)
  BY DEF BeginPull
<1>2. PICK steps \in {<<Do("fetch")>>, <<Do("look"), Do("fetch")>>} : Begin(p, "pull", Ref(n), a, steps)
  BY <1>1
<1>3. Do("fetch") \in Plans /\ Do("look") \in Plans
  BY PlansAre
<1>4. /\ steps \in Seq(Plans) /\ \A k \in DOMAIN steps : steps[k] \in {Do("fetch"), Do("look")}
      /\ \A k \in DOMAIN steps : steps[k] = Do("look") \/ k = Len(steps)
  <2>1. CASE steps = <<Do("fetch")>>
    BY <1>3, <2>1, Tuples
  <2>2. CASE steps = <<Do("look"), Do("fetch")>>
    BY <1>3, <2>2, Tuples
  <2> QED BY <2>1, <2>2
<1>5. Starts(steps, "pull", n)
  BY <1>4, StepsAre DEF Starts, DoneBy, Closing
<1>6. "pull" \in Ops \ {"idle", "clean"}
  BY DEF Ops
<1>7. JobsFit' /\ UNCHANGED <<disk, remote, faults>> /\ ops' = ops + 1 /\ ops < MaxOps
  <2>1. Ref(n) \in Refs /\ Ref(n)[1] = n
    BY RefsAre
  <2>2. JobsFit'
    BY <1>2, <1>4, <1>5, <1>6, <2>1, BeginFits DEF Types
  <2> QED
    BY <1>2, <2>2 DEF Begin, Types
<1> QED
  BY <1>2, <1>7, QuietTypes

LEMMA LoadBegins ==
  ASSUME Types, NEW p \in Procs, BeginLoad(p)
  PROVE  /\ Types'
         /\ \E n \in Names : \E i \in Loads[n] : \E bs \in {WriteImage(i), Reverse(WriteImage(i))} :
              /\ PlatOf[i] # NoPlat
              /\ LET r == Tag(n, PlatOf[i].arch) IN
                 Begin(p, "load", r, PlatOf[i].arch,
                       bs \o <<Unlist(r), AppendTo(Entry(r, ImageOf(i))), Do("return")>>)
<1>1. PICK n \in Names : \E i \in Loads[n] : \E bs \in {WriteImage(i), Reverse(WriteImage(i))} :
        /\ PlatOf[i] # NoPlat
        /\ LET r == Tag(n, PlatOf[i].arch) IN
           Begin(p, "load", r, PlatOf[i].arch,
                 bs \o <<Unlist(r), AppendTo(Entry(r, ImageOf(i))), Do("return")>>)
  BY DEF BeginLoad
<1>2. PICK i \in Loads[n] : \E bs \in {WriteImage(i), Reverse(WriteImage(i))} :
        /\ PlatOf[i] # NoPlat
        /\ LET r == Tag(n, PlatOf[i].arch) IN
           Begin(p, "load", r, PlatOf[i].arch,
                 bs \o <<Unlist(r), AppendTo(Entry(r, ImageOf(i))), Do("return")>>)
  BY <1>1
<1> DEFINE r == Tag(n, PlatOf[i].arch)
           e == Entry(r, ImageOf(i))
           end == <<Unlist(r), AppendTo(e), Do("return")>>
<1>3. PICK bs \in {WriteImage(i), Reverse(WriteImage(i))} :
        PlatOf[i] # NoPlat /\ Begin(p, "load", r, PlatOf[i].arch, bs \o end)
  BY <1>2
<1>4. i \in Images /\ i \in ImagesOf(n) /\ PlatOf[i].arch \in Arches
  BY <1>3, LoadsAre
<1>5. r \in Refs /\ r[1] = n
  BY <1>4, RefsAre
<1>6. e \in Listing /\ EntryFits(e) /\ e.ref = r
  BY <1>4, <1>5, EntryIs, ContentsAre DEF EntryFits, ImageOf
<1> HIDE DEF e
<1>7. /\ end \in Seq(Plans) /\ Len(end) = 3
      /\ end[1] = Unlist(r) /\ end[2] = AppendTo(e) /\ end[3] = Do("return")
  BY <1>5, <1>6, PlansAre
<1>8. /\ bs \in Seq(Plans) /\ Len(bs) = 2
      /\ \A k \in 1..2 : bs[k] \in {Blob(Layers(i)), Blob(Manifest(i))}
  BY <1>3, <1>4, WriteImageIs
<1> HIDE DEF end
<1>9. /\ bs \o end \in Seq(Plans) /\ DOMAIN (bs \o end) = 1..5 /\ Len(bs \o end) = 5
      /\ \A k \in 1..5 : (bs \o end)[k] \in
           {Blob(Layers(i)), Blob(Manifest(i)), Unlist(r), AppendTo(e), Do("return")}
      /\ \A k \in 1..5 : k = 5 \/ (bs \o end)[k] \in
           {Blob(Layers(i)), Blob(Manifest(i)), Unlist(r), AppendTo(e)}
  <2> DEFINE P == Plans
  <2>1. bs \in Seq(P) /\ end \in Seq(P)
    BY <1>7, <1>8
  <2> HIDE DEF P
  <2>0. Len(bs) = 2 /\ Len(end) = 3
    BY <1>7, <1>8
  <2>2. /\ bs \o end \in Seq(P) /\ DOMAIN (bs \o end) = 1..5 /\ Len(bs \o end) = 5
        /\ \A k \in 1..5 : IF k <= 2 THEN k \in 1..2 /\ (bs \o end)[k] = bs[k]
                           ELSE k - 2 \in 1..3 /\ (bs \o end)[k] = end[k - 2]
    <3>1. /\ bs \o end \in Seq(P) /\ DOMAIN (bs \o end) = 1..(Len(bs) + Len(end))
          /\ Len(bs \o end) = Len(bs) + Len(end)
          /\ \A k \in 1..(Len(bs) + Len(end)) :
              IF k <= Len(bs) THEN k \in 1..Len(bs) /\ (bs \o end)[k] = bs[k]
              ELSE k - Len(bs) \in 1..Len(end) /\ (bs \o end)[k] = end[k - Len(bs)]
      BY <2>1, TwoLists
    <3> QED BY <2>0, <3>1
  <2>3. /\ \A k \in 1..3 : end[k] \in {Unlist(r), AppendTo(e), Do("return")}
        /\ \A k \in 1..5 : k - 2 \in 1..3 => k = 5 \/ end[k - 2] \in {Unlist(r), AppendTo(e)}
    BY <1>7
  <2> QED
    BY <1>8, <2>2, <2>3 DEF P
<1>10. Starts(bs \o end, "load", r[1])
  <2> HIDE DEF r
  <2>1. /\ StepFits(Blob(Layers(i)), n) /\ Blob(Layers(i)).do = "blob"
        /\ StepFits(Blob(Manifest(i)), n) /\ Blob(Manifest(i)).do = "blob"
    BY <1>4, StepsAre
  <2>2. StepFits(Unlist(r), n) /\ Unlist(r).do = "remove"
    BY <1>5, StepsAre
  <2>3. StepFits(AppendTo(e), n) /\ AppendTo(e).do = "append"
    BY <1>5, <1>6, StepsAre
  <2>4. StepFits(Do("return"), n) /\ Do("return").do = "return"
    BY StepsAre
  <2>5. \A k \in DOMAIN (bs \o end) :
          /\ StepFits((bs \o end)[k], n) /\ (bs \o end)[k].do \in {"blob", "remove", "append", "return"}
          /\ (bs \o end)[k].do = "return" => k = 5
    BY <1>9, <2>1, <2>2, <2>3, <2>4
  <2> QED
    BY <1>5, <1>9, <2>5 DEF Starts, DoneBy, Closing
<1>11. "load" \in Ops \ {"idle", "clean"}
  BY DEF Ops
<1>12. JobsFit' /\ UNCHANGED <<disk, remote, faults>> /\ ops' = ops + 1 /\ ops < MaxOps
  <2> HIDE DEF r
  <2> QED
    BY <1>3, <1>4, <1>5, <1>9, <1>10, <1>11, BeginFits DEF Types
<1>13. Types'
  BY <1>12, QuietTypes
<1> QED
  BY <1>3, <1>13 DEF end, e

LEMMA IndexWriteBegins ==
  ASSUME Types, NEW p \in Procs, BeginIndexWrite(p)
  PROVE  /\ Types'
         /\ \E n \in Names : \E i \in Loads[n] :
              Begin(p, "index", Ref(n), Plain, <<[do |-> "index", add |-> <<i>>], Do("return")>>)
<1>1. PICK n \in Names : \E i \in Loads[n] :
              Begin(p, "index", Ref(n), Plain, <<[do |-> "index", add |-> <<i>>], Do("return")>>)
  BY DEF BeginIndexWrite
<1> DEFINE first(i) == [do |-> "index", add |-> <<i>>]
<1>2. PICK i \in Loads[n] : Begin(p, "index", Ref(n), Plain, <<first(i), Do("return")>>)
  BY <1>1
<1>3. <<i>> \in Seq(Images) /\ Fits(<<i>>, n)
  BY LoadsAre DEF Fits, ToSet
<1>4. first(i) \in Plans /\ StepFits(first(i), n) /\ first(i).do = "index"
  <2>1. first(i) \in Plans
    BY <1>3, PlansAre
  <2>2. StepFits(first(i), n)
    BY <1>3, StepsAre
  <2> QED BY <2>1, <2>2
<1>5. Do("return") \in Plans /\ StepFits(Do("return"), n) /\ Do("return").do = "return"
  BY PlansAre, StepsAre
<1> HIDE DEF first
<1>6. /\ <<first(i), Do("return")>> \in Seq(Plans)
      /\ \A k \in DOMAIN <<first(i), Do("return")>> :
           \/ <<first(i), Do("return")>>[k] = first(i)
           \/ <<first(i), Do("return")>>[k] = Do("return") /\ k = Len(<<first(i), Do("return")>>)
  BY <1>4, <1>5, Tuples
<1>7. Starts(<<first(i), Do("return")>>, "index", Ref(n)[1])
  BY <1>4, <1>5, <1>6, RefsAre DEF Starts, DoneBy, Closing
<1>8. "index" \in Ops \ {"idle", "clean"}
  BY DEF Ops
<1>9. JobsFit' /\ UNCHANGED <<disk, remote, faults>> /\ ops' = ops + 1 /\ ops < MaxOps
  BY <1>2, <1>6, <1>7, <1>8, BeginFits, RefsAre DEF Types
<1> QED
  BY <1>1, <1>9, QuietTypes

LEMMA DescriptorWriteBegins ==
  ASSUME Types, NEW p \in Procs, BeginDescriptorWrite(p)
  PROVE  /\ Types'
         /\ \E n \in Names : \E i \in Loads[n] :
              Begin(p, "descriptor", Ref(n), Plain,
                    <<Unlist(Ref(n)), AppendTo(Entry(Ref(n), ImageOf(i))), Do("return")>>)
<1>1. PICK n \in Names : \E i \in Loads[n] :
              Begin(p, "descriptor", Ref(n), Plain,
                    <<Unlist(Ref(n)), AppendTo(Entry(Ref(n), ImageOf(i))), Do("return")>>)
  BY DEF BeginDescriptorWrite
<1> DEFINE e(i) == Entry(Ref(n), ImageOf(i))
<1>2. PICK i \in Loads[n] :
        Begin(p, "descriptor", Ref(n), Plain, <<Unlist(Ref(n)), AppendTo(e(i)), Do("return")>>)
  BY <1>1
<1>3. e(i) \in Listing /\ EntryFits(e(i)) /\ e(i).ref = Ref(n) /\ Ref(n) \in Refs /\ Ref(n)[1] = n
  BY LoadsAre, RefsAre, EntryIs, ContentsAre DEF EntryFits, ImageOf
<1> HIDE DEF e
<1> DEFINE steps == <<Unlist(Ref(n)), AppendTo(e(i)), Do("return")>>
<1>4. /\ steps \in Seq(Plans)
      /\ \A k \in DOMAIN steps : \/ steps[k] \in {Unlist(Ref(n)), AppendTo(e(i))}
                                 \/ steps[k] = Do("return") /\ k = Len(steps)
  <2>1. Unlist(Ref(n)) \in Plans /\ AppendTo(e(i)) \in Plans /\ Do("return") \in Plans
    BY <1>3, PlansAre
  <2> QED
    BY <2>1, Tuples
<1> HIDE DEF steps
<1>5. \A k \in DOMAIN steps : /\ StepFits(steps[k], n) /\ steps[k].do \in {"remove", "append", "return"}
                              /\ steps[k].do = "return" => k = Len(steps)
  <2>1. StepFits(Unlist(Ref(n)), n) /\ Unlist(Ref(n)).do = "remove"
    BY <1>3, StepsAre
  <2>2. StepFits(AppendTo(e(i)), n) /\ AppendTo(e(i)).do = "append"
    BY <1>3, StepsAre, ZenonT(60)
  <2>3. StepFits(Do("return"), n) /\ Do("return").do = "return"
    BY StepsAre
  <2> QED
    BY <1>4, <2>1, <2>2, <2>3
<1>6. Starts(steps, "descriptor", Ref(n)[1])
  BY <1>3, <1>5 DEF Starts, DoneBy, Closing
<1>7. "descriptor" \in Ops \ {"idle", "clean"}
  BY DEF Ops
<1>8. JobsFit' /\ UNCHANGED <<disk, remote, faults>> /\ ops' = ops + 1 /\ ops < MaxOps
  BY <1>2, <1>3, <1>4, <1>6, <1>7, BeginFits DEF Types, steps
<1> QED
  BY <1>1, <1>8, QuietTypes

LEMMA PushBegins ==
  ASSUME Types, NEW p \in Procs, BeginPush(p)
  PROVE  /\ Types'
         /\ \E n \in Names : Begin(p, "push", Ref(n), Plain, <<Do("push")>>)
<1>1. PICK n \in Names : Begin(p, "push", Ref(n), Plain, <<Do("push")>>)
  BY InputAssumption DEF BeginPush
<1>2. Do("push") \in Plans /\ StepFits(Do("push"), n) /\ Do("push").do = "push"
  BY PlansAre, StepsAre
<1>3. /\ <<Do("push")>> \in Seq(Plans) /\ Len(<<Do("push")>>) = 1
      /\ \A k \in DOMAIN <<Do("push")>> : <<Do("push")>>[k] = Do("push") /\ k = 1
  BY <1>2, Tuples
<1>4. Starts(<<Do("push")>>, "push", Ref(n)[1])
  BY <1>2, <1>3, RefsAre DEF Starts, DoneBy
<1>5. "push" \in Ops \ {"idle", "clean"}
  BY DEF Ops
<1>6. JobsFit' /\ UNCHANGED <<disk, remote, faults>> /\ ops' = ops + 1 /\ ops < MaxOps
  BY <1>1, <1>3, <1>4, <1>5, BeginFits, RefsAre DEF Types
<1> QED
  BY <1>1, <1>6, QuietTypes

LEMMA CleanBegins ==
  ASSUME Types, NEW p \in Procs, BeginClean(p)
  PROVE  /\ Types'
         /\ Todo(p) = <<>> /\ Todo(p)' = <<Do("clean")>>
         /\ job'[p] = [Idle EXCEPT !.op = "clean", !.todo = <<Do("clean")>>]
         /\ \A q \in Procs : q # p => job'[q] = job[q]
         /\ UNCHANGED <<disk, remote, faults>>
<1> DEFINE w == [Idle EXCEPT !.op = "clean", !.todo = <<Do("clean")>>]
<1>1. job' = [job EXCEPT ![p] = w]
  BY DEF BeginClean
<1>2. Do("clean") \in Plans /\ Do("clean").do = "clean"
  BY PlansAre
<1>3. /\ <<Do("clean")>> \in Seq(Plans) /\ Len(<<Do("clean")>>) = 1
      /\ \A k \in DOMAIN <<Do("clean")>> : <<Do("clean")>>[k] = Do("clean") /\ k = 1
  BY <1>2, Tuples
<1>4. /\ w.op = "clean" /\ w.todo = <<Do("clean")>> /\ w.buf = <<>> /\ w.got = Nothing /\ ~w.ok
  BY DEF Idle
<1>5. w \in Jobs
  <2>1. Idle \in Jobs /\ "clean" \in Ops
    BY EmptyLists DEF Idle, Jobs, Ops
  <2> QED
    BY <1>3, <2>1 DEF Jobs
<1> HIDE DEF w
<1>6. JobFits(w)
  <2>1. \A k \in DOMAIN w.todo : w.todo[k].do = "clean" /\ StepFits(w.todo[k], w.ref[1]) /\ k = Len(w.todo)
    BY <1>2, <1>3, <1>4 DEF StepFits
  <2>2. Ordered(w)
    BY <1>4, <2>1 DEF Ordered, DoneBy
  <2> QED
    BY <1>4, <2>1, <2>2 DEF JobFits
<1>7. job'[p] = w /\ (\A q \in Procs : q # p => job'[q] = job[q]) /\ job' \in [Procs -> Jobs]
  BY <1>1, <1>5 DEF Types, JobsFit
<1>8. JobsFit'
  BY <1>6, <1>7 DEF Types, JobsFit
<1>9. Todo(p) = <<>> /\ UNCHANGED <<disk, remote, faults>> /\ ops' = ops + 1 /\ ops < MaxOps
  BY DEF BeginClean
<1>10. Types'
  BY <1>8, <1>9, QuietTypes
<1> QED
  BY <1>4, <1>7, <1>9, <1>10 DEF Todo, w

LEMMA FreshNone ==
  ASSUME NEW o
  PROVE  Fresh(<<>>, o) /\ <<>> \in Seq(Plans)
BY EmptyLists DEF Fresh

LEMMA FreshOne ==
  ASSUME NEW o, o.todo[1].do # "trunc",
         NEW x \in Plans, x.do \in DoneBy(o.op) \ {"trunc", "data"}, StepFits(x, o.ref[1]),
         x.do \in Closing => o.todo[1].do \in Closing
  PROVE  Fresh(<<x>>, o) /\ <<x>> \in Seq(Plans)
BY Tuples DEF Fresh

\* A step that needs no successor.
LEMMA StepDone ==
  ASSUME JobsFit, NEW p \in Procs, Todo(p) # <<>>, Then(p, <<>>)
  PROVE  /\ JobsFit'
         /\ Todo(p)' = <<>> \o Tail(Todo(p))
         /\ job'[p] = [job[p] EXCEPT !.todo = <<>> \o Tail(job[p].todo)]
         /\ \A q \in Procs : q # p => job'[q] = job[q]
BY FreshNone, ThenFits

LEMMA Types_Clean ==
  ASSUME Types, NEW p \in Procs, Clean(p)
  PROVE  Types'
<1>1. CASE /\ root # NoRoot
           /\ root' = NoRoot
           /\ UNCHANGED <<full, part, job>> /\ UNCHANGED <<remote, ops, faults>>
  <2>1. NoRoot.es = <<>>
    BY DEF NoRoot
  <2>2. RootFits'
    BY <1>1, <2>1 DEF RootFits
  <2> QED
    BY <1>1, <2>2 DEF Types, JobsFit, BlobsFit, RemoteFits, CountsFit
<1>2. CASE /\ \E d \in full \cup part :
                /\ full' = full \ {d}
                /\ part' = part \ {d}
                /\ UNCHANGED <<root, job>>
           /\ UNCHANGED <<remote, ops, faults>>
  <2>1. BlobsFit'
    BY <1>2 DEF Types, BlobsFit
  <2> QED
    BY <1>2, <2>1 DEF Types, JobsFit, RootFits, RemoteFits, CountsFit
<1>3. CASE Return(p, TRUE) /\ UNCHANGED disk /\ UNCHANGED <<remote, ops, faults>>
  <2>1. JobsFit'
    BY <1>3, ReturnFits DEF Types
  <2> QED
    BY <1>3, <2>1, QuietTypes
<1> QED
  BY <1>1, <1>2, <1>3 DEF Clean

\* What an edit of index.json writes.
Edited(p) == CASE At(p, "remove")  -> WithoutRef(Now(p).ref)
               [] At(p, "append")  -> Append(root.es, Now(p).e)
               [] At(p, "replace") -> Append(WithoutRef(Now(p).e.ref), Now(p).e)

LEMMA WithoutRefIs ==
  ASSUME RootFits, NEW r
  PROVE  /\ WithoutRef(r) \in Seq(Listing)
         /\ \A j \in DOMAIN WithoutRef(r) :
              /\ WithoutRef(r)[j].ref # r
              /\ \E k \in DOMAIN root.es : WithoutRef(r)[j] = root.es[k]
<1> DEFINE T == {e \in ToSet(root.es) : e.ref # r}
           L == Listing
<1>1. root.es \in Seq(L)
  BY RootEntries
<1>2. WithoutRef(r) = Matching(root.es, T)
  BY DEF WithoutRef
<1> HIDE DEF L, T
<1>3. /\ Matching(root.es, T) \in Seq(L)
      /\ \A i \in DOMAIN Matching(root.es, T) : Matching(root.es, T)[i] \in T
      /\ \A i \in DOMAIN Matching(root.es, T) : \E k \in DOMAIN root.es : Matching(root.es, T)[i] = root.es[k]
  BY <1>1, MatchingElements
<1> QED
  BY <1>2, <1>3 DEF L, T

LEMMA EditedIs ==
  ASSUME Types, NEW p \in Procs, At(p, "remove") \/ At(p, "append") \/ At(p, "replace")
  PROVE  Edited(p) \in Seq(Listing) /\ \A j \in DOMAIN Edited(p) : EntryFits(Edited(p)[j])
<1> DEFINE L == Listing
<1>1. root.es \in Seq(L) /\ \A j \in DOMAIN root.es : EntryFits(root.es[j])
  BY RootEntries DEF Types, RootFits
<1>2. ASSUME NEW r PROVE WithoutRef(r) \in Seq(L) /\ \A j \in DOMAIN WithoutRef(r) : EntryFits(WithoutRef(r)[j])
  BY <1>1, WithoutRefIs DEF Types
<1> HIDE DEF L
<1>3. ASSUME NEW s \in Seq(L), \A j \in DOMAIN s : EntryFits(s[j]), NEW e \in L, EntryFits(e)
      PROVE  Append(s, e) \in Seq(L) /\ \A j \in DOMAIN Append(s, e) : EntryFits(Append(s, e)[j])
  <2>1. /\ Append(s, e) \in Seq(L) /\ DOMAIN Append(s, e) = 1..(Len(s) + 1) /\ DOMAIN s = 1..Len(s)
        /\ Len(s) \in Nat
        /\ \A j \in 1..(Len(s) + 1) : Append(s, e)[j] = IF j = Len(s) + 1 THEN e ELSE s[j]
    BY <1>3
  <2>2. \A j \in 1..(Len(s) + 1) : j = Len(s) + 1 \/ j \in 1..Len(s)
    BY <2>1
  <2> QED
    BY <1>3, <2>1, <2>2
<1>4. CASE At(p, "remove")
  <2>1. Edited(p) = WithoutRef(Now(p).ref)
    BY <1>4 DEF Edited, At
  <2> QED
    BY <1>2, <2>1 DEF L
<1>5. CASE At(p, "append")
  <2>1. Now(p).e \in L /\ EntryFits(Now(p).e)
    BY <1>5, AtIs, PlanParts DEF Types, StepFits, L
  <2>2. Edited(p) = Append(root.es, Now(p).e)
    BY <1>5 DEF Edited, At
  <2> QED
    BY <1>1, <1>3, <2>1, <2>2 DEF L
<1>6. CASE At(p, "replace")
  <2>1. Now(p).e \in L /\ EntryFits(Now(p).e)
    BY <1>6, AtIs, PlanParts DEF Types, StepFits, L
  <2>2. Edited(p) = Append(WithoutRef(Now(p).e.ref), Now(p).e)
    BY <1>6 DEF Edited, At
  <2> QED
    BY <1>2, <1>3, <2>1, <2>2 DEF L
<1> QED
  BY <1>4, <1>5, <1>6

LEMMA Types_InitRoot ==
  ASSUME Types, NEW p \in Procs, InitRoot(p)
  PROVE  /\ Types'
         /\ Todo(p)' = <<Do("trunc"), Do("data")>> \o Tail(Todo(p))
         /\ job'[p] = [job[p] EXCEPT !.todo = <<Do("trunc"), Do("data")>> \o Tail(job[p].todo), !.buf = <<>>]
         /\ \A q \in Procs : q # p => job'[q] = job[q]
<1>1. At(p, "init") /\ WriteRoot(p, <<>>) /\ UNCHANGED <<disk, remote, ops, faults>>
  BY DEF InitRoot
<1>2. {"trunc", "data"} \subseteq DoneBy(job[p].op)
  BY <1>1, AtIs DEF DoneBy, Ops, Types
<1>3. Todo(p) # <<>> /\ job[p].todo[1].do # "trunc"
  BY <1>1, AtIs DEF Types
<1>4. /\ JobsFit'
      /\ Todo(p)' = <<Do("trunc"), Do("data")>> \o Tail(Todo(p))
      /\ job'[p] = [job[p] EXCEPT !.todo = <<Do("trunc"), Do("data")>> \o Tail(job[p].todo), !.buf = <<>>]
      /\ \A q \in Procs : q # p => job'[q] = job[q]
  <2> DEFINE new == <<>>
  <2>1. new \in Seq(Listing) /\ \A j \in DOMAIN new : EntryFits(new[j])
    BY EmptyLists
  <2>2. WriteRoot(p, new)
    BY <1>1
  <2>3. job'[p] = [job[p] EXCEPT !.todo = <<Do("trunc"), Do("data")>> \o Tail(job[p].todo), !.buf = new]
        => job'[p] = [job[p] EXCEPT !.todo = <<Do("trunc"), Do("data")>> \o Tail(job[p].todo), !.buf = <<>>]
    OBVIOUS
  <2> HIDE DEF new
  <2> QED
    BY <1>2, <1>3, <2>1, <2>2, <2>3, WriteRootFits DEF Types
<1> QED
  BY <1>1, <1>4, QuietTypes

LEMMA Types_EditRoot ==
  ASSUME Types, NEW p \in Procs, EditRoot(p)
  PROVE  /\ Types'
         /\ \A q \in Procs : q # p => job'[q] = job[q]
         /\ \/ ~Readable /\ job'[p] = [job[p] EXCEPT !.todo = <<>>, !.ok = FALSE] /\ Todo(p)' = <<>>
            \/ /\ Readable
               /\ Todo(p)' = <<Do("trunc"), Do("data")>> \o Tail(Todo(p))
               /\ job'[p] = [job[p] EXCEPT !.todo = <<Do("trunc"), Do("data")>> \o Tail(job[p].todo), !.buf = Edited(p)]
<1>1. /\ At(p, "remove") \/ At(p, "append") \/ At(p, "replace")
      /\ IF ~Readable THEN Fail(p) ELSE WriteRoot(p, Edited(p))
      /\ UNCHANGED <<disk, remote, ops, faults>>
  BY DEF EditRoot, Edited
<1>2. {"trunc", "data"} \subseteq DoneBy(job[p].op) /\ job[p].todo[1].do # "trunc" /\ Todo(p) # <<>>
  <2>1. CASE At(p, "remove")
    BY <2>1, AtIs DEF DoneBy, Ops, Types
  <2>2. CASE At(p, "append")
    BY <2>2, AtIs DEF DoneBy, Ops, Types
  <2>3. CASE At(p, "replace")
    BY <2>3, AtIs DEF DoneBy, Ops, Types
  <2> QED
    BY <1>1, <2>1, <2>2, <2>3
<1>3. Edited(p) \in Seq(Listing) /\ \A j \in DOMAIN Edited(p) : EntryFits(Edited(p)[j])
  BY <1>1, EditedIs
<1>4. CASE ~Readable
  <2>1. /\ JobsFit' /\ job'[p] = [job[p] EXCEPT !.todo = <<>>, !.ok = FALSE] /\ Todo(p)' = <<>>
        /\ \A q \in Procs : q # p => job'[q] = job[q]
    BY <1>1, <1>4, ReturnFits DEF Types, Fail
  <2> QED
    BY <1>1, <1>4, <2>1, QuietTypes
<1>5. CASE Readable
  <2>1. /\ JobsFit'
        /\ Todo(p)' = <<Do("trunc"), Do("data")>> \o Tail(Todo(p))
        /\ job'[p] = [job[p] EXCEPT !.todo = <<Do("trunc"), Do("data")>> \o Tail(job[p].todo), !.buf = Edited(p)]
        /\ \A q \in Procs : q # p => job'[q] = job[q]
    BY <1>1, <1>2, <1>3, <1>5, WriteRootFits DEF Types
  <2> QED
    BY <1>1, <1>5, <2>1, QuietTypes
<1> QED
  BY <1>4, <1>5

LEMMA Types_Truncate ==
  ASSUME Types, NEW p \in Procs, Truncate(p)
  PROVE  /\ Types'
         /\ Todo(p)' = <<>> \o Tail(Todo(p))
         /\ job'[p] = [job[p] EXCEPT !.todo = <<>> \o Tail(job[p].todo)]
         /\ \A q \in Procs : q # p => job'[q] = job[q]
<1>1. /\ Todo(p) # <<>> /\ Then(p, <<>>) /\ root' = Torn
      /\ UNCHANGED <<full, part, remote, ops, faults>>
  BY DEF Truncate, At
<1>2. /\ JobsFit'
      /\ Todo(p)' = <<>> \o Tail(Todo(p))
      /\ job'[p] = [job[p] EXCEPT !.todo = <<>> \o Tail(job[p].todo)]
      /\ \A q \in Procs : q # p => job'[q] = job[q]
  BY <1>1, StepDone DEF Types
<1>3. Torn.es = <<>>
  BY DEF Torn
<1>4. RootFits' /\ BlobsFit' /\ RemoteFits' /\ CountsFit'
  BY <1>1, <1>3 DEF Types, RootFits, BlobsFit, RemoteFits, CountsFit
<1> QED
  BY <1>2, <1>4 DEF Types

LEMMA Types_WriteData ==
  ASSUME Types, NEW p \in Procs, WriteData(p)
  PROVE  /\ Types'
         /\ Todo(p)' = <<>> \o Tail(Todo(p))
         /\ job'[p] = [job[p] EXCEPT !.todo = <<>> \o Tail(job[p].todo)]
         /\ \A q \in Procs : q # p => job'[q] = job[q]
<1>1. /\ Todo(p) # <<>> /\ Then(p, <<>>) /\ root' = Good(job[p].buf)
      /\ UNCHANGED <<full, part, remote, ops, faults>>
  BY DEF WriteData, At
<1>2. /\ JobsFit'
      /\ Todo(p)' = <<>> \o Tail(Todo(p))
      /\ job'[p] = [job[p] EXCEPT !.todo = <<>> \o Tail(job[p].todo)]
      /\ \A q \in Procs : q # p => job'[q] = job[q]
  BY <1>1, StepDone DEF Types
<1>3. job[p].buf \in Seq(Listing) /\ \A j \in DOMAIN job[p].buf : EntryFits(job[p].buf[j])
  BY DEF Types, JobsFit, Jobs, JobFits
<1>4. root'.es = job[p].buf /\ root' = Good(root'.es)
  BY <1>1 DEF Good
<1>5. RootFits'
  BY <1>3, <1>4 DEF RootFits
<1>6. BlobsFit' /\ RemoteFits' /\ CountsFit'
  BY <1>1 DEF Types, BlobsFit, RemoteFits, CountsFit
<1> QED
  BY <1>2, <1>5, <1>6 DEF Types

LEMMA Types_WriteBlob ==
  ASSUME Types, NEW p \in Procs, WriteBlob(p)
  PROVE  /\ Types'
         /\ LET steps == IF Present(Now(p).d) THEN <<>> ELSE <<[do |-> "copy", d |-> Now(p).d]>>
            IN /\ steps \in Seq(Plans)
               /\ Todo(p)' = steps \o Tail(Todo(p))
               /\ job'[p] = [job[p] EXCEPT !.todo = steps \o Tail(job[p].todo)]
         /\ \A q \in Procs : q # p => job'[q] = job[q]
<1>1. At(p, "blob") /\ UNCHANGED <<remote, ops, faults>>
  BY DEF WriteBlob
<1>2. CASE Present(Now(p).d)
  <2>1. Then(p, <<>>) /\ UNCHANGED disk /\ Todo(p) # <<>>
    BY <1>1, <1>2 DEF WriteBlob, At
  <2>2. /\ JobsFit'
        /\ Todo(p)' = <<>> \o Tail(Todo(p))
        /\ job'[p] = [job[p] EXCEPT !.todo = <<>> \o Tail(job[p].todo)]
        /\ \A q \in Procs : q # p => job'[q] = job[q]
    BY <2>1, StepDone DEF Types
  <2>3. Types'
    BY <1>1, <2>1, <2>2, QuietTypes
  <2> QED
    BY <1>2, <2>2, <2>3, FreshNone
<1>3. CASE ~Present(Now(p).d)
  <2> DEFINE d == Now(p).d
             x == [do |-> "copy", d |-> d]
  <2>1. Then(p, <<x>>) /\ part' = part \cup {d} /\ UNCHANGED <<root, full>> /\ Todo(p) # <<>>
    BY <1>1, <1>3 DEF WriteBlob, At
  <2>2. d \in Blobs /\ "copy" \in DoneBy(job[p].op) /\ StepFits(Now(p), job[p].ref[1]) /\ Now(p).do = "blob"
        /\ job[p].todo[1].do = "blob"
    BY <1>1, AtIs, PlanParts DEF DoneBy, Ops, Types
  <2>3. x \in Plans /\ x.do = "copy" /\ StepFits(x, job[p].ref[1]) /\ x.do \notin Closing
    BY <2>2, PlansAre DEF StepFits, Closing
  <2>4. BlobsFit'
    BY <1>3, <2>1, <2>2 DEF Types, BlobsFit, Present
  <2> HIDE DEF x, d
  <2>5. Fresh(<<x>>, job[p]) /\ <<x>> \in Seq(Plans)
    BY <2>2, <2>3, FreshOne
  <2>6. /\ JobsFit'
        /\ Todo(p)' = <<x>> \o Tail(Todo(p))
        /\ job'[p] = [job[p] EXCEPT !.todo = <<x>> \o Tail(job[p].todo)]
        /\ \A q \in Procs : q # p => job'[q] = job[q]
    BY <2>1, <2>5, ThenFits DEF Types
  <2>7. RootFits' /\ RemoteFits' /\ CountsFit'
    BY <1>1, <2>1 DEF Types, RootFits, RemoteFits, CountsFit
  <2> QED
    BY <1>3, <2>4, <2>5, <2>6, <2>7 DEF Types, x, d
<1> QED
  BY <1>2, <1>3

LEMMA Types_CopyBlob ==
  ASSUME Types, NEW p \in Procs, CopyBlob(p)
  PROVE  /\ Types'
         /\ Todo(p)' = <<>> \o Tail(Todo(p))
         /\ job'[p] = [job[p] EXCEPT !.todo = <<>> \o Tail(job[p].todo)]
         /\ \A q \in Procs : q # p => job'[q] = job[q]
<1>1. /\ At(p, "copy") /\ Todo(p) # <<>> /\ Then(p, <<>>)
      /\ part' = part \ {Now(p).d} /\ full' = full \cup {Now(p).d}
      /\ UNCHANGED <<root, remote, ops, faults>>
  BY DEF CopyBlob, At
<1>2. /\ JobsFit'
      /\ Todo(p)' = <<>> \o Tail(Todo(p))
      /\ job'[p] = [job[p] EXCEPT !.todo = <<>> \o Tail(job[p].todo)]
      /\ \A q \in Procs : q # p => job'[q] = job[q]
  BY <1>1, StepDone DEF Types
<1>3. Now(p).d \in Blobs
  BY <1>1, AtIs, PlanParts DEF Types
<1>4. RootFits' /\ BlobsFit' /\ RemoteFits' /\ CountsFit'
  BY <1>1, <1>3 DEF Types, RootFits, BlobsFit, RemoteFits, CountsFit
<1> QED
  BY <1>2, <1>4 DEF Types

LEMMA Types_RemoveBlob ==
  ASSUME Types, NEW p \in Procs, RemoveBlob(p)
  PROVE  /\ Types'
         /\ Todo(p)' = <<>> \o Tail(Todo(p))
         /\ job'[p] = [job[p] EXCEPT !.todo = <<>> \o Tail(job[p].todo)]
         /\ \A q \in Procs : q # p => job'[q] = job[q]
<1>1. /\ Todo(p) # <<>> /\ Then(p, <<>>)
      /\ part' = part \ {Now(p).d} /\ full' = full \ {Now(p).d}
      /\ UNCHANGED <<root, remote, ops, faults>>
  BY DEF RemoveBlob, At
<1>2. /\ JobsFit'
      /\ Todo(p)' = <<>> \o Tail(Todo(p))
      /\ job'[p] = [job[p] EXCEPT !.todo = <<>> \o Tail(job[p].todo)]
      /\ \A q \in Procs : q # p => job'[q] = job[q]
  BY <1>1, StepDone DEF Types
<1>3. RootFits' /\ BlobsFit' /\ RemoteFits' /\ CountsFit'
  BY <1>1 DEF Types, RootFits, BlobsFit, RemoteFits, CountsFit
<1> QED
  BY <1>2, <1>3 DEF Types

\* The steps that write the images of a list: the layers before the manifest.
LEMMA WriteImagesAre ==
  ASSUME NEW s \in Seq(Images)
  PROVE  /\ WriteImages(s) \in Seq(Plans)
         /\ \A j \in DOMAIN WriteImages(s) :
              \E i \in DOMAIN s : WriteImages(s)[j] \in {Blob(Layers(s[i])), Blob(Manifest(s[i]))}
         /\ \A i \in DOMAIN s : \E j \in DOMAIN WriteImages(s) : WriteImages(s)[j] = Blob(Layers(s[i]))
         /\ \A i \in DOMAIN s : \E j \in DOMAIN WriteImages(s) : WriteImages(s)[j] = Blob(Manifest(s[i]))
<1> DEFINE w == WriteImages(s)
           l == Len(s)
<1>1. l \in Nat /\ DOMAIN s = 1..l /\ \A i \in 1..l : s[i] \in Images
  OBVIOUS
<1>2. w = [j \in 1..(2 * l) |-> WriteImage(s[(j + 1) \div 2])[2 - (j % 2)]]
  BY DEF WriteImages
<1> HIDE DEF l, w
<1>3. \A j \in 1..(2 * l) : (j + 1) \div 2 \in 1..l /\ 2 - (j % 2) \in 1..2
  BY <1>1
<1>4. \A i \in 1..l : WriteImage(s[i])[1] = Blob(Layers(s[i])) /\ WriteImage(s[i])[2] = Blob(Manifest(s[i]))
                       /\ WriteImage(s[i])[1] \in Plans /\ WriteImage(s[i])[2] \in Plans
  <2> SUFFICES ASSUME NEW i \in 1..l
               PROVE  WriteImage(s[i])[1] = Blob(Layers(s[i])) /\ WriteImage(s[i])[2] = Blob(Manifest(s[i]))
                       /\ WriteImage(s[i])[1] \in Plans /\ WriteImage(s[i])[2] \in Plans
    OBVIOUS
  <2>1. s[i] \in Images
    BY <1>1
  <2> QED BY <2>1, WriteImageIs, PlansAre, BlobsAre
<1>5. \A k \in 1..2 : k = 1 \/ k = 2
  OBVIOUS
<1>6. ASSUME NEW j \in 1..(2 * l)
      PROVE  /\ w[j] \in Plans
             /\ \E i \in 1..l : w[j] \in {Blob(Layers(s[i])), Blob(Manifest(s[i]))}
  <2>1. w[j] = WriteImage(s[(j + 1) \div 2])[2 - (j % 2)]
    BY <1>2
  <2> QED
    BY <1>3, <1>4, <1>5, <2>1
<1>7. 2 * l \in Nat
  BY <1>1
<1>8. w \in Seq(Plans) /\ DOMAIN w = 1..(2 * l)
  <2> DEFINE P == Plans
             m == 2 * l
  <2>1. \A j \in 1..m : w[j] \in P
    BY <1>6
  <2>2. m \in Nat /\ w = [j \in 1..m |-> WriteImage(s[(j + 1) \div 2])[2 - (j % 2)]]
    BY <1>2, <1>7
  <2> HIDE DEF P, m
  <2>3. w = [j \in 1..m |-> w[j]]
    BY <2>2
  <2>4. w \in Seq(P) /\ DOMAIN w = 1..m
    BY <2>1, <2>2, <2>3
  <2> QED
    BY <2>4 DEF P, m
<1>9. ASSUME NEW i \in 1..l
      PROVE  /\ 2 * i - 1 \in 1..(2 * l) /\ w[2 * i - 1] = Blob(Layers(s[i]))
             /\ 2 * i \in 1..(2 * l) /\ w[2 * i] = Blob(Manifest(s[i]))
  <2>1. 2 * i - 1 \in 1..(2 * l) /\ ((2 * i - 1) + 1) \div 2 = i /\ 2 - ((2 * i - 1) % 2) = 1
    BY <1>1
  <2>2. 2 * i \in 1..(2 * l) /\ (2 * i + 1) \div 2 = i /\ 2 - ((2 * i) % 2) = 2
    BY <1>1
  <2> QED
    BY <1>2, <1>4, <2>1, <2>2
<1>10. /\ \A i \in DOMAIN s : \E j \in DOMAIN w : w[j] = Blob(Layers(s[i]))
       /\ \A i \in DOMAIN s : \E j \in DOMAIN w : w[j] = Blob(Manifest(s[i]))
  BY <1>1, <1>8, <1>9
<1>11. \A j \in DOMAIN w : \E i \in DOMAIN s : w[j] \in {Blob(Layers(s[i])), Blob(Manifest(s[i]))}
  BY <1>1, <1>6, <1>8
<1> QED
  BY <1>8, <1>10, <1>11 DEF w

LEMMA WantedIs ==
  ASSUME NEW s \in Seq(Images), NEW a
  PROVE  /\ Wanted(s, a) \in Seq(Images)
         /\ \A i \in ToSet(Wanted(s, a)) : i \in ToSet(s) /\ (PlatOf[i] = NoPlat \/ PlatOf[i].arch = a)
         /\ \A i \in ToSet(s) : PlatOf[i] = NoPlat \/ PlatOf[i].arch = a => i \in ToSet(Wanted(s, a))
<1> DEFINE T == {i \in Images : PlatOf[i] = NoPlat \/ PlatOf[i].arch = a}
<1>1. Wanted(s, a) = Matching(s, T)
  BY DEF Wanted
<1>2. \A k \in DOMAIN s : s[k] \in T <=> (PlatOf[s[k]] = NoPlat \/ PlatOf[s[k]].arch = a)
  OBVIOUS
<1> HIDE DEF T
<1>3. /\ Matching(s, T) \in Seq(Images)
      /\ \A i \in DOMAIN Matching(s, T) : Matching(s, T)[i] \in T
      /\ \A i \in DOMAIN Matching(s, T) : \E k \in DOMAIN s : Matching(s, T)[i] = s[k]
      /\ \A k \in DOMAIN s : s[k] \in T => \E i \in DOMAIN Matching(s, T) : Matching(s, T)[i] = s[k]
  BY MatchingElements
<1>4. \A i \in ToSet(Matching(s, T)) : i \in ToSet(s) /\ i \in T
  BY <1>3 DEF ToSet
<1>5. \A i \in ToSet(s) : i \in T => i \in ToSet(Matching(s, T))
  BY <1>3 DEF ToSet
<1>6. \A i \in T : PlatOf[i] = NoPlat \/ PlatOf[i].arch = a
  BY DEF T
<1>7. \A i \in ToSet(s) : PlatOf[i] = NoPlat \/ PlatOf[i].arch = a => i \in T
  BY <1>2 DEF ToSet
<1> QED
  BY <1>1, <1>3, <1>4, <1>5, <1>6, <1>7

LEMMA PutIndexIs ==
  ASSUME NEW r \in Refs, r[2] = Plain, NEW s \in Seq(Images), s # <<>>, Fits(s, r[1])
  PROVE  /\ PutIndex(r, s) \in Seq(Plans) /\ Len(PutIndex(r, s)) = 3 /\ DOMAIN PutIndex(r, s) = 1..3
         /\ PutIndex(r, s)[1] = Blob(Index(s)) /\ PutIndex(r, s)[2] = Unlist(r)
         /\ PutIndex(r, s)[3] = AppendTo(Entry(r, IndexOf(s)))
         /\ PutIndex(r, s)[1].do = "blob" /\ PutIndex(r, s)[2].do = "remove" /\ PutIndex(r, s)[3].do = "append"
         /\ \A k \in 1..3 : StepFits(PutIndex(r, s)[k], r[1]) /\ PutIndex(r, s)[k].do \in {"blob", "remove", "append"}
         /\ Entry(r, IndexOf(s)) \in Listing /\ EntryFits(Entry(r, IndexOf(s)))
         /\ Entry(r, IndexOf(s)).ref = r /\ Entry(r, IndexOf(s)).kind = "index" /\ Entry(r, IndexOf(s)).dig = s
<1> DEFINE e == Entry(r, IndexOf(s))
<1>1. IndexOf(s) \in Contents /\ IndexOf(s).kind = "index" /\ IndexOf(s).dig = s
  BY ContentsAre DEF IndexOf
<1>2. e \in Listing /\ e.ref = r /\ e.kind = "index" /\ e.dig = s
  BY <1>1, EntryIs
<1> HIDE DEF e
<1>3. EntryFits(e)
  BY <1>2 DEF EntryFits
<1>4. Blob(Index(s)) \in Plans /\ Unlist(r) \in Plans /\ AppendTo(e) \in Plans
  BY <1>2, BlobsAre, PlansAre
<1>5. StepFits(Blob(Index(s)), r[1]) /\ Blob(Index(s)).do = "blob"
  BY StepsAre DEF Blob
<1>6. StepFits(Unlist(r), r[1]) /\ Unlist(r).do = "remove"
  BY StepsAre
<1>7. StepFits(AppendTo(e), r[1]) /\ AppendTo(e).do = "append"
  BY <1>2, <1>3, StepsAre, ZenonT(60)
<1>8. PutIndex(r, s) = <<Blob(Index(s)), Unlist(r), AppendTo(e)>>
  BY DEF PutIndex, e
<1>9. /\ PutIndex(r, s) \in Seq(Plans) /\ Len(PutIndex(r, s)) = 3 /\ DOMAIN PutIndex(r, s) = 1..3
      /\ PutIndex(r, s)[1] = Blob(Index(s)) /\ PutIndex(r, s)[2] = Unlist(r)
      /\ PutIndex(r, s)[3] = AppendTo(e)
      /\ \A k \in 1..3 : k = 1 \/ k = 2 \/ k = 3
  BY <1>4, <1>8, Tuples
<1> QED
  BY <1>2, <1>3, <1>5, <1>6, <1>7, <1>9 DEF e

\* IndexWrite gives up, or it puts the new index in the place of the old one if any.
Puts(p, r, s, steps) ==
  /\ r \in Refs /\ r = Ref(r[1]) /\ r = job[p].ref /\ job[p].op \in {"pull", "index"}
  /\ s \in Seq(Images) /\ s # <<>> /\ Fits(s, r[1]) /\ Now(p).add # <<>>
  /\ Readable /\ OfKind(root.es, r, "image") = {} /\ IndexesReadable(r)
  /\ \/ /\ OfKind(root.es, r, "index") = {}
        /\ s = Now(p).add
        /\ steps = PutIndex(r, s)
     \/ /\ OfKind(root.es, r, "index") # {}
        /\ \A i \in ToSet(Now(p).add) : PlatOf[i] # NoPlat
        /\ LET old == root.es[First(OfKind(root.es, r, "index"))].dig IN
           /\ old \in Seq(Images) /\ old # <<>> /\ Fits(old, r[1])
           /\ Index(old) \in full
           /\ s \in Merged(old, Now(p).add)
           /\ steps = <<[do |-> "rm", d |-> Index(old)]>> \o PutIndex(r, s)

\* When IndexWrite gives up.
Refuses(p) ==
  LET r  == job[p].ref
      ix == OfKind(root.es, r, "index")
  IN \/ Now(p).add = <<>> \/ ~Readable \/ OfKind(root.es, r, "image") # {} \/ ~IndexesReadable(r)
     \/ /\ ix # {}
        /\ Index(root.es[First(ix)].dig) \notin full \/ \E i \in ToSet(Now(p).add) : PlatOf[i] = NoPlat

LEMMA IndexWriteDoes ==
  ASSUME Types, NEW p \in Procs, IndexWrite(p)
  PROVE  \/ Fail(p) /\ Refuses(p)
         \/ \E s, steps : Puts(p, job[p].ref, s, steps) /\ Then(p, steps)
<1> DEFINE r == job[p].ref
           add == Now(p).add
           ix == OfKind(root.es, r, "index")
           old == root.es[First(ix)].dig
<1>0. At(p, "index")
  BY DEF IndexWrite
<1>1. r \in Refs /\ r = Ref(r[1]) /\ job[p].op \in {"pull", "index"} /\ add \in Seq(Images) /\ Fits(add, r[1])
  <2>1. job[p].op \in {"pull", "index"}
    BY <1>0, AtIs DEF DoneBy, Types, Ops
  <2>2. r \in Refs /\ r = Ref(r[1])
    BY <1>0, <2>1, RefAt DEF Types
  <2>3. Now(p).add \in Seq(Images) /\ Fits(Now(p).add, r[1])
    BY <1>0, AtIs, PlanParts DEF Types, StepFits
  <2> QED
    BY <2>1, <2>2, <2>3
<1>2. \/ Fail(p) /\ Refuses(p)
      \/ /\ add # <<>> /\ Readable /\ OfKind(root.es, r, "image") = {} /\ IndexesReadable(r)
         /\ ix = {} /\ Then(p, PutIndex(r, add))
      \/ /\ add # <<>> /\ Readable /\ OfKind(root.es, r, "image") = {} /\ IndexesReadable(r)
         /\ ix # {} /\ Index(old) \in full /\ \A i \in ToSet(add) : PlatOf[i] # NoPlat
         /\ \E new \in Merged(old, add) : Then(p, <<[do |-> "rm", d |-> Index(old)]>> \o PutIndex(r, new))
  BY DEF IndexWrite, Refuses
<1>3. CASE /\ add # <<>> /\ Readable /\ OfKind(root.es, r, "image") = {} /\ IndexesReadable(r)
           /\ ix = {} /\ Then(p, PutIndex(r, add))
  <2>1. Puts(p, r, add, PutIndex(r, add))
    BY <1>1, <1>3 DEF Puts
  <2> QED
    BY <1>3, <2>1
<1>4. CASE /\ add # <<>> /\ Readable /\ OfKind(root.es, r, "image") = {} /\ IndexesReadable(r)
           /\ ix # {} /\ Index(old) \in full /\ \A i \in ToSet(add) : PlatOf[i] # NoPlat
           /\ \E new \in Merged(old, add) : Then(p, <<[do |-> "rm", d |-> Index(old)]>> \o PutIndex(r, new))
  <2>1. PICK new \in Merged(old, add) : Then(p, <<[do |-> "rm", d |-> Index(old)]>> \o PutIndex(r, new))
    BY <1>4
  <2>2. old \in Seq(Images) /\ old # <<>> /\ Fits(old, r[1])
    <3>1. /\ First(ix) \in DOMAIN root.es /\ root.es[First(ix)] \in Listing
          /\ root.es[First(ix)].kind = "index" /\ root.es[First(ix)].ref = r
      BY <1>4, RootEntries, OfKindIs DEF Types
    <3>2. EntryFits(root.es[First(ix)])
      BY <3>1 DEF Types, RootFits
    <3> QED
      BY <3>1, <3>2, ListingParts DEF EntryFits
  <2> HIDE DEF old
  <2>3. new \in Seq(Images) /\ new # <<>> /\ ToSet(new) \subseteq ToSet(old) \cup ToSet(add)
    <3> HIDE DEF add
    <3> QED BY <1>1, <1>4, <2>1, <2>2, MergedFrom
  <2>4. Fits(new, r[1])
    BY <1>1, <2>2, <2>3 DEF Fits
  <2> DEFINE steps == <<[do |-> "rm", d |-> Index(old)]>> \o PutIndex(r, new)
  <2>5. Puts(p, r, new, steps)
    BY <1>1, <1>4, <2>1, <2>2, <2>3, <2>4 DEF Puts, old
  <2> QED
    BY <2>1, <2>5
<1> QED
  BY <1>2, <1>3, <1>4

LEMMA PutsAre ==
  ASSUME Types, NEW p \in Procs, At(p, "index"), NEW s, NEW steps, Puts(p, job[p].ref, s, steps)
  PROVE  /\ steps \in Seq(Plans) /\ Fresh(steps, job[p])
         /\ \E h \in {0, 1} :
              /\ Len(steps) = 3 + h /\ DOMAIN steps = 1..(3 + h)
              /\ h = 0 <=> OfKind(root.es, job[p].ref, "index") = {}
              /\ h = 1 => LET old == root.es[First(OfKind(root.es, job[p].ref, "index"))].dig IN
                          steps[1] = [do |-> "rm", d |-> Index(old)] /\ Index(old) \in full
              /\ steps[h + 1] = Blob(Index(s)) /\ steps[h + 2] = Unlist(job[p].ref)
              /\ steps[h + 3] = AppendTo(Entry(job[p].ref, IndexOf(s)))
<1> DEFINE r == job[p].ref
           old == root.es[First(OfKind(root.es, r, "index"))].dig
           put == PutIndex(r, s)
           rm == [do |-> "rm", d |-> Index(old)]
<1>1. /\ r \in Refs /\ r[2] = Plain /\ s \in Seq(Images) /\ s # <<>> /\ Fits(s, r[1])
      /\ job[p].op \in {"pull", "index"}
  <2> HIDE DEF r
  <2> QED
    BY RefsAre DEF Puts, r
<1>2. /\ put \in Seq(Plans) /\ Len(put) = 3 /\ DOMAIN put = 1..3
      /\ put[1] = Blob(Index(s)) /\ put[2] = Unlist(r) /\ put[3] = AppendTo(Entry(r, IndexOf(s)))
      /\ \A k \in 1..3 : StepFits(put[k], r[1]) /\ put[k].do \in {"blob", "remove", "append"}
  BY <1>1, PutIndexIs
<1>3. job[p].todo[1].do = "index"
  BY AtIs DEF Types
<1>4. {"rm", "blob", "remove", "append"} \subseteq DoneBy(job[p].op)
  BY <1>1 DEF DoneBy
<1>5. CASE OfKind(root.es, r, "index") = {}
  <2>1. steps = put
    BY <1>5 DEF Puts
  <2>2. Fresh(put, job[p])
    <3> HIDE DEF put
    <3> QED BY <1>2, <1>3, <1>4 DEF Fresh, Closing
  <2> QED
    BY <1>2, <1>5, <2>1, <2>2
<1>6. CASE OfKind(root.es, r, "index") # {}
  <2>1. steps = <<rm>> \o put /\ Index(old) \in full /\ old \in Seq(Images) /\ old # <<>> /\ Fits(old, r[1])
    BY <1>6 DEF Puts
  <2>2. rm \in Plans /\ StepFits(rm, r[1]) /\ rm.do = "rm"
    <3>1. rm \in Plans
      BY <2>1, BlobsAre, PlansAre
    <3>2. StepFits(rm, r[1])
      BY <2>1, StepsAre
    <3> QED BY <3>1, <3>2
  <2> HIDE DEF rm, put
  <2>3. /\ steps \in Seq(Plans) /\ Len(steps) = 4 /\ DOMAIN steps = 1..4
        /\ steps[1] = rm /\ steps[2] = put[1] /\ steps[3] = put[2] /\ steps[4] = put[3]
        /\ \A k \in 1..4 : k = 1 \/ k = 2 \/ k = 3 \/ k = 4
    <3> DEFINE P == Plans
    <3>1. rm \in P /\ put \in Seq(P)
      BY <1>2, <2>2
    <3> HIDE DEF P
    <3>3. /\ <<rm>> \o put \in Seq(P) /\ Len(<<rm>> \o put) = 4 /\ DOMAIN (<<rm>> \o put) = 1..4
          /\ (<<rm>> \o put)[1] = rm
          /\ \A k \in 1..3 : (<<rm>> \o put)[k + 1] = put[k]
      <4>1. /\ <<rm>> \o put \in Seq(P) /\ Len(<<rm>> \o put) = Len(put) + 1
            /\ DOMAIN (<<rm>> \o put) = 1..(Len(put) + 1)
            /\ (<<rm>> \o put)[1] = rm
            /\ \A k \in 1..Len(put) : (<<rm>> \o put)[k + 1] = put[k]
        BY <3>1, Before
      <4> QED BY <1>2, <4>1
    <3>4. steps = <<rm>> \o put
      BY <2>1
    <3>5. (<<rm>> \o put)[2] = put[1] /\ (<<rm>> \o put)[3] = put[2] /\ (<<rm>> \o put)[4] = put[3]
      BY <3>3
    <3> QED
      BY <3>3, <3>4, <3>5 DEF P
  <2>4. \A k \in 1..4 : StepFits(steps[k], r[1]) /\ steps[k].do \in {"rm", "blob", "remove", "append"}
    BY <1>2, <2>2, <2>3
  <2>5. Fresh(steps, job[p])
    BY <1>3, <1>4, <2>3, <2>4 DEF Fresh, Closing
  <2>6. LET was == root.es[First(OfKind(root.es, job[p].ref, "index"))].dig IN
          steps[1] = [do |-> "rm", d |-> Index(was)] /\ Index(was) \in full
    BY <2>1, <2>3 DEF rm
  <2>7. /\ steps[1 + 1] = Blob(Index(s)) /\ steps[1 + 2] = Unlist(job[p].ref)
        /\ steps[1 + 3] = AppendTo(Entry(job[p].ref, IndexOf(s)))
    BY <1>2, <2>3
  <2>8. Len(steps) = 3 + 1 /\ DOMAIN steps = 1..(3 + 1) /\ 1 # 0 /\ 1 \in {0, 1}
    BY <2>3
  <2> QED
    BY <1>6, <2>3, <2>5, <2>6, <2>7, <2>8, Zenon
<1> QED
  BY <1>5, <1>6

LEMMA Types_IndexWrite ==
  ASSUME Types, NEW p \in Procs, IndexWrite(p)
  PROVE  Types'
<1>1. At(p, "index") /\ UNCHANGED <<disk, remote, ops, faults>>
  BY DEF IndexWrite
<1>2. CASE Fail(p)
  BY <1>1, <1>2, ReturnFits, QuietTypes DEF Fail, Types
<1>3. ASSUME NEW s, NEW steps, Puts(p, job[p].ref, s, steps), Then(p, steps)
      PROVE  Types'
  <2>1. steps \in Seq(Plans) /\ Fresh(steps, job[p]) /\ Todo(p) # <<>>
    BY <1>1, <1>3, PutsAre DEF At
  <2>2. JobsFit'
    BY <1>3, <2>1, ThenFits DEF Types
  <2> QED
    BY <1>1, <2>2, QuietTypes
<1> QED
  BY <1>2, <1>3, IndexWriteDoes

\* The steps of a pull after the registry has answered.
Answered(p, c) ==
  (CASE c.kind = "index" ->
          <<[do |-> "index", add |-> c.dig]>> \o WriteImages(Wanted(c.dig, job[p].arch))
     [] c.kind = "image" ->
          WriteImage(c.dig) \o <<Relist(Entry(job[p].ref, c))>>
     [] OTHER -> <<>>) \o <<Do("validate")>>

\* The steps u merge the index s of name n and write its images for architecture a.
IndexSteps(u, s, a, n) ==
  /\ u \in Seq(Plans) /\ Len(u) > 1 /\ DOMAIN u = 1..Len(u)
  /\ u[1] = [do |-> "index", add |-> s] /\ u[Len(u)] = Do("validate")
  /\ \A k \in 2..(Len(u) - 1) : \E i \in ToSet(Wanted(s, a)) :
       u[k] \in {Blob(Layers(i)), Blob(Manifest(i))}
  /\ \A i \in ToSet(Wanted(s, a)) :
       \E j, k \in 2..(Len(u) - 1) : u[j] = Blob(Layers(i)) /\ u[k] = Blob(Manifest(i))
  /\ \A k \in DOMAIN u : /\ u[k].do \in {"index", "blob", "validate"}
                         /\ u[k].do = "validate" => k = Len(u)
                         /\ StepFits(u[k], n)

LEMMA AnsweredIndex ==
  ASSUME Types, NEW p \in Procs, job[p].op = "pull", NEW s \in Seq(Images), Fits(s, job[p].ref[1])
  PROVE  IndexSteps(Answered(p, IndexOf(s)), s, job[p].arch, job[p].ref[1])
<1> DEFINE u == Answered(p, IndexOf(s))
<1> DEFINE w == Wanted(s, job[p].arch)
           x == [do |-> "index", add |-> s]
           v == Do("validate")
           b == WriteImages(w)
<1>1. w \in Seq(Images)
  BY WantedIs
<1>2. /\ b \in Seq(Plans)
      /\ \A j \in DOMAIN b : \E i \in DOMAIN w : b[j] \in {Blob(Layers(w[i])), Blob(Manifest(w[i]))}
      /\ \A i \in DOMAIN w : \E j \in DOMAIN b : b[j] = Blob(Layers(w[i]))
      /\ \A i \in DOMAIN w : \E j \in DOMAIN b : b[j] = Blob(Manifest(w[i]))
  <2> HIDE DEF w
  <2> QED BY <1>1, WriteImagesAre
<1>3. x \in Plans /\ x.do = "index" /\ StepFits(x, job[p].ref[1])
  <2>1. x \in Plans
    BY PlansAre
  <2>2. StepFits(x, job[p].ref[1])
    BY StepsAre
  <2> QED BY <2>1, <2>2
<1>4. v \in Plans /\ v.do = "validate" /\ StepFits(v, job[p].ref[1])
  BY PlansAre, StepsAre
<1>5. u = (<<x>> \o b) \o <<v>>
  BY DEF Answered, IndexOf
<1> HIDE DEF u
<1>6. \A i \in Images : /\ Blob(Layers(i)).do = "blob" /\ StepFits(Blob(Layers(i)), job[p].ref[1])
                        /\ Blob(Manifest(i)).do = "blob" /\ StepFits(Blob(Manifest(i)), job[p].ref[1])
  BY StepsAre
<1>7. \A i \in DOMAIN w : w[i] \in Images /\ w[i] \in ToSet(w)
  <2> HIDE DEF w
  <2> QED BY <1>1 DEF ToSet
<1>8. \A i \in ToSet(w) : \E j \in DOMAIN w : w[j] = i
  BY DEF ToSet
<1> HIDE DEF w, x, v, b
<1> DEFINE P == Plans
           a == <<x>> \o b
<1>9. /\ a \in Seq(P) /\ Len(a) = Len(b) + 1 /\ Len(b) \in Nat /\ DOMAIN b = 1..Len(b)
      /\ a[1] = x
      /\ \A k \in 1..Len(b) : a[k + 1] = b[k]
      /\ \A k \in 1..(Len(b) + 1) : k = 1 \/ (k - 1 \in 1..Len(b) /\ a[k] = b[k - 1])
  <2>1. x \in P /\ b \in Seq(P)
    BY <1>2, <1>3
  <2> HIDE DEF P
  <2> QED BY <2>1, Before
<1> HIDE DEF a
<1>10. /\ u \in Seq(P) /\ Len(u) = Len(a) + 1 /\ Len(a) \in Nat /\ DOMAIN u = 1..(Len(a) + 1)
       /\ u[Len(a) + 1] = v
       /\ \A k \in 1..Len(a) : u[k] = a[k]
  <2>1. v \in P /\ a \in Seq(P) /\ u = a \o <<v>>
    BY <1>4, <1>5, <1>9 DEF a
  <2> HIDE DEF P
  <2>2. /\ a \o <<v>> \in Seq(P) /\ Len(a \o <<v>>) = Len(a) + 1 /\ Len(a) \in Nat
        /\ DOMAIN (a \o <<v>>) = 1..(Len(a) + 1)
        /\ (a \o <<v>>)[Len(a) + 1] = v
        /\ \A k \in 1..Len(a) : (a \o <<v>>)[k] = a[k]
    BY <2>1, After
  <2> QED BY <2>1, <2>2
<1>11. /\ u[1] = x /\ u[Len(u)] = v /\ Len(u) = Len(b) + 2 /\ DOMAIN u = 1..Len(u)
       /\ \A k \in 1..Len(b) : k + 1 \in 2..(Len(u) - 1) /\ u[k + 1] = b[k]
       /\ \A k \in 2..(Len(u) - 1) : k - 1 \in DOMAIN b /\ u[k] = b[k - 1]
  BY <1>9, <1>10
<1>12. \A k \in 2..(Len(u) - 1) : \E i \in ToSet(w) : u[k] \in {Blob(Layers(i)), Blob(Manifest(i))}
  BY <1>2, <1>7, <1>11
<1>13. ASSUME NEW i \in ToSet(w)
       PROVE  \E j, k \in 2..(Len(u) - 1) : u[j] = Blob(Layers(i)) /\ u[k] = Blob(Manifest(i))
  <2>1. PICK h \in DOMAIN w : w[h] = i
    BY <1>8
  <2>2. PICK j \in DOMAIN b : b[j] = Blob(Layers(i))
    BY <1>2, <2>1
  <2>3. PICK k \in DOMAIN b : b[k] = Blob(Manifest(i))
    BY <1>2, <2>1
  <2> QED
    BY <1>9, <1>11, <2>2, <2>3
<1>14. \A i \in ToSet(w) : i \in Images
  BY <1>7, <1>8
<1>15. ASSUME NEW k \in DOMAIN u
       PROVE  /\ u[k].do \in {"index", "blob", "validate"} /\ StepFits(u[k], job[p].ref[1])
              /\ u[k].do = "validate" => k = Len(u)
  <2>1. k = 1 \/ k = Len(u) \/ k \in 2..(Len(u) - 1)
    BY <1>9, <1>11
  <2>2. CASE k = 1
    BY <1>3, <1>11, <2>2
  <2>3. CASE k = Len(u)
    BY <1>4, <1>11, <2>3
  <2>4. CASE k \in 2..(Len(u) - 1)
    BY <1>6, <1>12, <1>14, <2>4
  <2> QED
    BY <2>1, <2>2, <2>3, <2>4
<1>16. Len(u) > 1
  BY <1>9, <1>11
<1>17. IndexSteps(u, s, job[p].arch, job[p].ref[1])
  BY <1>10, <1>11, <1>12, <1>13, <1>15, <1>16 DEF w, x, v, P, IndexSteps
<1> QED
  BY <1>17 DEF u

LEMMA AnsweredImage ==
  ASSUME Types, NEW p \in Procs, job[p].op = "pull", job[p].ref \in Refs,
         NEW i \in Images, i \in ImagesOf(job[p].ref[1]),
         NEW u, u = Answered(p, ImageOf(i))
  PROVE  /\ u \in Seq(Plans) /\ Len(u) = 4 /\ DOMAIN u = 1..4
         /\ u[1] = Blob(Layers(i)) /\ u[2] = Blob(Manifest(i))
         /\ u[3] = Relist(Entry(job[p].ref, ImageOf(i))) /\ u[4] = Do("validate")
         /\ u[1].do = "blob" /\ u[2].do = "blob" /\ u[3].do = "replace" /\ u[4].do = "validate"
         /\ \A k \in 1..4 : StepFits(u[k], job[p].ref[1])
         /\ \A k \in 1..4 : k = 1 \/ k = 2 \/ k = 3 \/ k = 4
<1> DEFINE e == Entry(job[p].ref, ImageOf(i))
           v == Do("validate")
<1>1. e \in Listing /\ EntryFits(e) /\ e.ref = job[p].ref
  <2>1. ImageOf(i) \in Contents /\ ImageOf(i).kind = "image" /\ ImageOf(i).dig = i
    BY ContentsAre DEF ImageOf
  <2>2. e \in Listing /\ e.ref = job[p].ref /\ e.kind = "image" /\ e.dig = i
    BY <2>1, EntryIs
  <2> HIDE DEF e
  <2> QED BY <2>2 DEF EntryFits
<1> HIDE DEF e
<1>2. Relist(e) \in Plans /\ StepFits(Relist(e), job[p].ref[1]) /\ Relist(e).do = "replace"
  <2>1. Relist(e) \in Plans
    BY <1>1, PlansAre
  <2> QED BY <1>1, <2>1, StepsAre, ZenonT(60)
<1>3. v \in Plans /\ v.do = "validate" /\ StepFits(v, job[p].ref[1])
  BY PlansAre, StepsAre
<1>4. /\ Blob(Layers(i)).do = "blob" /\ StepFits(Blob(Layers(i)), job[p].ref[1])
      /\ Blob(Manifest(i)).do = "blob" /\ StepFits(Blob(Manifest(i)), job[p].ref[1])
      /\ Blob(Layers(i)) \in Plans /\ Blob(Manifest(i)) \in Plans
  BY StepsAre, PlansAre, BlobsAre
<1>5. u = (<<Blob(Layers(i)), Blob(Manifest(i))>> \o <<Relist(e)>>) \o <<v>>
  BY DEF Answered, ImageOf, WriteImage, e
<1> HIDE DEF v
<1>6. /\ u \in Seq(Plans) /\ Len(u) = 4 /\ DOMAIN u = 1..4
      /\ u[1] = Blob(Layers(i)) /\ u[2] = Blob(Manifest(i)) /\ u[3] = Relist(e) /\ u[4] = v
      /\ \A k \in 1..4 : k = 1 \/ k = 2 \/ k = 3 \/ k = 4
  <2> DEFINE P == Plans
             a == Blob(Layers(i))
             b == Blob(Manifest(i))
             c == Relist(e)
             h == <<a, b>>
  <2>1. a \in P /\ b \in P /\ c \in P /\ v \in P /\ u = (h \o <<c>>) \o <<v>>
    BY <1>2, <1>3, <1>4, <1>5
  <2> HIDE DEF P, a, b, c
  <2>2. h \in Seq(P) /\ Len(h) = 2 /\ h[1] = a /\ h[2] = b
    BY <2>1
  <2> HIDE DEF h
  <2>3. /\ (h \o <<c>>) \o <<v>> \in Seq(P) /\ Len((h \o <<c>>) \o <<v>>) = 4
        /\ DOMAIN ((h \o <<c>>) \o <<v>>) = 1..4
        /\ ((h \o <<c>>) \o <<v>>)[1] = h[1] /\ ((h \o <<c>>) \o <<v>>)[2] = h[2]
        /\ ((h \o <<c>>) \o <<v>>)[3] = c /\ ((h \o <<c>>) \o <<v>>)[4] = v
    BY <2>1, <2>2, TwoMore
  <2>4. \A k \in 1..4 : k = 1 \/ k = 2 \/ k = 3 \/ k = 4
    OBVIOUS
  <2> QED
    BY <2>1, <2>2, <2>3, <2>4 DEF P, a, b, c
<1> QED
  BY <1>2, <1>3, <1>4, <1>6 DEF e, v

LEMMA AnsweredAre ==
  ASSUME Types, NEW p \in Procs, job[p].op = "pull", job[p].ref \in Refs,
         NEW c \in Contents, ContentFits(c, job[p].ref[1])
  PROVE  /\ Answered(p, c) \in Seq(Plans)
         /\ \A k \in DOMAIN Answered(p, c) :
              /\ Answered(p, c)[k].do \in {"index", "blob", "replace", "validate"}
              /\ Answered(p, c)[k].do = "validate" => k = Len(Answered(p, c))
              /\ StepFits(Answered(p, c)[k], job[p].ref[1])
<1> DEFINE u == Answered(p, c)
           r == job[p].ref
<1>1. CASE c.kind = "index"
  <2>1. c.dig \in Seq(Images) /\ c = IndexOf(c.dig) /\ Fits(c.dig, r[1])
    BY <1>1, ContentParts DEF ContentFits
  <2>2. u = Answered(p, IndexOf(c.dig))
    BY <2>1
  <2> HIDE DEF u
  <2>3. /\ u \in Seq(Plans)
        /\ \A k \in DOMAIN u : /\ u[k].do \in {"index", "blob", "validate"}
                               /\ u[k].do = "validate" => k = Len(u)
                               /\ StepFits(u[k], job[p].ref[1])
    <3> DEFINE s == c.dig
    <3>1. s \in Seq(Images) /\ Fits(s, job[p].ref[1]) /\ u = Answered(p, IndexOf(s))
      BY <2>1, <2>2
    <3> HIDE DEF s
    <3>2. IndexSteps(u, s, job[p].arch, job[p].ref[1])
      BY <3>1, AnsweredIndex
    <3> QED BY <3>2 DEF IndexSteps
  <2> QED
    BY <2>3 DEF u
<1>2. CASE c.kind = "image"
  <2>1. c.dig \in Images /\ c = ImageOf(c.dig) /\ c.dig \in ImagesOf(r[1])
    BY <1>2, ContentParts DEF ContentFits
  <2>2. u = Answered(p, ImageOf(c.dig))
    BY <2>1
  <2> HIDE DEF u
  <2>3. /\ u \in Seq(Plans) /\ Len(u) = 4 /\ DOMAIN u = 1..4
        /\ u[1].do = "blob" /\ u[2].do = "blob" /\ u[3].do = "replace" /\ u[4].do = "validate"
        /\ \A k \in 1..4 : StepFits(u[k], job[p].ref[1])
        /\ \A k \in 1..4 : k = 1 \/ k = 2 \/ k = 3 \/ k = 4
    <3> DEFINE i == c.dig
    <3>1. i \in Images /\ i \in ImagesOf(job[p].ref[1]) /\ u = Answered(p, ImageOf(i))
      BY <2>1, <2>2
    <3> HIDE DEF i
    <3> QED BY <3>1, AnsweredImage
  <2>4. \A k \in DOMAIN u : /\ u[k].do \in {"index", "blob", "replace", "validate"}
                           /\ u[k].do = "validate" => k = Len(u)
                           /\ StepFits(u[k], job[p].ref[1])
    BY <2>3
  <2> QED
    BY <2>3, <2>4 DEF u
<1> QED
  BY <1>1, <1>2, ContentParts

\* Fetch gives up, or the command becomes what the answer asks for.
LEMMA FetchDoes ==
  ASSUME Types, NEW p \in Procs, Fetch(p)
  PROVE  /\ Types' /\ job[p].op = "pull" /\ job[p].ref \in Refs
         /\ \A q \in Procs : q # p => job'[q] = job[q]
         /\ \/ Fail(p) /\ remote[job[p].ref] = Nothing
            \/ /\ remote[job[p].ref] \in Contents
               /\ ContentFits(remote[job[p].ref], job[p].ref[1])
               /\ Todo(p)' = Answered(p, remote[job[p].ref])
               /\ job'[p] = [job[p] EXCEPT !.todo = Answered(p, remote[job[p].ref]),
                                           !.got = remote[job[p].ref]]
<1> DEFINE r == job[p].ref
           c == remote[r]
<1>0. At(p, "fetch") /\ UNCHANGED <<disk, remote, ops, faults>>
  BY Zenon DEF Fetch
<1>1. /\ job[p].op = "pull" /\ r \in Refs /\ job[p] \in Jobs /\ JobFits(job[p]) /\ Todo(p) = job[p].todo
      /\ job[p].todo[1].do = "fetch" /\ job[p].todo # <<>> /\ job[p].todo \in Seq(Plans)
  <2>1. job[p].op = "pull"
    BY <1>0, AtIs DEF DoneBy, Types, Ops
  <2>2. r \in Refs
    BY <1>0, RefAt DEF Types
  <2> QED
    BY <1>0, <2>1, <2>2, AtIs DEF Types
<1>2. c \in Contents \cup {Nothing} /\ ContentFits(c, r[1])
  BY <1>1 DEF Types, RemoteFits
<1>3. CASE c.kind = "nothing"
  <2>1. Fail(p)
    BY <1>3 DEF Fetch
  <2>2. c = Nothing
    BY <1>2, <1>3, ContentParts
  <2>3. JobsFit' /\ \A q \in Procs : q # p => job'[q] = job[q]
    BY <2>1, ReturnFits DEF Fail, Types
  <2> QED
    BY <1>0, <1>1, <2>1, <2>2, <2>3, QuietTypes
<1>4. CASE c.kind # "nothing"
  <2> DEFINE u == Answered(p, c)
             w == [job[p] EXCEPT !.todo = u \o Tail(job[p].todo), !.got = c]
  <2>1. job' = [job EXCEPT ![p].todo = u \o Tail(@), ![p].got = c]
    BY <1>4, Zenon DEF Fetch, Answered
  <2>2. c \in Contents
    BY <1>2, <1>4 DEF Nothing
  <2>3. /\ u \in Seq(Plans)
        /\ \A k \in DOMAIN u : /\ u[k].do \in {"index", "blob", "replace", "validate"}
                               /\ u[k].do = "validate" => k = Len(u)
                               /\ StepFits(u[k], r[1])
    BY <1>1, <1>2, <2>2, AnsweredAre
  <2> HIDE DEF u
  <2>4. Fresh(u, job[p])
    BY <1>1, <2>3 DEF Fresh, DoneBy, Closing
  <2>5. u \o Tail(job[p].todo) = u
    <3> DEFINE P == Plans
               t == job[p].todo
    <3>1. t \in Seq(P) /\ u \in Seq(P) /\ t # <<>> /\ t[1].do \in Closing
      BY <1>1, <2>3 DEF Closing
    <3>2. 1 \in DOMAIN t => Len(t) = 1
      BY <1>1, <3>1 DEF JobFits, Ordered
    <3> HIDE DEF P, t
    <3>3. 1 \in DOMAIN t
      BY <3>1
    <3>4. u \o Tail(t) = u
      BY <3>1, <3>2, <3>3, LastStep
    <3> QED
      BY <3>4 DEF t
  <2>6. w = [job[p] EXCEPT !.todo = u \o Tail(job[p].todo), !.buf = job[p].buf, !.got = c]
    BY <1>1 DEF Jobs
  <2>7. job[p].buf \in Seq(Listing) /\ \A j \in DOMAIN job[p].buf : EntryFits(job[p].buf[j])
    BY <1>1 DEF Jobs, JobFits
  <2>8. w \in Jobs /\ JobFits(w)
    <3> HIDE DEF w
    <3> QED BY <1>1, <1>2, <2>3, <2>4, <2>6, <2>7, FreshFits
  <2>9. w.todo = u
    BY <1>1, <2>5 DEF Jobs
  <2>10. job' = [job EXCEPT ![p] = w]
    BY <2>1
  <2>11. w = [job[p] EXCEPT !.todo = u, !.got = c]
    BY <2>5
  <2> HIDE DEF w
  <2>12. job'[p] = w /\ (\A q \in Procs : q # p => job'[q] = job[q]) /\ job' \in [Procs -> Jobs]
    BY <2>8, <2>10 DEF Types, JobsFit
  <2>13. JobsFit' /\ Todo(p)' = u
    BY <2>8, <2>9, <2>12 DEF Types, JobsFit, Todo
  <2>14. Types'
    BY <1>0, <2>13, QuietTypes
  <2> QED
    BY <1>1, <1>2, <2>2, <2>11, <2>12, <2>13, <2>14 DEF u
<1> QED
  BY <1>3, <1>4

\* Steps that only end the command, or go on with it.
LEMMA QuietReturn ==
  ASSUME Types, NEW p \in Procs, NEW ok \in BOOLEAN, Return(p, ok), UNCHANGED <<disk, remote, ops, faults>>
  PROVE  Types'
BY ReturnFits, QuietTypes DEF Types

LEMMA ValidIsBoolean ==
  ASSUME NEW r, NEW a
  PROVE  Valid(r, a) \in BOOLEAN
BY DEF Valid, Complete

LEMMA Types_Look ==
  ASSUME Types, NEW p \in Procs, Look(p)
  PROVE  Types'
<1>1. At(p, "look") /\ UNCHANGED <<disk, remote, ops, faults>> /\ Todo(p) # <<>>
  BY DEF Look, At
<1>2. CASE Return(p, TRUE)
  BY <1>1, <1>2, QuietReturn
<1>3. CASE Then(p, <<>>)
  BY <1>1, <1>3, StepDone, QuietTypes DEF Types
<1> QED
  BY <1>2, <1>3 DEF Look

LEMMA Types_Validate ==
  ASSUME Types, NEW p \in Procs, Validate(p)
  PROVE  Types'
BY ValidIsBoolean, QuietReturn DEF Validate

LEMMA Types_Finish ==
  ASSUME Types, NEW p \in Procs, Finish(p)
  PROVE  Types'
BY QuietReturn DEF Finish

(***************************************************************************)
(* Push                                                                    *)
(***************************************************************************)

\* What a push sends to the registry after the image or index itself.
Sent(p) == LET found == FindRoot(job[p].ref) IN
           IF found.kind = "image" THEN <<>> ELSE Matching(found.dig, {i \in Images : PlatOf[i] # NoPlat})
Sends(p) == [j \in DOMAIN Sent(p) |-> [do |-> "tag", i |-> Sent(p)[j], again |-> FALSE]]

LEMMA SentIs ==
  ASSUME Types, NEW p \in Procs, NEW c \in Contents, c = FindRoot(job[p].ref), NEW n, ContentFits(c, n)
  PROVE  /\ Sent(p) \in Seq(Images)
         /\ \A j \in DOMAIN Sent(p) : Sent(p)[j] \in ImagesOf(n) /\ PlatOf[Sent(p)[j]] # NoPlat
         /\ c.kind = "index" =>
              \A i \in ToSet(c.dig) : PlatOf[i] # NoPlat => \E j \in DOMAIN Sent(p) : Sent(p)[j] = i
<1> DEFINE T == {i \in Images : PlatOf[i] # NoPlat}
           s == c.dig
<1>1. CASE c.kind = "image"
  BY <1>1, EmptyLists DEF Sent
<1>2. CASE c.kind = "index"
  <2>1. s \in Seq(Images) /\ Fits(s, n) /\ Sent(p) = Matching(s, T)
    BY <1>2, ContentParts DEF ContentFits, Sent
  <2>2. \A i \in T : i \in Images /\ PlatOf[i] # NoPlat
    OBVIOUS
  <2>3. \A i \in Images : PlatOf[i] # NoPlat => i \in T
    OBVIOUS
  <2> HIDE DEF T, s
  <2>4. /\ Matching(s, T) \in Seq(Images)
        /\ \A i \in DOMAIN Matching(s, T) : Matching(s, T)[i] \in T
        /\ \A i \in DOMAIN Matching(s, T) : \E k \in DOMAIN s : Matching(s, T)[i] = s[k]
        /\ \A k \in DOMAIN s : s[k] \in T => \E i \in DOMAIN Matching(s, T) : Matching(s, T)[i] = s[k]
    BY <2>1, MatchingElements
  <2>5. \A k \in DOMAIN s : s[k] \in Images /\ s[k] \in ToSet(s)
    BY <2>1 DEF ToSet
  <2>6. \A i \in ToSet(s) : \E k \in DOMAIN s : s[k] = i
    BY DEF ToSet
  <2>7. \A j \in DOMAIN Sent(p) : Sent(p)[j] \in ImagesOf(n) /\ PlatOf[Sent(p)[j]] # NoPlat
    BY <2>1, <2>2, <2>4, <2>5 DEF Fits
  <2>8. \A i \in ToSet(s) : PlatOf[i] # NoPlat => \E j \in DOMAIN Sent(p) : Sent(p)[j] = i
    BY <2>1, <2>3, <2>4, <2>5, <2>6
  <2> QED
    BY <2>1, <2>4, <2>7, <2>8 DEF s
<1> QED
  BY <1>1, <1>2, ContentParts

LEMMA SendsAre ==
  ASSUME Types, NEW p \in Procs, At(p, "push"), NEW c \in Contents, c = FindRoot(job[p].ref),
         ContentFits(c, job[p].ref[1])
  PROVE  /\ Sends(p) \o <<Do("manifest")>> \in Seq(Plans) /\ Fresh(Sends(p) \o <<Do("manifest")>>, job[p])
         /\ Sends(p) \in Seq(Plans) /\ Len(Sends(p)) \in Nat
         /\ Len(Sends(p) \o <<Do("manifest")>>) = Len(Sends(p)) + 1
         /\ DOMAIN (Sends(p) \o <<Do("manifest")>>) = 1..(Len(Sends(p)) + 1)
         /\ (Sends(p) \o <<Do("manifest")>>)[Len(Sends(p)) + 1] = Do("manifest")
         /\ \A k \in 1..Len(Sends(p)) : (Sends(p) \o <<Do("manifest")>>)[k] = Sends(p)[k]
         /\ DOMAIN Sends(p) = DOMAIN Sent(p) /\ DOMAIN Sends(p) = 1..Len(Sends(p))
         /\ \A j \in DOMAIN Sent(p) : Sends(p)[j].do = "tag" /\ Sends(p)[j].i = Sent(p)[j]
<1> DEFINE P == Plans
           s == Sent(p)
           u == Sends(p)
           m == Do("manifest")
           n == job[p].ref[1]
<1>1. s \in Seq(Images) /\ \A j \in DOMAIN s : s[j] \in ImagesOf(n) /\ PlatOf[s[j]] # NoPlat
  BY SentIs
<1>2. \A j \in DOMAIN s : s[j] \in Images /\ u[j] = [do |-> "tag", i |-> s[j], again |-> FALSE]
  BY <1>1 DEF Sends
<1>3. \A j \in DOMAIN s : u[j] \in Plans
  BY <1>2, PlansAre
<1>4. ASSUME NEW j \in DOMAIN s PROVE u[j].do = "tag" /\ u[j].i = s[j] /\ StepFits(u[j], n)
  <2> DEFINE x == [do |-> "tag", i |-> s[j], again |-> FALSE]
  <2>1. x.do = "tag" /\ x.i = s[j] /\ u[j] = x
    BY <1>2
  <2> HIDE DEF x, s, u, n
  <2>2. StepFits(x, n)
    BY <1>1, <2>1 DEF StepFits
  <2> QED
    BY <2>1, <2>2
<1>5. m \in Plans /\ m.do = "manifest" /\ StepFits(m, n)
  BY PlansAre, StepsAre
<1>6. u = [j \in DOMAIN s |-> u[j]]
  BY DEF Sends
<1> HIDE DEF P, s, u, m
<1>7. DOMAIN s = 1..Len(s) /\ Len(s) \in Nat
  BY <1>1
<1>8. u \in Seq(P) /\ DOMAIN u = DOMAIN s /\ Len(u) = Len(s)
  <2>1. \A j \in 1..Len(s) : u[j] \in P
    BY <1>3, <1>7 DEF P
  <2>2. u = [j \in 1..Len(s) |-> u[j]]
    BY <1>6, <1>7
  <2> DEFINE l == Len(s)
  <2> HIDE DEF l
  <2>3. l \in Nat /\ u = [j \in 1..l |-> u[j]] /\ \A j \in 1..l : u[j] \in P
    BY <1>7, <2>1, <2>2 DEF l
  <2>4. u \in [1..l -> P]
    BY <2>3
  <2>5. u \in Seq(P) /\ DOMAIN u = 1..l /\ Len(u) = l
    BY <2>3, <2>4
  <2> QED
    BY <1>7, <2>5 DEF l
<1>9. /\ u \o <<m>> \in Seq(P) /\ Len(u \o <<m>>) = Len(u) + 1 /\ Len(u) \in Nat
      /\ DOMAIN (u \o <<m>>) = 1..(Len(u) + 1) /\ DOMAIN u = 1..Len(u)
      /\ (u \o <<m>>)[Len(u) + 1] = m
      /\ \A k \in 1..Len(u) : (u \o <<m>>)[k] = u[k]
      /\ \A k \in 1..(Len(u) + 1) : k = Len(u) + 1 \/ (k \in 1..Len(u) /\ (u \o <<m>>)[k] = u[k])
  <2>1. m \in P /\ u \in Seq(P)
    BY <1>5, <1>8 DEF P
  <2> QED BY <2>1, After
<1>10. job[p].todo[1].do = "push" /\ job[p].op = "push"
  BY AtIs DEF Types, DoneBy, Ops
<1>11. Fresh(u \o <<m>>, job[p])
  <2> DEFINE w == u \o <<m>>
  <2>1. \A k \in DOMAIN w : \/ k = Len(w) /\ w[k].do = "manifest" /\ StepFits(w[k], n)
                            \/ w[k].do = "tag" /\ StepFits(w[k], n)
    BY <1>4, <1>5, <1>8, <1>9
  <2> HIDE DEF w
  <2>2. Fresh(w, job[p])
    BY <1>10, <2>1 DEF Fresh, Closing, DoneBy
  <2> QED
    BY <2>2 DEF w
<1> QED
  BY <1>4, <1>8, <1>9, <1>11 DEF P, s, u, m

\* What lies under a name fits it.
LEMMA FoundFits ==
  ASSUME Types, NEW r \in Refs, FindRoot(r) # Nothing
  PROVE  /\ FindRoot(r) \in Contents /\ ContentFits(FindRoot(r), r[1])
         /\ FindRoot(r).kind = "index" => FindRoot(r).dig # <<>> /\ r[2] = Plain
<1>1. PICK j \in DOMAIN root.es :
        /\ root.es[j].ref = r /\ root.es[j].kind = FindRoot(r).kind /\ root.es[j].dig = FindRoot(r).dig
        /\ FindRoot(r) \in Contents
  BY FindRootIs DEF Types
<1>2. EntryFits(root.es[j])
  BY DEF Types, RootFits
<1> QED
  BY <1>1, <1>2 DEF EntryFits, ContentFits

\* An answer of the registry changes under one name.
LEMMA PutFits ==
  ASSUME RemoteFits, NEW r \in Refs, NEW c \in Contents, ContentFits(c, r[1]), Put(r, c),
         r[2] # Plain => c.kind = "image" /\ PlatOf[c.dig] # NoPlat /\ PlatOf[c.dig].arch = r[2]
  PROVE  RemoteFits' /\ remote'[r] = c /\ \A s \in Refs : s # r => remote'[s] = remote[s]
<1>1. remote' \in [Refs -> Contents \cup {Nothing}] /\ remote'[r] = c
      /\ \A s \in Refs : s # r => remote'[s] = remote[s]
  BY DEF Put, RemoteFits
<1>2. ASSUME NEW s \in Refs
      PROVE  /\ ContentFits(remote'[s], s[1])
             /\ s[2] # Plain /\ remote'[s] # Nothing =>
                  /\ remote'[s].kind = "image"
                  /\ PlatOf[remote'[s].dig] # NoPlat /\ PlatOf[remote'[s].dig].arch = s[2]
  <2>1. CASE s = r
    BY <1>1, <2>1
  <2>2. CASE s # r
    BY <1>1, <2>2 DEF RemoteFits
  <2> QED BY <2>1, <2>2
<1> QED
  BY <1>1, <1>2 DEF RemoteFits

\* A push gives up or is done, or it publishes what it has found and goes on.
LEMMA PushDoes ==
  ASSUME Types, NEW p \in Procs, Push(p)
  PROVE  /\ Types' /\ job[p].op = "push" /\ job[p].ref \in Refs /\ job[p].ref = Ref(job[p].ref[1])
         /\ \A q \in Procs : q # p => job'[q] = job[q]
         /\ \/ Fail(p) /\ UNCHANGED remote
            \/ Return(p, TRUE) /\ UNCHANGED remote
            \/ /\ FindRoot(job[p].ref) \in Contents
               /\ ContentFits(FindRoot(job[p].ref), job[p].ref[1])
               /\ Put(job[p].ref, FindRoot(job[p].ref))
               /\ \A s \in Refs : s # job[p].ref => remote'[s] = remote[s]
               /\ Todo(p)' = Sends(p) \o <<Do("manifest")>>
               /\ job'[p] = [job[p] EXCEPT !.todo = Sends(p) \o <<Do("manifest")>>]
<1> DEFINE r == job[p].ref
           c == FindRoot(r)
           u == Sends(p) \o <<Do("manifest")>>
<1>0. At(p, "push") /\ UNCHANGED <<disk, ops, faults>>
  BY DEF Push
<1>1. /\ job[p].op = "push" /\ r \in Refs /\ r = Ref(r[1]) /\ r[2] = Plain /\ job[p] \in Jobs /\ JobFits(job[p])
      /\ job[p].todo[1].do = "push" /\ job[p].todo # <<>> /\ job[p].todo \in Seq(Plans) /\ Todo(p) = job[p].todo
  <2>1. job[p].op = "push"
    BY <1>0, AtIs DEF DoneBy, Types, Ops
  <2>2. r \in Refs /\ r = Ref(r[1]) /\ r[2] = Plain
    BY <1>0, <2>1, RefAt, RefsAre DEF Types
  <2> QED
    BY <1>0, <2>1, <2>2, AtIs DEF Types
<1>2. \/ Fail(p) /\ UNCHANGED remote
      \/ Return(p, TRUE) /\ UNCHANGED remote
      \/ c.kind # "nothing" /\ Put(r, c) /\ Then(p, u)
  <2> USE DEF Sends, Sent
  <2>1. CASE c.kind = "nothing"
    BY <2>1 DEF Push
  <2>2. CASE c.kind # "nothing" /\ c.kind = "index" /\ Index(c.dig) \notin full
    BY <2>2 DEF Push
  <2>3. CASE c.kind # "nothing" /\ ~(c.kind = "index" /\ Index(c.dig) \notin full) /\ remote[r] = c
    BY <2>3 DEF Push
  <2>4. CASE c.kind # "nothing" /\ ~(c.kind = "index" /\ Index(c.dig) \notin full) /\ remote[r] # c
    BY <2>4 DEF Push
  <2> QED
    BY <2>1, <2>2, <2>3, <2>4
<1>3. CASE Fail(p) /\ UNCHANGED remote
  <2>1. Return(p, FALSE)
    BY <1>3 DEF Fail
  <2>2. JobsFit' /\ \A q \in Procs : q # p => job'[q] = job[q]
    BY <2>1, ReturnFits DEF Types
  <2> QED
    BY <1>0, <1>1, <1>3, <2>1, <2>2, QuietTypes
<1>4. CASE Return(p, TRUE) /\ UNCHANGED remote
  <2>1. JobsFit' /\ \A q \in Procs : q # p => job'[q] = job[q]
    BY <1>4, ReturnFits DEF Types
  <2> QED
    BY <1>0, <1>1, <1>4, <2>1, QuietTypes
<1>5. CASE c.kind # "nothing" /\ Put(r, c) /\ Then(p, u)
  <2>1. c \in Contents /\ ContentFits(c, r[1])
    BY <1>1, <1>5, FoundFits DEF Nothing
  <2>2. u \in Seq(Plans) /\ Fresh(u, job[p])
    BY <1>0, <2>1, SendsAre
  <2>3. RemoteFits' /\ \A s \in Refs : s # r => remote'[s] = remote[s]
    BY <1>1, <1>5, <2>1, PutFits DEF Types
  <2> HIDE DEF u
  <2>4. /\ JobsFit' /\ Todo(p)' = u \o Tail(Todo(p))
        /\ job'[p] = [job[p] EXCEPT !.todo = u \o Tail(job[p].todo)]
        /\ \A q \in Procs : q # p => job'[q] = job[q]
    BY <1>1, <1>5, <2>2, ThenFits DEF Types
  <2>5. u \o Tail(job[p].todo) = u
    <3> DEFINE P == Plans
               t == job[p].todo
    <3>1. t \in Seq(P) /\ u \in Seq(P) /\ t # <<>> /\ t[1].do \in Closing
      BY <1>1, <2>2 DEF Closing
    <3>2. 1 \in DOMAIN t => Len(t) = 1
      BY <1>1, <3>1 DEF JobFits, Ordered
    <3> HIDE DEF P, t
    <3>3. 1 \in DOMAIN t
      BY <3>1
    <3>4. u \o Tail(t) = u
      BY <3>1, <3>2, <3>3, LastStep
    <3> QED
      BY <3>4 DEF t
  <2>6. RootFits' /\ BlobsFit' /\ CountsFit'
    BY <1>0 DEF Types, RootFits, BlobsFit, CountsFit, disk
  <2>7. Types'
    BY <2>3, <2>4, <2>6 DEF Types
  <2> QED
    BY <1>1, <1>5, <2>1, <2>3, <2>4, <2>5, <2>7 DEF u
<1> QED
  BY <1>2, <1>3, <1>4, <1>5

\* One architecture of a push: its tag in the registry, or an entry of its own and
\* another try, or nothing.
LEMMA PushTagDoes ==
  ASSUME Types, NEW p \in Procs, PushTag(p)
  PROVE  /\ Types' /\ job[p].op = "push" /\ job[p].ref \in Refs /\ job[p].ref = Ref(job[p].ref[1])
         /\ Now(p).i \in Images /\ PlatOf[Now(p).i] # NoPlat /\ PlatOf[Now(p).i].arch \in Arches
         /\ \A q \in Procs : q # p => job'[q] = job[q]
         /\ LET i == Now(p).i
                t == Tag(job[p].ref[1], PlatOf[i].arch)
                steps == <<AppendTo(Entry(t, ImageOf(i))), [Now(p) EXCEPT !.again = TRUE]>>
            IN /\ t \in Refs /\ t[2] # Plain
               /\ \/ Fail(p) /\ UNCHANGED remote
                  \/ /\ UNCHANGED remote /\ steps \in Seq(Plans)
                     /\ Todo(p)' = steps \o Tail(Todo(p))
                     /\ job'[p] = [job[p] EXCEPT !.todo = steps \o Tail(job[p].todo)]
                  \/ /\ \/ remote' = [remote EXCEPT ![t] = ImageOf(i)]
                        \/ ~Complete(i) /\ UNCHANGED remote
                     /\ Todo(p)' = <<>> \o Tail(Todo(p))
                     /\ job'[p] = [job[p] EXCEPT !.todo = <<>> \o Tail(job[p].todo)]
<1> DEFINE i == Now(p).i
           n == job[p].ref[1]
           t == Tag(n, PlatOf[i].arch)
           e == Entry(t, ImageOf(i))
           x == [Now(p) EXCEPT !.again = TRUE]
           steps == <<AppendTo(e), x>>
<1>0. At(p, "tag") /\ UNCHANGED <<disk, ops, faults>>
  BY DEF PushTag
<1>1. /\ job[p].op = "push" /\ job[p].ref \in Refs /\ job[p].ref = Ref(n) /\ n \in Names
      /\ job[p] \in Jobs /\ JobFits(job[p]) /\ job[p].todo[1].do = "tag" /\ Todo(p) = job[p].todo
      /\ Todo(p) # <<>> /\ Now(p) \in Plans /\ Now(p).do = "tag" /\ StepFits(Now(p), n)
  <2>1. job[p].op = "push"
    BY <1>0, AtIs DEF DoneBy, Types, Ops
  <2>2. job[p].ref \in Refs /\ job[p].ref = Ref(n) /\ n \in Names
    BY <1>0, <2>1, RefAt, RefsAre DEF Types
  <2> QED
    BY <1>0, <2>1, <2>2, AtIs DEF Types
<1>2. i \in Images /\ i \in ImagesOf(n) /\ PlatOf[i] # NoPlat /\ PlatOf[i].arch \in Arches
  BY <1>1, PlanParts, PlatAssumption DEF StepFits
<1>3. t \in Refs /\ t[1] = n /\ t[2] = PlatOf[i].arch /\ t[2] # Plain
  BY <1>1, <1>2, RefsAre
<1>4. ImageOf(i) \in Contents /\ ImageOf(i).kind = "image" /\ ImageOf(i).dig = i /\ ContentFits(ImageOf(i), n)
  BY <1>2, ContentsAre DEF ImageOf, ContentFits
<1>5. e \in Listing /\ e.ref = t /\ e.kind = "image" /\ e.dig = i
  BY <1>3, <1>4, EntryIs
<1>6. EntryFits(e)
  <2> HIDE DEF e
  <2> QED BY <1>2, <1>3, <1>5 DEF EntryFits
<1>7. AppendTo(e) \in Plans /\ AppendTo(e).do = "append" /\ StepFits(AppendTo(e), n)
  <2>1. AppendTo(e) \in Plans
    BY <1>5, PlansAre
  <2>2. e.ref[1] = n
    BY <1>3, <1>5
  <2> QED BY <1>6, <2>1, <2>2, StepsAre
<1>8. x \in Plans /\ x.do = "tag" /\ StepFits(x, n)
  <2>1. Now(p) \in [do : {"tag"}, i : Images, again : BOOLEAN]
    BY <1>1 DEF Plans
  <2>2. x \in [do : {"tag"}, i : Images, again : BOOLEAN] /\ x.do = "tag" /\ x.i = i
    BY <2>1
  <2> HIDE DEF x, i
  <2> QED BY <1>2, <2>2 DEF Plans, StepFits
<1>9. \/ Fail(p) /\ UNCHANGED remote
      \/ Then(p, steps) /\ UNCHANGED remote
      \/ ~Complete(i) /\ Then(p, <<>>) /\ UNCHANGED remote
      \/ Then(p, <<>>) /\ Put(t, ImageOf(i))
  <2> HIDE DEF i, t
  <2>1. CASE ~Listed(i) /\ Now(p).again
    BY <2>1 DEF PushTag, i, t
  <2>2. CASE ~Listed(i) /\ ~Now(p).again
    BY <2>2 DEF PushTag, i, t
  <2>3. CASE Listed(i) /\ ~Complete(i)
    BY <2>3 DEF PushTag, i, t
  <2>4. CASE Listed(i) /\ Complete(i)
    BY <2>4 DEF PushTag, i, t
  <2> QED
    BY <2>1, <2>2, <2>3, <2>4
<1>10. CASE Fail(p) /\ UNCHANGED remote
  <2>1. JobsFit' /\ \A q \in Procs : q # p => job'[q] = job[q]
    BY <1>10, ReturnFits DEF Types, Fail
  <2>2. Types'
    BY <1>0, <1>10, <2>1, QuietTypes
  <2> QED
    BY <1>1, <1>2, <1>3, <1>10, <2>1, <2>2
<1>11. CASE Then(p, steps) /\ UNCHANGED remote
  <2>1. Fresh(steps, job[p]) /\ steps \in Seq(Plans)
    <3> HIDE DEF x, e
    <3>1. /\ steps \in Seq(Plans) /\ Len(steps) = 2 /\ DOMAIN steps = 1..2
          /\ steps[1] = AppendTo(e) /\ steps[2] = x
          /\ \A k \in 1..2 : k = 1 \/ k = 2
      <4> DEFINE P == Plans
                 a == AppendTo(e)
      <4>1. a \in P /\ x \in P
        BY <1>7, <1>8
      <4> HIDE DEF P, a
      <4> QED BY <4>1, Tuples DEF P, a
    <3> HIDE DEF steps
    <3> QED BY <1>1, <1>7, <1>8, <3>1 DEF Fresh, DoneBy, Closing
  <2> HIDE DEF steps
  <2>2. /\ JobsFit' /\ Todo(p)' = steps \o Tail(Todo(p))
        /\ job'[p] = [job[p] EXCEPT !.todo = steps \o Tail(job[p].todo)]
        /\ \A q \in Procs : q # p => job'[q] = job[q]
    BY <1>1, <1>11, <2>1, ThenFits DEF Types
  <2>3. Types'
    BY <1>0, <1>11, <2>2, QuietTypes
  <2> QED
    BY <1>1, <1>2, <1>3, <1>11, <2>1, <2>2, <2>3 DEF steps
<1>12. CASE Then(p, <<>>) /\ ((~Complete(i) /\ UNCHANGED remote) \/ Put(t, ImageOf(i)))
  <2>1. /\ JobsFit' /\ Todo(p)' = <<>> \o Tail(Todo(p))
        /\ job'[p] = [job[p] EXCEPT !.todo = <<>> \o Tail(job[p].todo)]
        /\ \A q \in Procs : q # p => job'[q] = job[q]
    BY <1>1, <1>12, StepDone DEF Types
  <2>2. RemoteFits'
    <3>1. CASE UNCHANGED remote
      BY <3>1 DEF Types, RemoteFits
    <3>2. CASE Put(t, ImageOf(i))
      <4> DEFINE c == ImageOf(i)
      <4>1. c \in Contents /\ ContentFits(c, t[1]) /\ c.kind = "image" /\ c.dig = i
        BY <1>3, <1>4
      <4> HIDE DEF c
      <4>2. Put(t, c)
        BY <3>2 DEF c
      <4> HIDE DEF t, i
      <4> QED BY <1>2, <1>3, <4>1, <4>2, PutFits DEF Types
    <3> QED BY <1>12, <3>1, <3>2
  <2>3. RootFits' /\ BlobsFit' /\ CountsFit'
    BY <1>0 DEF Types, RootFits, BlobsFit, CountsFit, disk
  <2>4. Types'
    BY <2>1, <2>2, <2>3 DEF Types
  <2> QED
    BY <1>1, <1>2, <1>3, <1>12, <2>1, <2>4 DEF Put
<1> QED
  BY <1>9, <1>10, <1>11, <1>12

\* The index that a push makes of the tags in the registry.
LEMMA TaggedIs ==
  ASSUME Types, NEW n \in Names
  PROVE  /\ TaggedIn(n) \in Seq(Images) /\ Fits(TaggedIn(n), n) /\ OneEach(TaggedIn(n))
         /\ \A a \in Arches : remote[Tag(n, a)].kind = "image" => remote[Tag(n, a)].dig \in ToSet(TaggedIn(n))
<1> DEFINE S == {a \in Arches : remote[Tag(n, a)].kind = "image"}
           ts == SetToSeq(S)
           s == TaggedIn(n)
<1>1. IsFiniteSet(S) /\ S \subseteq Arches
  BY PlatAssumption, FS_Subset
<1>2. \A a \in S : /\ remote[Tag(n, a)].dig \in Images /\ remote[Tag(n, a)].dig \in ImagesOf(n)
                   /\ PlatOf[remote[Tag(n, a)].dig] # NoPlat /\ PlatOf[remote[Tag(n, a)].dig].arch = a
  <2> TAKE a \in S
  <2> DEFINE r == Tag(n, a)
  <2>1. r \in Refs /\ r[1] = n /\ r[2] = a /\ r[2] # Plain /\ remote[r].kind = "image"
    BY <1>1, RefsAre
  <2> HIDE DEF r, S
  <2>2. remote[r] \in Contents /\ remote[r] # Nothing /\ ContentFits(remote[r], n)
    BY <2>1 DEF Types, RemoteFits, Nothing
  <2>3. PlatOf[remote[r].dig] # NoPlat /\ PlatOf[remote[r].dig].arch = a
    BY <2>1, <2>2 DEF Types, RemoteFits
  <2> QED
    BY <2>1, <2>2, <2>3, ContentParts DEF ContentFits, r
<1>3. s = [j \in DOMAIN ts |-> remote[Tag(n, ts[j])].dig]
  BY DEF TaggedIn
<1>4. \A a \in Arches : remote[Tag(n, a)].kind = "image" => a \in S
  OBVIOUS
<1> HIDE DEF S, s
<1>5. /\ ts \in Seq(S) /\ DOMAIN ts = 1..Len(ts)
      /\ \A k \in S : \E j \in DOMAIN ts : ts[j] = k
      /\ \A i, j \in DOMAIN ts : ts[i] = ts[j] => i = j
  BY <1>1, SetToSeqIs
<1> HIDE DEF ts
<1> DEFINE d(a) == remote[Tag(n, a)].dig
           l == Len(ts)
<1>15. ts \in Seq(S)
  BY <1>5
<1>11. l \in Nat /\ DOMAIN ts = 1..l /\ \A j \in 1..l : ts[j] \in S
  BY <1>15
<1>12. s = [j \in 1..l |-> d(ts[j])] /\ \A a \in S : d(a) \in Images
  BY <1>2, <1>3, <1>11
<1> HIDE DEF d, l
<1>13. \A j \in 1..l : d(ts[j]) \in Images
  BY <1>11, <1>12
<1>14. s \in [1..l -> Images] /\ DOMAIN s = 1..l /\ \A j \in 1..l : s[j] = d(ts[j])
  BY <1>12, <1>13
<1>6. /\ DOMAIN s = DOMAIN ts /\ \A j \in DOMAIN ts : ts[j] \in S /\ s[j] = remote[Tag(n, ts[j])].dig
  BY <1>11, <1>14 DEF d
<1>7. s \in Seq(Images)
  <2>1. l \in Nat /\ s \in [1..l -> Images]
    BY <1>11, <1>14
  <2> QED BY <2>1
<1>16. \A a \in S : d(a) \in ImagesOf(n) /\ PlatOf[d(a)] # NoPlat /\ PlatOf[d(a)].arch = a
  BY <1>2 DEF d
<1>17. ASSUME NEW j \in DOMAIN s
       PROVE  s[j] \in ImagesOf(n) /\ PlatOf[s[j]] # NoPlat /\ PlatOf[s[j]].arch = ts[j]
  <2>1. j \in 1..l /\ ts[j] \in S /\ s[j] = d(ts[j])
    BY <1>11, <1>14
  <2> QED BY <1>16, <2>1
<1>8. Fits(s, n)
  BY <1>17 DEF Fits, ToSet
<1>18. \A i, j \in DOMAIN s : ts[i] = ts[j] => i = j
  BY <1>5, <1>6
<1>9. OneEach(s)
  <2> SUFFICES ASSUME NEW i \in DOMAIN s, NEW j \in DOMAIN s, PlatOf[s[i]].arch = PlatOf[s[j]].arch PROVE i = j
    BY DEF OneEach, Key
  <2> QED BY <1>17, <1>18
<1>10. ASSUME NEW a \in Arches, remote[Tag(n, a)].kind = "image"
       PROVE  remote[Tag(n, a)].dig \in ToSet(s)
  <2>1. a \in S
    BY <1>4, <1>10
  <2>2. \A k \in S : \E j \in DOMAIN ts : ts[j] = k
    BY <1>5
  <2>3. PICK j \in DOMAIN ts : ts[j] = a
    BY <2>1, <2>2
  <2>4. j \in DOMAIN s /\ s[j] = remote[Tag(n, a)].dig
    BY <1>6, <2>3
  <2> QED BY <2>4 DEF ToSet
<1> QED
  BY <1>7, <1>8, <1>9, <1>10 DEF s

\* The last step of a push: the name becomes that index.
LEMMA PushManifestDoes ==
  ASSUME Types, NEW p \in Procs, PushManifest(p)
  PROVE  /\ Types' /\ job[p].op = "push" /\ job[p].ref \in Refs /\ job[p].ref = Ref(job[p].ref[1])
         /\ job[p].ref[1] \in Names
         /\ \A q \in Procs : q # p => job'[q] = job[q]
         /\ Todo(p)' = <<>>
         /\ \/ Fail(p) /\ UNCHANGED remote
            \/ remote' = [remote EXCEPT ![job[p].ref] = IndexOf(TaggedIn(job[p].ref[1]))] /\ Return(p, TRUE)
<1> DEFINE r == job[p].ref
           n == r[1]
           s == TaggedIn(n)
<1>0. At(p, "manifest") /\ UNCHANGED <<disk, ops, faults>>
  BY DEF PushManifest
<1>1. job[p].op = "push" /\ r \in Refs /\ r = Ref(n) /\ n \in Names /\ r[2] = Plain
  <2>1. job[p].op = "push"
    BY <1>0, AtIs DEF DoneBy, Types, Ops
  <2> QED
    BY <1>0, <2>1, RefAt, RefsAre DEF Types
<1>2. CASE Fail(p) /\ UNCHANGED remote
  <2>1. JobsFit' /\ Todo(p)' = <<>> /\ \A q \in Procs : q # p => job'[q] = job[q]
    BY <1>2, ReturnFits DEF Types, Fail
  <2>2. Types'
    BY <1>0, <1>2, <2>1, QuietTypes
  <2> QED
    BY <1>1, <1>2, <2>1, <2>2
<1>3. CASE Put(r, IndexOf(s)) /\ Return(p, TRUE)
  <2>1. JobsFit' /\ Todo(p)' = <<>> /\ \A q \in Procs : q # p => job'[q] = job[q]
    BY <1>3, ReturnFits DEF Types
  <2>2. RemoteFits'
    <3> DEFINE c == IndexOf(s)
    <3>1. s \in Seq(Images) /\ Fits(s, n)
      BY <1>1, TaggedIs
    <3>2. c \in Contents /\ c.kind = "index" /\ c.dig = s
      BY <3>1, ContentsAre DEF IndexOf
    <3>3. Put(r, c)
      BY <1>3
    <3> HIDE DEF c
    <3>4. ContentFits(c, r[1])
      BY <3>1, <3>2 DEF ContentFits
    <3> HIDE DEF r
    <3> QED BY <1>1, <3>2, <3>3, <3>4, PutFits DEF Types
  <2>3. RootFits' /\ BlobsFit' /\ CountsFit'
    BY <1>0 DEF Types, RootFits, BlobsFit, CountsFit, disk
  <2>4. Types'
    BY <2>1, <2>2, <2>3 DEF Types
  <2> QED
    BY <1>1, <1>3, <2>1, <2>4 DEF Put
<1> QED
  BY <1>2, <1>3 DEF PushManifest

LEMMA Types_Publish ==
  ASSUME Types, Publish
  PROVE  /\ Types' /\ UNCHANGED <<disk, job, ops, faults>>
         /\ \E n \in Names : \E c \in Published[n] : remote' = [remote EXCEPT ![Ref(n)] = c]
<1>0. PICK n \in Names : \E c \in Published[n] : Put(Ref(n), c)
  BY DEF Publish
<1>1. PICK c \in Published[n] : Put(Ref(n), c)
  BY <1>0
<1>2. UNCHANGED <<disk, job, ops, faults>>
  BY DEF Publish
<1>3. c \in Contents
  BY InputAssumption DEF Contents
<1>4. ContentFits(c, n)
  <2>1. ContentImages(c) \subseteq ImagesOf(n)
    BY DEF ImagesOf
  <2> QED
    BY <2>1, <1>3, ContentParts DEF ContentImages, ContentFits, Fits
<1>5. Ref(n) \in Refs /\ Ref(n)[1] = n /\ Ref(n)[2] = Plain
  BY RefsAre
<1>6. RemoteFits'
  BY <1>1, <1>3, <1>4, <1>5, PutFits DEF Types
<1>7. JobsFit' /\ RootFits' /\ BlobsFit' /\ CountsFit'
  BY <1>2 DEF Types, JobsFit, RootFits, BlobsFit, CountsFit, disk
<1> QED
  BY <1>1, <1>2, <1>6, <1>7 DEF Types, Put

LEMMA Types_Abort ==
  ASSUME Types, NEW p \in Procs, Abort(p)
  PROVE  /\ Types' /\ faults' = faults + 1 /\ UNCHANGED <<disk, remote, ops>> /\ Todo(p)' = <<>> /\ Todo(p) # <<>>
         /\ job'[p] = [job[p] EXCEPT !.todo = <<>>, !.ok = FALSE]
         /\ \A q \in Procs : q # p => job'[q] = job[q]
<1>1. Return(p, FALSE) /\ Todo(p) # <<>> /\ faults < MaxFaults /\ faults' = faults + 1 /\ UNCHANGED <<disk, remote, ops>>
  BY DEF Abort, Fail
<1>2. /\ JobsFit' /\ Todo(p)' = <<>> /\ job'[p] = [job[p] EXCEPT !.todo = <<>>, !.ok = FALSE]
      /\ \A q \in Procs : q # p => job'[q] = job[q]
  BY <1>1, ReturnFits DEF Types
<1>3. RootFits' /\ BlobsFit' /\ RemoteFits'
  BY <1>1 DEF Types, RootFits, BlobsFit, RemoteFits, disk
<1>4. CountsFit'
  BY <1>1, InputAssumption DEF Types, CountsFit
<1> QED
  BY <1>1, <1>2, <1>3, <1>4 DEF Types

(***************************************************************************)
(* The types are inductive, of any number of processes                     *)
(***************************************************************************)
LEMMA TypesInit == Init => Types
<1> SUFFICES ASSUME Init PROVE Types
  OBVIOUS
<1>1. Idle \in Jobs /\ Idle.todo = <<>> /\ Idle.buf = <<>> /\ Idle.op = "idle" /\ Idle.ok = FALSE
  BY EmptyLists DEF Jobs, Ops, Idle
<1>2. JobFits(Idle)
  <2> DEFINE o == Idle
  <2>1. o.todo = <<>> /\ o.buf = <<>> /\ o.op = "idle"
    BY <1>1
  <2> HIDE DEF o
  <2>2. JobFits(o)
    BY <2>1 DEF JobFits, Ordered
  <2> QED BY <2>2 DEF o
<1>3. JobsFit
  BY <1>1, <1>2 DEF Init, JobsFit
<1>4. NoRoot.es = <<>> /\ RootFits
  BY DEF Init, RootFits, NoRoot
<1>5. Nothing.kind = "nothing" /\ RemoteFits
  BY DEF Init, RemoteFits, Nothing, ContentFits
<1>6. BlobsFit /\ CountsFit
  BY InputAssumption DEF Init, BlobsFit, CountsFit
<1> QED
  BY <1>3, <1>4, <1>5, <1>6 DEF Types

LEMMA TypesStutter == Types /\ UNCHANGED vars => Types'
BY DEF Types, JobsFit, RootFits, BlobsFit, RemoteFits, CountsFit, vars, disk

LEMMA TypesStep ==
  ASSUME Types, [Next]_vars
  PROVE  Types'
<1>1. CASE Publish
  BY <1>1, Types_Publish
<1>2. CASE UNCHANGED vars
  BY <1>2, TypesStutter
<1>3. ASSUME NEW p \in Procs, Step(p)
      PROVE  Types'
  <2>1. CASE BeginPull(p) \/ BeginLoad(p) \/ BeginIndexWrite(p) \/ BeginDescriptorWrite(p)
             \/ BeginPush(p) \/ BeginClean(p)
    BY <2>1, PullBegins, LoadBegins, IndexWriteBegins, DescriptorWriteBegins, PushBegins, CleanBegins
  <2>2. CASE Clean(p)
    BY <2>2, Types_Clean
  <2>3. CASE InitRoot(p) \/ EditRoot(p) \/ Truncate(p) \/ WriteData(p)
    BY <2>3, Types_InitRoot, Types_EditRoot, Types_Truncate, Types_WriteData
  <2>4. CASE WriteBlob(p) \/ CopyBlob(p) \/ RemoveBlob(p)
    BY <2>4, Types_WriteBlob, Types_CopyBlob, Types_RemoveBlob
  <2>5. CASE IndexWrite(p) \/ Look(p) \/ Fetch(p) \/ Validate(p) \/ Finish(p)
    BY <2>5, Types_IndexWrite, Types_Look, FetchDoes, Types_Validate, Types_Finish
  <2>6. CASE Push(p) \/ PushTag(p) \/ PushManifest(p) \/ Abort(p)
    BY <2>6, PushDoes, PushTagDoes, PushManifestDoes, Types_Abort
  <2> QED
    BY <1>3, <2>1, <2>2, <2>3, <2>4, <2>5, <2>6 DEF Step
<1> QED
  BY <1>1, <1>2, <1>3 DEF Next

LEMMA TypesOK == Types => TypeOK
<1> SUFFICES ASSUME Types PROVE TypeOK
  OBVIOUS
<1>1. root.is \in {"none", "torn", "good"} /\ root.es \in Seq(Listing)
  BY RootEntries DEF Types
<1>2. ASSUME NEW e \in ToSet(root.es) PROVE e.ref \in Refs /\ e.kind \in {"image", "index"}
  <2>1. e \in Listing
    BY <1>1 DEF ToSet
  <2> QED BY <2>1, ListingParts
<1>3. ASSUME NEW d \in full \cup part
      PROVE  d \in Digests \/ (d[1] = "index" /\ ToSet(d[2]) \subseteq Images)
  <2>1. d \in Blobs
    BY DEF Types, BlobsFit
  <2>2. CASE d \in {"manifest", "layers"} \X Images
    <3>1. d[2] \in Images /\ (d = Manifest(d[2]) \/ d = Layers(d[2]))
      BY <2>2 DEF Manifest, Layers
    <3> QED BY <3>1 DEF Digests
  <2>3. CASE d \in {"index"} \X Seq(Images)
    BY <2>3 DEF ToSet
  <2> QED BY <2>1, <2>2, <2>3 DEF Blobs
<1>4. \A p \in Procs : job[p].ok \in BOOLEAN
  BY DEF Types, JobsFit, Jobs
<1> QED
  BY <1>1, <1>2, <1>3, <1>4 DEF TypeOK, Types, BlobsFit, CountsFit

\* What belongs to which name: of any number of processes on one cache, every entry of
\* index.json, every step of a command and every answer of the registry is made of the
\* images of its own name, and the steps of a command stay in their order.
THEOREM OwnImages == Spec => [](OciType /\ OwnInv)
<1>1. Init => Types
  BY TypesInit
<1>2. Types /\ [Next]_vars => Types'
  BY TypesStep
<1>3. Types => OciType /\ OwnInv
  BY TypesAre
<1> QED
  BY <1>1, <1>2, <1>3, PTL DEF Spec

\* The cache keeps the right types, whatever the processes do and wherever they fail.
THEOREM CacheTypes == Spec => []TypeOK
<1>1. Init => Types
  BY TypesInit
<1>2. Types /\ [Next]_vars => Types'
  BY TypesStep
<1>3. Types => TypeOK
  BY TypesOK
<1> QED
  BY <1>1, <1>2, <1>3, PTL DEF Spec

(***************************************************************************)
(* One entry for a plain name                                              *)
(***************************************************************************)
IsPlain(x) == x.do = "append" /\ x.e.ref[2] = Plain

\* Replaces, of steps and the list of entries that they come to.
InPlace(t, es, j) ==
  \/ j > 1 /\ t[j - 1].do = "remove" /\ t[j - 1].ref = t[j].e.ref
  \/ (\A i \in 1..(j - 1) : t[i].do \in {"trunc", "data"}) /\ Named(es, t[j].e.ref) = {}
Careful(t, es) == \A j \in DOMAIN t : IsPlain(t[j]) => InPlace(t, es, j)

\* Steps that follow each other in the same way for any list of entries.
Prepared(steps) ==
  \A j \in DOMAIN steps : IsPlain(steps[j]) =>
    j > 1 /\ steps[j - 1].do = "remove" /\ steps[j - 1].ref = steps[j].e.ref

LEMMA CarefulMoves ==
  ASSUME NEW t \in Seq(Plans), t # <<>>, NEW steps \in Seq(Plans), NEW es, NEW new,
         Careful(t, es), Prepared(steps),
         t[1].do = "remove" => /\ \A i \in DOMAIN steps : steps[i].do \in {"trunc", "data"}
                               /\ Named(new, t[1].ref) = {},
         t[1].do \in {"trunc", "data"} => steps = <<>> /\ new = es
  PROVE  Careful(steps \o Tail(t), new)
<1> DEFINE P == Plans
           u == steps \o Tail(t)
           l == Len(steps)
<1>1. t \in Seq(P) /\ steps \in Seq(P)
  OBVIOUS
<1> HIDE DEF P
<1>2. /\ l \in Nat /\ Len(t) \in Nat \ {0}
      /\ DOMAIN steps = 1..l /\ DOMAIN t = 1..Len(t)
      /\ DOMAIN u = 1..(l + Len(t) - 1)
      /\ \A k \in 1..l : u[k] = steps[k]
      /\ \A k \in 2..Len(t) : u[l + k - 1] = t[k]
  BY <1>1, InPlaceOfHead
<1> HIDE DEF u
<1> SUFFICES ASSUME NEW j \in DOMAIN u, IsPlain(u[j]) PROVE InPlace(u, new, j)
  BY DEF Careful, u
<1>3. CASE j <= l
  <2>1. j \in DOMAIN steps /\ u[j] = steps[j]
    BY <1>2, <1>3
  <2>2. j > 1 /\ steps[j - 1].do = "remove" /\ steps[j - 1].ref = steps[j].e.ref
    BY <2>1 DEF Prepared
  <2>3. u[j - 1] = steps[j - 1]
    BY <1>2, <1>3, <2>2
  <2> QED
    BY <2>1, <2>2, <2>3 DEF InPlace
<1>4. CASE j > l
  <2> DEFINE k == j - l + 1
  <2>1. k \in 2..Len(t) /\ k \in DOMAIN t /\ u[j] = t[k] /\ j = l + k - 1
    <3>1. k \in 2..Len(t) /\ k \in DOMAIN t /\ j = l + k - 1
      BY <1>2, <1>4
    <3> QED BY <1>2, <3>1
  <2> HIDE DEF k
  <2>2. InPlace(t, es, k)
    BY <2>1 DEF Careful
  <2>3. CASE k > 2 /\ t[k - 1].do = "remove" /\ t[k - 1].ref = t[k].e.ref
    <3>0. k > 2 /\ k \in 2..Len(t) /\ j = l + k - 1 /\ l \in Nat /\ Len(t) \in Nat
      BY <1>2, <2>1, <2>3
    <3>1. k - 1 \in 2..Len(t) /\ j - 1 = l + (k - 1) - 1 /\ j > 1
      BY <3>0
    <3>2. u[j - 1] = t[k - 1]
      BY <1>2, <3>1
    <3> QED
      BY <2>1, <2>3, <3>1, <3>2 DEF InPlace
  <2>4. CASE k = 2 /\ t[1].do = "remove" /\ t[1].ref = t[k].e.ref
    <3>1. j = l + 1
      BY <1>2, <2>1, <2>4
    <3>2. \A i \in 1..(j - 1) : i \in 1..l
      BY <1>2, <3>1
    <3>3. \A i \in 1..(j - 1) : u[i].do \in {"trunc", "data"}
      BY <1>2, <2>4, <3>2
    <3> QED
      BY <2>1, <2>4, <3>3 DEF InPlace
  <2>5. CASE (\A i \in 1..(k - 1) : t[i].do \in {"trunc", "data"}) /\ Named(es, t[k].e.ref) = {}
    <3>1. t[1].do \in {"trunc", "data"}
      BY <1>2, <2>1, <2>5
    <3>2. l = 0 /\ new = es
      BY <3>1
    <3>3. j = k - 1 /\ \A i \in 1..(j - 1) : i + 1 \in 2..Len(t) /\ i = l + (i + 1) - 1 /\ i + 1 \in 1..(k - 1)
      BY <1>2, <2>1, <3>2
    <3>4. \A i \in 1..(j - 1) : u[i] = t[i + 1]
      BY <1>2, <3>3
    <3> QED
      BY <2>1, <2>5, <3>2, <3>3, <3>4 DEF InPlace
  <2> QED
    BY <2>1, <2>2, <2>3, <2>4, <2>5, SMTT(30) DEF InPlace
<1> QED
  BY <1>2, <1>3, <1>4

\* One entry for a plain name stays one when entries are left out, and when one is added
\* of a name that has none or is not plain.
LEMMA UniqueWithout ==
  ASSUME RootFits, Unique(root.es), NEW r
  PROVE  Unique(WithoutRef(r)) /\ Named(WithoutRef(r), r) = {}
<1> DEFINE T == {e \in ToSet(root.es) : e.ref # r}
           L == Listing
           w == WithoutRef(r)
<1>1. root.es \in Seq(L) /\ w = Matching(root.es, T)
  BY RootEntries DEF WithoutRef
<1> HIDE DEF L, T
<1>2. \A i, j \in DOMAIN w : i # j => \E k, l \in DOMAIN root.es : k # l /\ w[i] = root.es[k] /\ w[j] = root.es[l]
  BY <1>1, MatchingApart
<1> HIDE DEF w
<1>3. \A n \in Names : \A i, j \in DOMAIN root.es : root.es[i].ref = Ref(n) /\ root.es[j].ref = Ref(n) => i = j
  BY DEF Unique, Named
<1>4. ASSUME NEW n \in Names, NEW i \in Named(w, Ref(n)), NEW j \in Named(w, Ref(n)), i # j
      PROVE  FALSE
  <2>1. i \in DOMAIN w /\ j \in DOMAIN w /\ w[i].ref = Ref(n) /\ w[j].ref = Ref(n)
    BY DEF Named
  <2>2. PICK k \in DOMAIN root.es, l \in DOMAIN root.es : k # l /\ w[i] = root.es[k] /\ w[j] = root.es[l]
    BY <1>2, <1>4, <2>1
  <2> QED
    BY <1>3, <2>1, <2>2
<1>5. Unique(w)
  BY <1>4 DEF Unique
<1>6. Named(w, r) = {}
  BY WithoutRefIs DEF Named, w
<1> QED
  BY <1>5, <1>6 DEF w

LEMMA UniqueAppend ==
  ASSUME NEW es \in Seq(Listing), Unique(es), NEW e \in Listing, e.ref[2] # Plain \/ Named(es, e.ref) = {}
  PROVE  Unique(Append(es, e))
<1> DEFINE L == Listing
           a == Append(es, e)
           n == Len(es)
<1>1. es \in Seq(L) /\ e \in L
  OBVIOUS
<1> HIDE DEF L
<1>2. /\ n \in Nat /\ DOMAIN es = 1..n /\ DOMAIN a = 1..(n + 1)
      /\ \A j \in 1..(n + 1) : IF j = n + 1 THEN a[j] = e ELSE j \in 1..n /\ a[j] = es[j]
  BY <1>1
<1> HIDE DEF a, n
<1>3. ASSUME NEW m \in Names, NEW i \in Named(a, Ref(m)), NEW j \in Named(a, Ref(m)), i # j
      PROVE  FALSE
  <2>1. i \in 1..(n + 1) /\ j \in 1..(n + 1) /\ a[i].ref = Ref(m) /\ a[j].ref = Ref(m)
    BY <1>2 DEF Named
  <2>2. \A k \in 1..n : es[k].ref = Ref(m) => k \in Named(es, Ref(m))
    BY <1>2 DEF Named
  <2>3. CASE i # n + 1 /\ j # n + 1
    BY <1>2, <1>3, <2>1, <2>2, <2>3 DEF Unique
  <2>4. CASE i = n + 1 \/ j = n + 1
    <3>1. e.ref = Ref(m) /\ Ref(m)[2] = Plain
      BY <1>2, <2>1, <2>4, RefsAre
    <3>2. Named(es, Ref(m)) = {}
      BY <3>1
    <3> QED
      BY <1>2, <1>3, <2>1, <2>2, <2>4, <3>2
  <2> QED BY <2>3, <2>4
<1> QED
  BY <1>3 DEF Unique, a

(***************************************************************************)
(* How the steps and the entries of the command at work change             *)
(***************************************************************************)
LEMMA BeginDoes ==
  ASSUME Types, NEW p \in Procs, NEW op, NEW r, NEW a, NEW steps, Begin(p, op, r, a, steps)
  PROVE  /\ Todo(p) = <<>> /\ Todo(p)' = FirstSteps(steps)
         /\ job'[p] = [Idle EXCEPT !.op = op, !.ref = r, !.arch = a, !.todo = FirstSteps(steps)]
         /\ \A q \in Procs : q # p => job'[q] = job[q]
         /\ UNCHANGED <<disk, remote, faults>>
<1> DEFINE w == [Idle EXCEPT !.op = op, !.ref = r, !.arch = a, !.todo = FirstSteps(steps)]
<1>1. job' = [job EXCEPT ![p] = w] /\ Todo(p) = <<>> /\ UNCHANGED <<disk, remote, faults>>
  BY DEF Begin, FirstSteps
<1>2. w.todo = FirstSteps(steps)
  BY DEF Idle
<1> HIDE DEF w
<1>3. job'[p] = w /\ \A q \in Procs : q # p => job'[q] = job[q]
  BY <1>1 DEF Types, JobsFit
<1> QED
  BY <1>1, <1>2, <1>3 DEF Todo, w

\* What a command will write comes into memory and goes to the disk in one piece.
LEMMA ComingIs ==
  ASSUME NEW p
  PROVE  /\ Todo(p) = <<>> => Coming(p) = root.es
         /\ Todo(p) # <<>> /\ Todo(p)[1].do \notin {"trunc", "data"} => Coming(p) = root.es
         /\ Todo(p) # <<>> /\ Todo(p)[1].do \in {"trunc", "data"} => Coming(p) = job[p].buf
BY DEF Coming, Writing

\* Steps that only come first come first only if they are new.
LEMMA NextNot ==
  ASSUME JobsFit, NEW p \in Procs, Todo(p) # <<>>, Todo(p)[1].do # "trunc",
         NEW W, W \subseteq {"init", "copy", "trunc", "data"},
         NEW steps \in Seq(Plans), \A k \in DOMAIN steps : steps[k].do \notin W,
         NEW u, u = steps \o Tail(Todo(p))
  PROVE  u = <<>> \/ u[1].do \notin W
<1> DEFINE P == Plans
           t == Todo(p)
           l == Len(steps)
<1>1. t \in Seq(P) /\ t # <<>> /\ t = job[p].todo /\ JobFits(job[p]) /\ steps \in Seq(P)
  BY DEF JobsFit, Todo, Jobs
<1> HIDE DEF P, t
<1>2. /\ u \in Seq(P) /\ Len(u) = l + Len(t) - 1 /\ l \in Nat /\ Len(t) \in Nat \ {0}
      /\ DOMAIN steps = 1..l /\ DOMAIN t = 1..Len(t) /\ DOMAIN u = 1..(l + Len(t) - 1)
      /\ \A k \in 1..(l + Len(t) - 1) :
           IF k <= l THEN u[k] = steps[k]
           ELSE k - l + 1 \in 2..Len(t) /\ u[k] = t[k - l + 1]
  <2>1. u = steps \o Tail(t)
    BY DEF t
  <2> DEFINE v == steps \o Tail(t)
  <2>2. /\ v \in Seq(P) /\ Len(v) = l + Len(t) - 1 /\ l \in Nat /\ Len(t) \in Nat \ {0}
        /\ DOMAIN steps = 1..l /\ DOMAIN t = 1..Len(t) /\ DOMAIN v = 1..(l + Len(t) - 1)
        /\ \A k \in 1..(l + Len(t) - 1) :
             IF k <= l THEN v[k] = steps[k]
             ELSE k - l + 1 \in 2..Len(t) /\ v[k] = t[k - l + 1]
    BY <1>1, InPlaceOfHead
  <2>3. u = v
    BY <2>1
  <2> HIDE DEF v, l
  <2> QED BY <2>2, <2>3
<1> SUFFICES ASSUME u # <<>> PROVE u[1].do \notin W
  OBVIOUS
<1>3. 1 \in DOMAIN u /\ 1 <= l + Len(t) - 1
  BY <1>2
<1>4. CASE l >= 1
  BY <1>2, <1>3, <1>4
<1>5. CASE l < 1
  <2>1. 2 \in DOMAIN t /\ u[1] = t[2]
    BY <1>2, <1>3, <1>5
  <2>2. t[2].do \in {"init", "copy", "trunc"} => 2 = 1
    BY <1>1, <2>1 DEF JobFits, Ordered
  <2>3. t[2].do = "data" => 2 = 1 \/ t[1].do = "trunc"
    BY <1>1, <2>1 DEF JobFits, Ordered
  <2>4. t[2].do \notin {"init", "copy", "trunc", "data"}
    BY <2>2, <2>3 DEF t
  <2> QED
    BY <2>1, <2>4
<1> QED
  BY <1>2, <1>4, <1>5

\* After a step that is not truncating index.json the command is not about to write it,
\* unless the new steps are.
LEMMA NextQuiet ==
  ASSUME JobsFit, NEW p \in Procs, Todo(p) # <<>>, Todo(p)[1].do # "trunc",
         NEW steps \in Seq(Plans), \A k \in DOMAIN steps : steps[k].do \notin {"trunc", "data"},
         NEW u, u = steps \o Tail(Todo(p))
  PROVE  u = <<>> \/ u[1].do \notin {"trunc", "data"}
<1> DEFINE W == {"trunc", "data"}
<1>1. W \subseteq {"init", "copy", "trunc", "data"} /\ \A k \in DOMAIN steps : steps[k].do \notin W
  OBVIOUS
<1> HIDE DEF W
<1>2. u = <<>> \/ u[1].do \notin W
  BY <1>1, NextNot
<1> QED
  BY <1>2 DEF W

\* UniqueInv, for the only process.
UniqueAt(p) == Unique(root.es) /\ Unique(Coming(p)) /\ Careful(Todo(p), Coming(p))

LEMMA UniqueIs ==
  ASSUME OneProcess, NEW p \in Procs
  PROVE  UniqueInv <=> UniqueAt(p)
<1>1. \A q \in Procs : \A j \in DOMAIN Todo(q) : Replaces(q, j) <=> InPlace(Todo(q), Coming(q), j)
  BY DEF Replaces, InPlace
<1>2. \A q \in Procs : UniqueAt(q) <=>
        /\ Unique(root.es)
        /\ Unique(Coming(q))
        /\ \A j \in DOMAIN Todo(q) :
             Todo(q)[j].do = "append" /\ Todo(q)[j].e.ref[2] = Plain => Replaces(q, j)
  BY <1>1 DEF UniqueAt, Careful, IsPlain
<1>3. \A q \in Procs : q = p
  BY DEF OneProcess
<1> QED
  BY <1>2, <1>3 DEF UniqueInv

\* Steps begun.
LEMMA PreparedFirst ==
  ASSUME NEW steps \in Seq(Plans), Prepared(steps)
  PROVE  Prepared(FirstSteps(steps)) /\ \A k \in DOMAIN FirstSteps(steps) :
           FirstSteps(steps)[k].do = "init" \/ \E j \in DOMAIN steps : FirstSteps(steps)[k] = steps[j]
<1> DEFINE P == Plans
           h == Do("init")
           u == <<h>> \o steps
<1>1. h \in P /\ steps \in Seq(P) /\ h.do = "init"
  BY PlansAre
<1>2. CASE root # NoRoot
  BY <1>2 DEF FirstSteps
<1>3. CASE root = NoRoot
  <2> HIDE DEF P, h
  <2>1. /\ DOMAIN u = 1..(Len(steps) + 1) /\ DOMAIN steps = 1..Len(steps) /\ Len(steps) \in Nat
        /\ u[1] = h
        /\ \A k \in 1..Len(steps) : u[k + 1] = steps[k]
        /\ \A k \in 1..(Len(steps) + 1) : k = 1 \/ (k - 1 \in 1..Len(steps) /\ u[k] = steps[k - 1])
    BY <1>1, Before
  <2>2. FirstSteps(steps) = u
    BY <1>3 DEF FirstSteps, h
  <2> HIDE DEF u
  <2>3. ASSUME NEW j \in DOMAIN u, IsPlain(u[j])
        PROVE  j > 1 /\ u[j - 1].do = "remove" /\ u[j - 1].ref = u[j].e.ref
    <3>1. j # 1
      BY <1>1, <2>1, <2>3 DEF IsPlain
    <3>2. j - 1 \in DOMAIN steps /\ u[j] = steps[j - 1]
      BY <2>1, <3>1
    <3>3. j - 1 > 1 /\ steps[(j - 1) - 1].do = "remove" /\ steps[(j - 1) - 1].ref = steps[j - 1].e.ref
      BY <2>3, <3>2 DEF Prepared
    <3>4. j - 2 \in 1..Len(steps) /\ (j - 1) - 1 = j - 2 /\ (j - 2) + 1 = j - 1 /\ j > 1
      BY <2>1, <3>2, <3>3
    <3>5. u[j - 1] = steps[(j - 1) - 1]
      BY <2>1, <3>4
    <3> QED
      BY <3>2, <3>3, <3>4, <3>5
  <2>4. \A k \in DOMAIN u : u[k].do = "init" \/ \E j \in DOMAIN steps : u[k] = steps[j]
    BY <1>1, <2>1
  <2> QED
    BY <2>2, <2>3, <2>4 DEF Prepared
<1> QED
  BY <1>2, <1>3

\* The steps that a command begins with.
Begun(x) ==
  /\ x.do \in {"fetch", "look", "blob", "remove", "append", "index", "return", "push"}
  /\ x.do = "index" => OneEach(x.add)
  /\ x.do = "append" => x.e.kind = "image"

BeginsWith(p, op, r, a, steps) ==
  /\ Prepared(steps) /\ Todo(p)' = FirstSteps(steps)
  /\ job'[p] = [Idle EXCEPT !.op = op, !.ref = r, !.arch = a, !.todo = FirstSteps(steps)]
  /\ \A k \in DOMAIN steps : Begun(steps[k])

LEMMA BeginsDo ==
  ASSUME Types, NEW p \in Procs,
         BeginPull(p) \/ BeginLoad(p) \/ BeginIndexWrite(p) \/ BeginDescriptorWrite(p) \/ BeginPush(p)
  PROVE  /\ Todo(p) = <<>> /\ UNCHANGED <<disk, remote, faults>>
         /\ \A q \in Procs : q # p => job'[q] = job[q]
         /\ \E op, r, a : \E steps \in Seq(Plans) : BeginsWith(p, op, r, a, steps)
<1> DEFINE Good1(steps) == /\ steps \in Seq(Plans) /\ Prepared(steps)
                           /\ \A k \in DOMAIN steps : Begun(steps[k])
<1>1. ASSUME NEW op, NEW r, NEW a, NEW steps, Begin(p, op, r, a, steps), Good1(steps)
      PROVE  /\ Todo(p) = <<>> /\ UNCHANGED <<disk, remote, faults>>
             /\ \A q \in Procs : q # p => job'[q] = job[q]
             /\ \E o, s, c : \E t \in Seq(Plans) : BeginsWith(p, o, s, c, t)
  <2> HIDE DEF Good1
  <2>1. /\ Todo(p) = <<>> /\ Todo(p)' = FirstSteps(steps)
        /\ job'[p] = [Idle EXCEPT !.op = op, !.ref = r, !.arch = a, !.todo = FirstSteps(steps)]
        /\ \A q \in Procs : q # p => job'[q] = job[q]
        /\ UNCHANGED <<disk, remote, faults>>
    BY <1>1, BeginDoes
  <2>2. steps \in Seq(Plans) /\ Prepared(steps) /\ \A k \in DOMAIN steps : Begun(steps[k])
    BY <1>1 DEF Good1
  <2>3. BeginsWith(p, op, r, a, steps)
    BY <2>1, <2>2 DEF BeginsWith
  <2> QED
    BY <2>1, <2>2, <2>3
<1>2. ASSUME NEW steps \in Seq(Plans),
             \A k \in DOMAIN steps : /\ steps[k].do \in {"fetch", "look", "index", "return", "push"}
                                     /\ steps[k].do = "index" => OneEach(steps[k].add)
      PROVE  Good1(steps)
  BY <1>2 DEF Prepared, IsPlain, Begun
<1>3. CASE BeginPull(p)
  <2>1. PICK n \in Names, a \in Arches, steps \in {<<Do("fetch")>>, <<Do("look"), Do("fetch")>>} :
              Begin(p, "pull", Ref(n), a, steps)
    BY <1>3, PullBegins
  <2>2. steps \in Seq(Plans) /\ \A k \in DOMAIN steps : steps[k] \in {Do("fetch"), Do("look")}
    <3>1. Do("fetch") \in Plans /\ Do("look") \in Plans
      BY PlansAre
    <3>2. CASE steps = <<Do("fetch")>>
      BY <3>1, <3>2, Tuples
    <3>3. CASE steps = <<Do("look"), Do("fetch")>>
      BY <3>1, <3>3, Tuples
    <3> QED BY <2>1, <3>2, <3>3
  <2>3. Good1(steps)
    BY <1>2, <2>2 DEF Do
  <2> HIDE DEF Good1
  <2> QED BY <1>1, <2>1, <2>3
<1>4. CASE BeginLoad(p)
  <2>0. PICK n \in Names : \E i \in Loads[n] : \E bs \in {WriteImage(i), Reverse(WriteImage(i))} :
              /\ PlatOf[i] # NoPlat
              /\ LET r == Tag(n, PlatOf[i].arch) IN
                 Begin(p, "load", r, PlatOf[i].arch,
                       bs \o <<Unlist(r), AppendTo(Entry(r, ImageOf(i))), Do("return")>>)
    BY <1>4, LoadBegins
  <2>1. PICK i \in Loads[n] : \E bs \in {WriteImage(i), Reverse(WriteImage(i))} :
              /\ PlatOf[i] # NoPlat
              /\ LET r == Tag(n, PlatOf[i].arch) IN
                 Begin(p, "load", r, PlatOf[i].arch,
                       bs \o <<Unlist(r), AppendTo(Entry(r, ImageOf(i))), Do("return")>>)
    BY <2>0
  <2> DEFINE r == Tag(n, PlatOf[i].arch)
             e == Entry(r, ImageOf(i))
             end == <<Unlist(r), AppendTo(e), Do("return")>>
  <2>2. PICK bs \in {WriteImage(i), Reverse(WriteImage(i))} :
          PlatOf[i] # NoPlat /\ Begin(p, "load", r, PlatOf[i].arch, bs \o end)
    BY <2>1
  <2>3. i \in Images /\ r \in Refs /\ r[2] # Plain
    BY <2>2, LoadsAre, RefsAre
  <2>4. e \in Listing /\ e.ref = r /\ e.kind = "image"
    BY <2>3, ContentsAre, EntryIs DEF ImageOf
  <2>5. end \in Seq(Plans) /\ \A k \in DOMAIN end : end[k] \in {Unlist(r), AppendTo(e), Do("return")}
    <3> HIDE DEF e, r
    <3>1. Unlist(r) \in Plans /\ AppendTo(e) \in Plans /\ Do("return") \in Plans
      BY <2>3, <2>4, PlansAre
    <3> QED BY <3>1, Tuples
  <2>6. bs \in Seq(Plans) /\ \A k \in DOMAIN bs : bs[k].do = "blob"
    <3>1. Blob(Manifest(i)) \in Plans /\ Blob(Layers(i)) \in Plans
      BY <2>3, PlansAre, BlobsAre
    <3>2. bs = <<Blob(Layers(i)), Blob(Manifest(i))>> \/ bs = <<Blob(Manifest(i)), Blob(Layers(i))>>
      BY <2>3, WriteImageIs DEF WriteImage
    <3>3. bs \in Seq(Plans) /\ \A k \in DOMAIN bs : bs[k] \in {Blob(Layers(i)), Blob(Manifest(i))}
      <4>1. CASE bs = <<Blob(Layers(i)), Blob(Manifest(i))>>
        BY <3>1, <4>1, Tuples
      <4>2. CASE bs = <<Blob(Manifest(i)), Blob(Layers(i))>>
        BY <3>1, <4>2, Tuples
      <4> QED BY <3>2, <4>1, <4>2
    <3> QED BY <3>3 DEF Blob
  <2>7. \A k \in DOMAIN end : Begun(end[k]) /\ ~IsPlain(end[k])
    <3> HIDE DEF e, r, end
    <3> QED BY <2>3, <2>4, <2>5 DEF Unlist, AppendTo, Do, IsPlain, Begun
  <2> DEFINE P == Plans
             u == bs \o end
  <2>8. /\ u \in Seq(P) /\ DOMAIN u = 1..(Len(bs) + Len(end))
        /\ DOMAIN bs = 1..Len(bs) /\ DOMAIN end = 1..Len(end)
        /\ \A k \in 1..(Len(bs) + Len(end)) :
              IF k <= Len(bs) THEN k \in 1..Len(bs) /\ u[k] = bs[k]
              ELSE k - Len(bs) \in 1..Len(end) /\ u[k] = end[k - Len(bs)]
    <3>1. bs \in Seq(P) /\ end \in Seq(P)
      BY <2>5, <2>6
    <3> HIDE DEF P, end
    <3> QED BY <3>1, TwoLists
  <2> HIDE DEF u, end
  <2>9. \A k \in DOMAIN u : Begun(u[k]) /\ ~IsPlain(u[k])
    <3>1. \A k \in DOMAIN bs : Begun(bs[k]) /\ ~IsPlain(bs[k])
      BY <2>6 DEF IsPlain, Begun
    <3> QED BY <2>7, <2>8, <3>1
  <2>10. Good1(u)
    BY <2>8, <2>9 DEF Prepared
  <2> HIDE DEF Good1
  <2> QED BY <1>1, <2>2, <2>10 DEF u
<1>5. CASE BeginIndexWrite(p)
  <2>0. PICK n \in Names : \E i \in Loads[n] :
              Begin(p, "index", Ref(n), Plain, <<[do |-> "index", add |-> <<i>>], Do("return")>>)
    BY <1>5, IndexWriteBegins
  <2> DEFINE first(i) == [do |-> "index", add |-> <<i>>]
  <2>1. PICK i \in Loads[n] : Begin(p, "index", Ref(n), Plain, <<first(i), Do("return")>>)
    BY <2>0
  <2>2. <<i>> \in Seq(Images)
    BY LoadsAre
  <2>3. first(i) \in Plans /\ first(i).do = "index" /\ Do("return") \in Plans /\ Do("return").do = "return"
    BY <2>2, PlansAre
  <2>6. OneEach(first(i).add)
    BY DEF OneEach
  <2> HIDE DEF first
  <2> DEFINE u == <<first(i), Do("return")>>
  <2>4. u \in Seq(Plans) /\ \A k \in DOMAIN u : u[k] \in {first(i), Do("return")}
    BY <2>3, Tuples
  <2> HIDE DEF u
  <2>5. Good1(u)
    BY <1>2, <2>3, <2>4, <2>6
  <2> HIDE DEF Good1
  <2> QED BY <1>1, <2>1, <2>5 DEF u
<1>6. CASE BeginDescriptorWrite(p)
  <2>0. PICK n \in Names : \E i \in Loads[n] :
              Begin(p, "descriptor", Ref(n), Plain,
                    <<Unlist(Ref(n)), AppendTo(Entry(Ref(n), ImageOf(i))), Do("return")>>)
    BY <1>6, DescriptorWriteBegins
  <2> DEFINE e(i) == Entry(Ref(n), ImageOf(i))
             u(i) == <<Unlist(Ref(n)), AppendTo(e(i)), Do("return")>>
  <2>1. PICK i \in Loads[n] : Begin(p, "descriptor", Ref(n), Plain, u(i))
    BY <2>0
  <2>2. e(i) \in Listing /\ e(i).ref = Ref(n) /\ e(i).kind = "image"
    BY LoadsAre, ContentsAre, RefsAre, EntryIs DEF ImageOf
  <2> HIDE DEF e
  <2>3. /\ Unlist(Ref(n)) \in Plans /\ AppendTo(e(i)) \in Plans /\ Do("return") \in Plans
        /\ Unlist(Ref(n)).do = "remove" /\ Unlist(Ref(n)).ref = Ref(n)
        /\ AppendTo(e(i)).do = "append" /\ AppendTo(e(i)).e = e(i) /\ Do("return").do = "return"
    BY <2>2, RefsAre, PlansAre DEF Unlist, AppendTo, Do
  <2>4. /\ u(i) \in Seq(Plans) /\ DOMAIN u(i) = 1..3
        /\ u(i)[1] = Unlist(Ref(n)) /\ u(i)[2] = AppendTo(e(i)) /\ u(i)[3] = Do("return")
        /\ \A k \in 1..3 : k = 1 \/ k = 2 \/ k = 3
    BY <2>3, Tuples
  <2> HIDE DEF u
  <2>5. Good1(u(i))
    BY <2>2, <2>3, <2>4 DEF Prepared, IsPlain, Begun
  <2> HIDE DEF Good1
  <2> QED BY <1>1, <2>1, <2>5
<1>7. CASE BeginPush(p)
  <2>1. PICK n \in Names : Begin(p, "push", Ref(n), Plain, <<Do("push")>>)
    BY <1>7, PushBegins
  <2> DEFINE u == <<Do("push")>>
  <2>2. u \in Seq(Plans) /\ \A k \in DOMAIN u : u[k] = Do("push")
    <3>1. Do("push") \in Plans
      BY PlansAre
    <3> QED BY <3>1, Tuples
  <2> HIDE DEF u
  <2>3. Good1(u)
    BY <1>2, <2>2 DEF Do
  <2> HIDE DEF Good1
  <2> QED BY <1>1, <2>1, <2>3 DEF u
<1> QED
  BY <1>3, <1>4, <1>5, <1>6, <1>7

LEMMA BeginsPrepared ==
  ASSUME Types, NEW p \in Procs,
         BeginPull(p) \/ BeginLoad(p) \/ BeginIndexWrite(p) \/ BeginDescriptorWrite(p) \/ BeginPush(p)
  PROVE  /\ Todo(p) = <<>> /\ UNCHANGED <<disk, remote, faults>>
         /\ \E steps \in Seq(Plans) :
              /\ Prepared(steps) /\ Todo(p)' = FirstSteps(steps)
              /\ \A k \in DOMAIN steps : steps[k].do \notin {"init", "trunc", "data"}
<1>1. PICK op, r, a : \E steps \in Seq(Plans) : BeginsWith(p, op, r, a, steps)
  BY BeginsDo
<1>2. \A x : Begun(x) => x.do \notin {"init", "trunc", "data"}
  BY DEF Begun
<1> QED
  BY <1>1, <1>2, BeginsDo DEF BeginsWith

LEMMA ComingNext ==
  ASSUME NEW p
  PROVE  /\ Todo(p)' = <<>> => Coming(p)' = root'.es
         /\ Todo(p)' # <<>> /\ Todo(p)'[1].do \notin {"trunc", "data"} => Coming(p)' = root'.es
         /\ Todo(p)' # <<>> /\ Todo(p)'[1].do \in {"trunc", "data"} => Coming(p)' = job'[p].buf
BY DEF Coming, Writing

LEMMA UniqueEnd ==
  ASSUME NEW p, UniqueAt(p), Todo(p)' = <<>>, UNCHANGED root
  PROVE  UniqueAt(p)'
<1>1. Coming(p)' = root.es
  BY ComingNext
<1>2. DOMAIN <<>> = {}
  OBVIOUS
<1>3. Careful(<<>>, root.es)
  BY <1>2 DEF Careful
<1> QED
  BY <1>1, <1>3 DEF UniqueAt

LEMMA UniqueMove ==
  ASSUME Types, NEW p \in Procs, UniqueAt(p), Todo(p) # <<>>, Todo(p)[1].do \notin {"remove", "trunc", "data"},
         NEW steps \in Seq(Plans), Prepared(steps), \A k \in DOMAIN steps : steps[k].do \notin {"trunc", "data"},
         Todo(p)' = steps \o Tail(Todo(p)), UNCHANGED root
  PROVE  UniqueAt(p)'
<1> DEFINE t == Todo(p)
           u == steps \o Tail(t)
<1>1. t \in Seq(Plans) /\ Coming(p) = root.es
  BY ComingIs DEF Types, JobsFit, Jobs, Todo
<1>2. u = <<>> \/ u[1].do \notin {"trunc", "data"}
  <2> HIDE DEF u
  <2>1. u = steps \o Tail(Todo(p))
    BY DEF u
  <2> QED BY <2>1, NextQuiet DEF Types
<1>3. Coming(p)' = root.es
  <2> HIDE DEF u
  <2>1. Todo(p)' = u
    BY DEF u
  <2> QED BY <1>2, <2>1, ComingNext
<1>4. Careful(u, root.es)
  <2> HIDE DEF t
  <2>1. t # <<>> /\ t[1].do \notin {"remove", "trunc", "data"} /\ Careful(t, root.es)
    BY <1>1 DEF UniqueAt, t
  <2> QED BY <1>1, <2>1, CarefulMoves
<1> QED
  BY <1>3, <1>4 DEF UniqueAt

\* A new list of entries is in memory: after init or an edit.
LEMMA UniqueWrite ==
  ASSUME Types, NEW p \in Procs, UniqueAt(p), Todo(p) # <<>>, Todo(p)[1].do \notin {"trunc", "data"},
         NEW new, Unique(new), Todo(p)[1].do = "remove" => Named(new, Todo(p)[1].ref) = {},
         Todo(p)' = <<Do("trunc"), Do("data")>> \o Tail(Todo(p)), UNCHANGED root, job'[p].buf = new
  PROVE  UniqueAt(p)'
<1> DEFINE t == Todo(p)
           steps == <<Do("trunc"), Do("data")>>
           u == steps \o Tail(t)
<1>1. t \in Seq(Plans) /\ Coming(p) = root.es
  BY ComingIs DEF Types, JobsFit, Jobs, Todo
<1>2. /\ steps \in Seq(Plans) /\ DOMAIN steps = 1..2 /\ Len(steps) = 2
      /\ steps[1].do = "trunc" /\ steps[2].do = "data"
      /\ \A k \in 1..2 : k = 1 \/ k = 2
  BY PlansAre DEF Do
<1> HIDE DEF steps, t
<1>3. u[1].do = "trunc" /\ u # <<>>
  <2> DEFINE P == Plans
             v == steps \o Tail(t)
  <2>1. t \in Seq(P) /\ steps \in Seq(P) /\ t # <<>>
    BY <1>1, <1>2 DEF t
  <2> HIDE DEF P, v
  <2>2. /\ v \in Seq(P) /\ DOMAIN v = 1..(Len(steps) + Len(t) - 1) /\ Len(t) \in Nat \ {0}
        /\ \A k \in 1..Len(steps) : v[k] = steps[k]
    BY <2>1, InPlaceOfHead DEF v
  <2>3. 1 \in DOMAIN v /\ v[1] = steps[1]
    BY <1>2, <2>2
  <2>4. v # <<>>
    BY <2>3
  <2> QED BY <1>2, <2>3, <2>4 DEF v
<1>4. Coming(p)' = new
  <2> HIDE DEF u
  <2>1. Todo(p)' = u
    BY DEF u, t, steps
  <2> QED BY <1>3, <2>1, ComingNext
<1>5. Careful(u, new)
  <2>1. /\ t # <<>> /\ t[1].do \notin {"trunc", "data"} /\ Careful(t, root.es) /\ Prepared(steps)
        /\ t[1].do = "remove" => Named(new, t[1].ref) = {}
        /\ \A i \in DOMAIN steps : steps[i].do \in {"trunc", "data"}
    BY <1>1, <1>2 DEF UniqueAt, Prepared, IsPlain, t
  <2> QED BY <1>1, <1>2, <2>1, CarefulMoves
<1>6. Todo(p)' = u
  BY DEF u, t, steps
<1> HIDE DEF u
<1> QED
  BY <1>4, <1>5, <1>6 DEF UniqueAt

LEMMA NotPrepared ==
  ASSUME NEW steps, \A k \in DOMAIN steps : steps[k].do # "append"
  PROVE  Prepared(steps)
BY DEF Prepared, IsPlain

LEMMA UniqueBegins ==
  ASSUME Types, NEW p \in Procs, UniqueAt(p),
         BeginPull(p) \/ BeginLoad(p) \/ BeginIndexWrite(p) \/ BeginDescriptorWrite(p) \/ BeginPush(p) \/ BeginClean(p)
  PROVE  UniqueAt(p)'
<1>1. CASE BeginPull(p) \/ BeginLoad(p) \/ BeginIndexWrite(p) \/ BeginDescriptorWrite(p) \/ BeginPush(p)
  <2>1. Todo(p) = <<>> /\ UNCHANGED disk
    BY <1>1, BeginsPrepared
  <2>2. PICK steps \in Seq(Plans) :
          /\ Prepared(steps) /\ Todo(p)' = FirstSteps(steps)
          /\ \A k \in DOMAIN steps : steps[k].do \notin {"trunc", "data"}
    BY <1>1, BeginsPrepared
  <2> DEFINE u == FirstSteps(steps)
  <2>3. Prepared(u) /\ \A k \in DOMAIN u : u[k].do \notin {"trunc", "data"}
    BY <2>2, PreparedFirst
  <2>4. u \in Seq(Plans) /\ Todo(p)' = u
    BY <2>2, FirstStepsAre
  <2> HIDE DEF u
  <2>5. u = <<>> \/ u[1].do \notin {"trunc", "data"}
    <3> DEFINE P == Plans
    <3>1. u \in Seq(P)
      BY <2>4
    <3> HIDE DEF P
    <3>2. u = <<>> \/ 1 \in DOMAIN u
      BY <3>1
    <3> QED BY <2>3, <3>2
  <2>6. Coming(p)' = root.es /\ UNCHANGED root
    BY <2>1, <2>4, <2>5, ComingNext DEF disk
  <2>7. Careful(u, root.es)
    BY <2>3 DEF Prepared, Careful, InPlace
  <2> QED
    BY <2>4, <2>6, <2>7 DEF UniqueAt
<1>2. CASE BeginClean(p)
  <2> DEFINE u == <<Do("clean")>>
  <2>1. Todo(p)' = u /\ UNCHANGED disk
    BY <1>2, CleanBegins
  <2>2. u # <<>> /\ \A k \in DOMAIN u : u[k].do = "clean"
    BY DEF Do
  <2>3. u[1].do = "clean"
    BY DEF Do
  <2> HIDE DEF u
  <2>4. Coming(p)' = root.es /\ UNCHANGED root
    BY <2>1, <2>2, <2>3, ComingNext DEF disk
  <2>5. Careful(u, root.es)
    BY <2>2 DEF Careful, IsPlain
  <2> QED
    BY <2>1, <2>4, <2>5 DEF UniqueAt
<1> QED
  BY <1>1, <1>2

LEMMA UniqueClean ==
  ASSUME Types, NEW p \in Procs, UniqueAt(p), Clean(p)
  PROVE  UniqueAt(p)'
<1>0. At(p, "clean") /\ Todo(p) # <<>> /\ Todo(p)[1].do = "clean"
  BY AtIs DEF Clean, Types
<1>1. CASE root' = NoRoot /\ UNCHANGED job
  <2>1. Todo(p)' = Todo(p)
    BY <1>1 DEF Todo
  <2>2. root'.es = <<>>
    BY <1>1 DEF NoRoot
  <2>3. Coming(p)' = <<>>
    BY <1>0, <2>1, <2>2, ComingNext
  <2>4. Unique(<<>>)
    BY DEF Unique, Named
  <2>5. \A j \in DOMAIN Todo(p) : ~IsPlain(Todo(p)[j])
    <3>1. job[p].op = "clean"
      BY <1>0, AtIs DEF Types, DoneBy, Ops
    <3>2. \A j \in DOMAIN Todo(p) : Todo(p)[j].do = "clean"
      BY <3>1 DEF Types, JobsFit, JobFits, Ordered, DoneBy, Todo
    <3> QED BY <3>2 DEF IsPlain
  <2> QED
    BY <2>1, <2>2, <2>3, <2>4, <2>5 DEF UniqueAt, Careful
<1>2. CASE UNCHANGED <<root, job>>
  BY <1>2 DEF UniqueAt, Coming, Writing, Todo
<1>3. CASE Return(p, TRUE) /\ UNCHANGED disk
  <2>1. Todo(p)' = <<>>
    BY <1>3, ReturnFits DEF Types
  <2> QED
    BY <1>3, <2>1, UniqueEnd DEF disk
<1> QED
  BY <1>1, <1>2, <1>3 DEF Clean

LEMMA UniqueEdits ==
  ASSUME Types, NEW p \in Procs, UniqueAt(p), InitRoot(p) \/ EditRoot(p)
  PROVE  UniqueAt(p)'
<1>0. UNCHANGED root
  BY DEF InitRoot, EditRoot, disk
<1>1. CASE InitRoot(p)
  <2>1. At(p, "init")
    BY <1>1 DEF InitRoot
  <2>2. Todo(p) # <<>> /\ Todo(p)[1].do = "init" /\ job[p] \in Jobs
    BY <2>1, AtIs DEF Types
  <2>3. /\ Todo(p)' = <<Do("trunc"), Do("data")>> \o Tail(Todo(p))
        /\ job'[p] = [job[p] EXCEPT !.todo = <<Do("trunc"), Do("data")>> \o Tail(job[p].todo), !.buf = <<>>]
    BY <1>1, Types_InitRoot
  <2>4. job'[p].buf = <<>>
    BY <2>2, <2>3 DEF Jobs
  <2>5. Unique(<<>>)
    BY DEF Unique, Named
  <2> QED
    BY <1>0, <2>2, <2>3, <2>4, <2>5, UniqueWrite
<1>2. CASE EditRoot(p)
  <2>0. At(p, "remove") \/ At(p, "append") \/ At(p, "replace")
    BY <1>2 DEF EditRoot
  <2>1. CASE Todo(p)' = <<>>
    BY <1>0, <2>1, UniqueEnd
  <2>2. CASE /\ Todo(p)' = <<Do("trunc"), Do("data")>> \o Tail(Todo(p))
             /\ job'[p] = [job[p] EXCEPT !.todo = <<Do("trunc"), Do("data")>> \o Tail(job[p].todo), !.buf = Edited(p)]
    <3>1. Unique(root.es) /\ root.es \in Seq(Listing) /\ RootFits
      BY RootEntries DEF UniqueAt, Types
    <3>2. /\ Todo(p) # <<>> /\ Todo(p) \in Seq(Plans) /\ Todo(p)[1].do \in {"remove", "append", "replace"}
          /\ job[p] \in Jobs /\ Now(p) \in Plans /\ Now(p) = Todo(p)[1]
      <4>1. CASE At(p, "remove")
        BY <4>1, AtIs DEF Types
      <4>2. CASE At(p, "append")
        BY <4>2, AtIs DEF Types
      <4>3. CASE At(p, "replace")
        BY <4>3, AtIs DEF Types
      <4> QED BY <2>0, <4>1, <4>2, <4>3
    <3>3. job'[p].buf = Edited(p)
      BY <2>2, <3>2 DEF Jobs
    <3>4. Unique(Edited(p)) /\ (Todo(p)[1].do = "remove" => Named(Edited(p), Todo(p)[1].ref) = {})
      <4>1. CASE At(p, "remove")
        <5>1. Edited(p) = WithoutRef(Todo(p)[1].ref)
          BY <3>2, <4>1 DEF Edited, At
        <5> QED BY <3>1, <5>1, UniqueWithout
      <4>2. CASE At(p, "append")
        <5>1. Edited(p) = Append(root.es, Now(p).e) /\ Todo(p)[1].do = "append"
          BY <3>2, <4>2 DEF Edited, At
        <5>2. Now(p).e \in Listing
          BY <3>2, <5>1, PlanParts
        <5>3. Now(p).e.ref[2] # Plain \/ Named(root.es, Now(p).e.ref) = {}
          <6>1. Coming(p) = root.es /\ 1 \in DOMAIN Todo(p)
            <7> DEFINE P == Plans
            <7>1. Todo(p) \in Seq(P) /\ Todo(p) # <<>>
              BY <3>2
            <7> HIDE DEF P
            <7>2. 1 \in DOMAIN Todo(p)
              BY <7>1
            <7> QED BY <5>1, <3>2, <7>2, ComingIs
          <6>2. IsPlain(Todo(p)[1]) => InPlace(Todo(p), root.es, 1)
            BY <6>1 DEF UniqueAt, Careful
          <6> QED BY <3>2, <5>1, <6>2 DEF IsPlain, InPlace
        <5> QED BY <3>1, <5>1, <5>2, <5>3, UniqueAppend
      <4>3. CASE At(p, "replace")
        <5>1. Edited(p) = Append(WithoutRef(Now(p).e.ref), Now(p).e) /\ Todo(p)[1].do = "replace"
          BY <3>2, <4>3 DEF Edited, At
        <5>2. Now(p).e \in Listing
          BY <3>2, <5>1, PlanParts
        <5> DEFINE w == WithoutRef(Now(p).e.ref)
        <5>3. w \in Seq(Listing) /\ Unique(w) /\ Named(w, Now(p).e.ref) = {}
          BY <3>1, UniqueWithout, WithoutRefIs
        <5> HIDE DEF w
        <5>4. Unique(Append(w, Now(p).e))
          BY <5>2, <5>3, UniqueAppend
        <5> QED BY <5>1, <5>4 DEF w
      <4> QED BY <2>0, <4>1, <4>2, <4>3
    <3> QED
      BY <1>0, <2>2, <3>2, <3>3, <3>4, UniqueWrite
  <2> QED
    BY <1>2, <2>1, <2>2, Types_EditRoot
<1> QED
  BY <1>1, <1>2

\* Truncating index.json and writing it: the list that was in memory is on the disk.
LEMMA UniqueWrites ==
  ASSUME Types, NEW p \in Procs, UniqueAt(p), Truncate(p) \/ WriteData(p)
  PROVE  UniqueAt(p)'
<1> DEFINE P == Plans
           t == Todo(p)
           u == <<>> \o Tail(t)
<1>0. At(p, "trunc") \/ At(p, "data")
  BY DEF Truncate, WriteData
<1>1. t # <<>> /\ t \in Seq(P) /\ t = job[p].todo /\ t[1].do \in {"trunc", "data"} /\ JobFits(job[p]) /\ job[p] \in Jobs
  <2>1. CASE At(p, "trunc")
    BY <2>1, AtIs DEF Types
  <2>2. CASE At(p, "data")
    BY <2>2, AtIs DEF Types
  <2> QED BY <1>0, <2>1, <2>2
<1>2. /\ Todo(p)' = u /\ job'[p] = [job[p] EXCEPT !.todo = u]
  BY <1>1, Types_Truncate, Types_WriteData DEF Todo
<1> HIDE DEF t
<1>3. /\ u \in Seq(P) /\ Len(t) \in Nat \ {0} /\ DOMAIN t = 1..Len(t) /\ DOMAIN u = 1..(Len(t) - 1)
      /\ \A k \in 1..(Len(t) - 1) : k + 1 \in 2..Len(t) /\ u[k] = t[k + 1]
  <2> HIDE DEF P
  <2>1. <<>> \in Seq(P) /\ Len(<<>>) = 0
    BY EmptySeq
  <2> DEFINE l == Len(<<>>)
  <2>2. /\ u \in Seq(P) /\ Len(t) \in Nat \ {0} /\ DOMAIN t = 1..Len(t) /\ DOMAIN u = 1..(l + Len(t) - 1)
        /\ \A k \in 1..(l + Len(t) - 1) :
             IF k <= l THEN u[k] = <<>>[k]
             ELSE k - l + 1 \in 2..Len(t) /\ u[k] = t[k - l + 1]
    BY <1>1, <2>1, InPlaceOfHead
  <2> HIDE DEF u
  <2> QED BY <2>1, <2>2
<1>4. Coming(p) = job[p].buf
  BY <1>1, ComingIs DEF t
<1> HIDE DEF u
<1>5. job'[p].buf = job[p].buf
  BY <1>1, <1>2 DEF Jobs
<1>6. Coming(p)' = Coming(p) /\ Unique(root.es)'
  <2>1. CASE Truncate(p)
    <3>1. root' = Torn /\ t[1].do = "trunc"
      BY <2>1, AtIs DEF Truncate, Types, t
    <3>2. Len(t) > 1 /\ t[2].do = "data"
      BY <1>1, <1>3, <3>1 DEF JobFits, Ordered
    <3>3. 1 \in 1..(Len(t) - 1)
      BY <1>3, <3>2
    <3>4. u # <<>> /\ u[1].do = "data"
      BY <1>3, <3>2, <3>3
    <3>5. Coming(p)' = job'[p].buf
      BY <1>2, <3>4, ComingNext
    <3>6. root'.es = <<>>
      BY <3>1 DEF Torn
    <3>7. Unique(<<>>)
      BY DEF Unique, Named
    <3> QED BY <1>4, <1>5, <3>5, <3>6, <3>7
  <2>2. CASE WriteData(p)
    <3>1. root'.es = job[p].buf /\ t[1].do = "data"
      BY <2>2, AtIs DEF WriteData, Types, t, Good
    <3>2. u = <<>> \/ u[1].do \notin {"trunc", "data"}
      <4>1. CASE Len(t) = 1
        BY <1>3, <4>1
      <4>2. CASE Len(t) # 1
        <5>1. 2 \in DOMAIN t /\ u[1] = t[2]
          <6>1. 1 \in 1..(Len(t) - 1) /\ 2 \in 1..Len(t)
            BY <1>3, <4>2
          <6> QED BY <1>3, <6>1
        <5>2. t[2].do \in {"init", "copy", "trunc"} => 2 = 1
          BY <1>1, <5>1 DEF JobFits, Ordered
        <5>3. t[2].do = "data" => 2 = 1 \/ t[1].do = "trunc"
          BY <1>1, <5>1 DEF JobFits, Ordered
        <5> QED BY <3>1, <5>1, <5>2, <5>3
      <4> QED BY <4>1, <4>2
    <3>3. Coming(p)' = root'.es
      BY <1>2, <3>2, ComingNext
    <3> QED BY <1>4, <3>1, <3>3 DEF UniqueAt
  <2> QED BY <2>1, <2>2
<1>7. Careful(u, Coming(p))
  <2> DEFINE steps == <<>>
  <2>1. steps \in Seq(Plans) /\ Prepared(steps) /\ t \in Seq(Plans)
    BY <1>1, EmptyLists DEF Prepared
  <2>2. Careful(t, Coming(p))
    BY DEF UniqueAt, t
  <2>3. u = steps \o Tail(t) /\ steps = <<>>
    BY DEF u
  <2> HIDE DEF steps
  <2>4. Careful(steps \o Tail(t), Coming(p))
    BY <1>1, <2>1, <2>2, <2>3, CarefulMoves
  <2> QED BY <2>3, <2>4
<1> QED
  BY <1>2, <1>6, <1>7 DEF UniqueAt

LEMMA UniqueBlobs ==
  ASSUME Types, NEW p \in Procs, UniqueAt(p), WriteBlob(p) \/ CopyBlob(p) \/ RemoveBlob(p)
  PROVE  UniqueAt(p)'
<1>1. ASSUME NEW steps \in Seq(Plans), \A k \in DOMAIN steps : steps[k].do = "copy",
             Todo(p)' = steps \o Tail(Todo(p)), NEW w, At(p, w), w \in {"blob", "copy", "rm"}, UNCHANGED root
      PROVE  UniqueAt(p)'
  <2>1. Todo(p) # <<>> /\ Todo(p)[1].do \in {"blob", "copy", "rm"}
    BY <1>1, AtIs DEF Types
  <2>2. Prepared(steps) /\ \A k \in DOMAIN steps : steps[k].do \notin {"trunc", "data"}
    BY <1>1, NotPrepared
  <2> QED BY <1>1, <2>1, <2>2, UniqueMove
<1>2. CASE WriteBlob(p)
  <2> DEFINE steps == IF Present(Now(p).d) THEN <<>> ELSE <<[do |-> "copy", d |-> Now(p).d]>>
  <2>1. steps \in Seq(Plans) /\ Todo(p)' = steps \o Tail(Todo(p))
    BY <1>2, Types_WriteBlob
  <2>2. \A k \in DOMAIN steps : steps[k].do = "copy"
    OBVIOUS
  <2>3. At(p, "blob") /\ UNCHANGED root
    BY <1>2 DEF WriteBlob, disk
  <2> HIDE DEF steps
  <2> QED BY <1>1, <2>1, <2>2, <2>3
<1>3. CASE CopyBlob(p) \/ RemoveBlob(p)
  <2> DEFINE steps == <<>>
  <2>1. Todo(p)' = steps \o Tail(Todo(p)) /\ UNCHANGED root
    BY <1>3, Types_CopyBlob, Types_RemoveBlob DEF CopyBlob, RemoveBlob
  <2>2. steps \in Seq(Plans) /\ \A k \in DOMAIN steps : steps[k].do = "copy"
    BY EmptyLists
  <2>3. At(p, "copy") \/ At(p, "rm")
    BY <1>3 DEF CopyBlob, RemoveBlob
  <2> HIDE DEF steps
  <2> QED BY <1>1, <2>1, <2>2, <2>3
<1> QED
  BY <1>2, <1>3

LEMMA UniqueIndex ==
  ASSUME Types, NEW p \in Procs, UniqueAt(p), IndexWrite(p)
  PROVE  UniqueAt(p)'
<1>0. At(p, "index") /\ UNCHANGED root
  BY DEF IndexWrite, disk
<1>1. CASE Fail(p)
  <2>1. Todo(p)' = <<>>
    BY <1>1, ReturnFits DEF Types, Fail
  <2> QED BY <1>0, <2>1, UniqueEnd
<1>2. ASSUME NEW s, NEW steps, Puts(p, job[p].ref, s, steps), Then(p, steps)
      PROVE  UniqueAt(p)'
  <2> DEFINE r == job[p].ref
  <2>1. steps \in Seq(Plans) /\ Fresh(steps, job[p])
    BY <1>0, <1>2, PutsAre
  <2>9. PICK h \in {0, 1} :
          /\ Len(steps) = 3 + h /\ DOMAIN steps = 1..(3 + h)
          /\ h = 0 <=> OfKind(root.es, job[p].ref, "index") = {}
          /\ h = 1 => LET old == root.es[First(OfKind(root.es, job[p].ref, "index"))].dig IN
                      steps[1] = [do |-> "rm", d |-> Index(old)] /\ Index(old) \in full
          /\ steps[h + 1] = Blob(Index(s)) /\ steps[h + 2] = Unlist(job[p].ref)
          /\ steps[h + 3] = AppendTo(Entry(job[p].ref, IndexOf(s)))
    BY <1>0, <1>2, PutsAre
  <2>2. /\ Len(steps) = 3 + h /\ DOMAIN steps = 1..(3 + h)
        /\ h = 1 => steps[1].do = "rm"
        /\ steps[h + 1] = Blob(Index(s)) /\ steps[h + 2] = Unlist(r)
        /\ steps[h + 3] = AppendTo(Entry(r, IndexOf(s)))
    BY <2>9
  <2>3. Entry(r, IndexOf(s)).ref = r
    BY DEF Entry
  <2>4. \A k \in DOMAIN steps : (h = 1 /\ k = 1) \/ k = h + 1 \/ k = h + 2 \/ k = h + 3
    BY <2>2
  <2>5. /\ Blob(Index(s)).do = "blob" /\ Unlist(r).do = "remove" /\ Unlist(r).ref = r
        /\ AppendTo(Entry(r, IndexOf(s))).do = "append" /\ AppendTo(Entry(r, IndexOf(s))).e.ref = r
    BY <2>3 DEF Blob, Unlist, AppendTo
  <2>6. Prepared(steps) /\ \A k \in DOMAIN steps : steps[k].do \notin {"trunc", "data"}
    <3>1. ASSUME NEW k \in DOMAIN steps, steps[k].do = "append"
          PROVE  k > 1 /\ steps[k - 1].do = "remove" /\ steps[k - 1].ref = steps[k].e.ref
      <4>1. k = h + 3
        BY <2>2, <2>4, <2>5, <3>1
      <4>2. k > 1 /\ k - 1 = h + 2
        BY <4>1
      <4> QED BY <2>2, <2>5, <4>1, <4>2
    <3>2. \A k \in DOMAIN steps : steps[k].do \in {"rm", "blob", "remove", "append"}
      BY <2>2, <2>4, <2>5
    <3> QED BY <3>1, <3>2 DEF Prepared, IsPlain
  <2>7. Todo(p) # <<>> /\ Todo(p)[1].do = "index"
    BY <1>0, AtIs DEF Types
  <2>8. Todo(p)' = steps \o Tail(Todo(p))
    BY <1>2, <2>1, <2>7, ThenFits DEF Types
  <2> QED BY <1>0, <2>1, <2>6, <2>7, <2>8, UniqueMove
<1> QED
  BY <1>1, <1>2, IndexWriteDoes

LEMMA UniquePulls ==
  ASSUME Types, NEW p \in Procs, UniqueAt(p), Look(p) \/ Fetch(p) \/ Validate(p) \/ Finish(p)
  PROVE  UniqueAt(p)'
<1>0. UNCHANGED root
  BY Zenon DEF Look, Fetch, Validate, Finish, disk
<1>1. ASSUME NEW ok \in BOOLEAN, Return(p, ok)
      PROVE  UniqueAt(p)'
  <2>1. Todo(p)' = <<>>
    BY <1>1, ReturnFits DEF Types
  <2> QED BY <1>0, <2>1, UniqueEnd
<1>2. CASE Look(p)
  <2>1. Todo(p) # <<>> /\ Todo(p)[1].do = "look"
    BY <1>2, AtIs DEF Look, Types
  <2>2. CASE Return(p, TRUE)
    BY <1>1, <2>2
  <2>3. CASE Then(p, <<>>)
    <3> DEFINE steps == <<>>
    <3>1. Todo(p)' = steps \o Tail(Todo(p))
      BY <2>1, <2>3, StepDone DEF Types
    <3>2. steps \in Seq(Plans) /\ Prepared(steps) /\ \A k \in DOMAIN steps : steps[k].do \notin {"trunc", "data"}
      BY EmptyLists DEF Prepared
    <3> HIDE DEF steps
    <3> QED BY <1>0, <2>1, <3>1, <3>2, UniqueMove
  <2> QED BY <1>2, <2>2, <2>3 DEF Look
<1>3. CASE Fetch(p)
  <2>1. CASE Fail(p)
    BY <1>1, <2>1 DEF Fail
  <2> DEFINE c == remote[job[p].ref]
             u == Answered(p, c)
  <2>2. CASE c \in Contents /\ ContentFits(c, job[p].ref[1]) /\ Todo(p)' = u
    <3>1. job[p].op = "pull" /\ job[p].ref \in Refs
      BY <1>3, FetchDoes
    <3> HIDE DEF c
    <3>2. u \in Seq(Plans) /\ \A k \in DOMAIN u : u[k].do \in {"index", "blob", "replace", "validate"}
      BY <2>2, <3>1, AnsweredAre
    <3> HIDE DEF u
    <3>3. u = <<>> \/ u[1].do \notin {"trunc", "data"}
      <4> DEFINE P == Plans
      <4>1. u \in Seq(P)
        BY <3>2
      <4> HIDE DEF P
      <4>2. u = <<>> \/ 1 \in DOMAIN u
        BY <4>1
      <4> QED BY <3>2, <4>2
    <3>4. Coming(p)' = root.es
      BY <1>0, <2>2, <3>3, ComingNext
    <3>5. Careful(u, root.es)
      BY <3>2 DEF Careful, IsPlain
    <3> QED BY <1>0, <2>2, <3>4, <3>5 DEF UniqueAt
  <2> QED
    BY <1>3, <2>1, <2>2, FetchDoes
<1>4. CASE Validate(p)
  BY <1>1, <1>4, ValidIsBoolean DEF Validate
<1>5. CASE Finish(p)
  BY <1>1, <1>5 DEF Finish
<1> QED
  BY <1>2, <1>3, <1>4, <1>5

LEMMA UniquePushes ==
  ASSUME Types, NEW p \in Procs, UniqueAt(p), Push(p) \/ PushTag(p) \/ PushManifest(p) \/ Abort(p)
  PROVE  UniqueAt(p)'
<1>0. UNCHANGED root
  BY DEF Push, PushTag, PushManifest, Abort, disk
<1>1. CASE Todo(p)' = <<>>
  BY <1>0, <1>1, UniqueEnd
<1>2. ASSUME NEW ok \in BOOLEAN, Return(p, ok)
      PROVE  UniqueAt(p)'
  <2>1. Todo(p)' = <<>>
    BY <1>2, ReturnFits DEF Types
  <2> QED BY <1>0, <2>1, UniqueEnd
<1>3. CASE Push(p)
  <2> DEFINE c == FindRoot(job[p].ref)
             u == Sends(p) \o <<Do("manifest")>>
  <2>1. CASE c \in Contents /\ ContentFits(c, job[p].ref[1]) /\ Todo(p)' = u
    <3>0. At(p, "push")
      BY <1>3 DEF Push
    <3>1. /\ u \in Seq(Plans) /\ DOMAIN u = 1..(Len(Sends(p)) + 1) /\ Len(Sends(p)) \in Nat
          /\ u[Len(Sends(p)) + 1] = Do("manifest")
          /\ \A k \in 1..Len(Sends(p)) : u[k] = Sends(p)[k]
          /\ \A k \in 1..Len(Sends(p)) : Sends(p)[k].do = "tag"
      BY <2>1, <3>0, SendsAre
    <3> DEFINE l == Len(Sends(p))
    <3> HIDE DEF u, l
    <3>2. \A k \in DOMAIN u : u[k].do \in {"manifest", "tag"}
      <4>1. /\ DOMAIN u = 1..(l + 1) /\ l \in Nat /\ u[l + 1] = Do("manifest")
            /\ \A k \in 1..l : u[k].do = "tag"
        BY <3>1 DEF l
      <4>2. \A k \in 1..(l + 1) : k = l + 1 \/ k \in 1..l
        BY <4>1
      <4> QED BY <4>1, <4>2 DEF Do
    <3>3. u = <<>> \/ u[1].do \notin {"trunc", "data"}
      <4>1. 1 \in DOMAIN u
        BY <3>1
      <4> QED BY <3>2, <4>1
    <3>4. Coming(p)' = root.es
      BY <1>0, <2>1, <3>3, ComingNext
    <3>5. Careful(u, root.es)
      BY <3>2 DEF Careful, IsPlain
    <3> QED BY <1>0, <2>1, <3>4, <3>5 DEF UniqueAt
  <2> QED
    BY <1>2, <1>3, <2>1, PushDoes DEF Fail
<1>4. CASE PushTag(p)
  <2>0. Todo(p) # <<>> /\ Todo(p)[1].do = "tag" /\ Now(p).do = "tag" /\ Now(p) \in Plans
    BY <1>4, AtIs DEF PushTag, Types
  <2> DEFINE i == Now(p).i
             t == Tag(job[p].ref[1], PlatOf[i].arch)
             e == Entry(t, ImageOf(i))
             x == [Now(p) EXCEPT !.again = TRUE]
             steps == <<AppendTo(e), x>>
  <2>1. CASE Fail(p)
    BY <1>2, <2>1 DEF Fail
  <2>2. CASE steps \in Seq(Plans) /\ Todo(p)' = steps \o Tail(Todo(p))
    <3>1. t[2] # Plain
      BY <1>4, PushTagDoes
    <3>2. e.ref = t /\ AppendTo(e).do = "append" /\ AppendTo(e).e = e
      BY DEF Entry, AppendTo
    <3>3. x.do = "tag"
      <4>1. Now(p) \in [do : {"tag"}, i : Images, again : BOOLEAN]
        BY <2>0 DEF Plans
      <4> QED BY <4>1
    <3> HIDE DEF e, x, t
    <3>4. \A k \in DOMAIN steps : steps[k] \in {AppendTo(e), x}
      OBVIOUS
    <3> HIDE DEF steps
    <3>5. Prepared(steps) /\ \A k \in DOMAIN steps : steps[k].do \notin {"trunc", "data"}
      BY <3>1, <3>2, <3>3, <3>4 DEF Prepared, IsPlain
    <3> QED BY <1>0, <2>0, <2>2, <3>5, UniqueMove
  <2>3. CASE Todo(p)' = <<>> \o Tail(Todo(p))
    <3> DEFINE none == <<>>
    <3>1. none \in Seq(Plans) /\ Prepared(none) /\ \A k \in DOMAIN none : none[k].do \notin {"trunc", "data"}
      BY EmptyLists DEF Prepared
    <3>2. Todo(p)' = none \o Tail(Todo(p))
      BY <2>3
    <3> HIDE DEF none
    <3> QED BY <1>0, <2>0, <3>1, <3>2, UniqueMove
  <2> QED
    BY <1>4, <2>1, <2>2, <2>3, PushTagDoes
<1>5. CASE PushManifest(p)
  BY <1>1, <1>5, PushManifestDoes
<1>6. CASE Abort(p)
  BY <1>1, <1>6, Types_Abort
<1> QED
  BY <1>3, <1>4, <1>5, <1>6

LEMMA UniqueInit == Init => UniqueInv
<1> SUFFICES ASSUME Init PROVE UniqueInv
  OBVIOUS
<1>1. root.es = <<>> /\ \A p \in Procs : Todo(p) = <<>>
  BY DEF Init, NoRoot, Todo, Idle
<1>2. \A p \in Procs : Coming(p) = <<>>
  BY <1>1, ComingIs
<1>3. Unique(<<>>)
  BY DEF Unique, Named
<1> QED
  BY <1>1, <1>2, <1>3 DEF UniqueInv

LEMMA UniqueStep ==
  ASSUME OneProcess, Types, UniqueInv, [Next]_vars
  PROVE  UniqueInv'
<1>1. CASE Publish \/ UNCHANGED vars
  <2>1. UNCHANGED <<root, job>>
    BY <1>1 DEF Publish, vars, disk
  <2> QED
    BY <2>1 DEF UniqueInv, Coming, Writing, Todo, Replaces
<1>2. ASSUME NEW p \in Procs, Step(p)
      PROVE  UniqueInv'
  <2>1. UniqueAt(p)
    BY UniqueIs
  <2>2. UniqueAt(p)'
    <3>1. CASE BeginPull(p) \/ BeginLoad(p) \/ BeginIndexWrite(p) \/ BeginDescriptorWrite(p)
               \/ BeginPush(p) \/ BeginClean(p)
      BY <2>1, <3>1, UniqueBegins
    <3>2. CASE Clean(p)
      BY <2>1, <3>2, UniqueClean
    <3>3. CASE InitRoot(p) \/ EditRoot(p)
      BY <2>1, <3>3, UniqueEdits
    <3>4. CASE Truncate(p) \/ WriteData(p)
      BY <2>1, <3>4, UniqueWrites
    <3>5. CASE WriteBlob(p) \/ CopyBlob(p) \/ RemoveBlob(p)
      BY <2>1, <3>5, UniqueBlobs
    <3>6. CASE IndexWrite(p)
      BY <2>1, <3>6, UniqueIndex
    <3>7. CASE Look(p) \/ Fetch(p) \/ Validate(p) \/ Finish(p)
      BY <2>1, <3>7, UniquePulls
    <3>8. CASE Push(p) \/ PushTag(p) \/ PushManifest(p) \/ Abort(p)
      BY <2>1, <3>8, UniquePushes
    <3> QED
      BY <1>2, <3>1, <3>2, <3>3, <3>4, <3>5, <3>6, <3>7, <3>8 DEF Step
  <2>3. \A q \in Procs : q = p
    BY DEF OneProcess
  <2> QED
    BY <2>2, <2>3 DEF UniqueInv, UniqueAt, Careful, IsPlain, InPlace, Replaces
<1> QED
  BY <1>1, <1>2 DEF Next

\* index.json never has two entries for a plain name, wherever the commands fail, as long
\* as one oskit works on the cache at a time.
THEOREM NamesUnique ==
  ASSUME OneProcess
  PROVE  Spec => []NameUnique
<1>1. Init => Types /\ UniqueInv
  BY TypesInit, UniqueInit
<1>2. Types /\ UniqueInv /\ [Next]_vars => (Types /\ UniqueInv)'
  BY TypesStep, UniqueStep
<1>3. UniqueInv => NameUnique
  BY DEF UniqueInv, Unique, NameUnique
<1> QED
  BY <1>1, <1>2, <1>3, PTL DEF Spec

(***************************************************************************)
(* NameStore                                                               *)
(***************************************************************************)

\* The first entry for a reference.
FirstAt(es, r, k) == k \in DOMAIN es /\ es[k].ref = r /\ \A h \in 1..(k - 1) : es[h].ref # r

LEMMA FirstExists ==
  ASSUME NEW es \in Seq(Listing), NEW r, NEW j \in DOMAIN es, es[j].ref = r
  PROVE  \E k : FirstAt(es, r, k)
<1> DEFINE at == Named(es, r)
<1>1. at \in SUBSET Nat /\ at # {} /\ DOMAIN es = 1..Len(es) /\ Len(es) \in Nat
  BY DEF Named
<1>2. PICK k \in at : \A h \in at : k <= h
  BY <1>1, LeastOf
<1>3. k \in 1..Len(es) /\ es[k].ref = r
  BY <1>1, <1>2 DEF Named
<1>4. \A h \in 1..(k - 1) : h \in DOMAIN es /\ ~(k <= h)
  BY <1>1, <1>3
<1>5. \A h \in 1..(k - 1) : h \notin at
  BY <1>2, <1>4
<1> QED
  BY <1>1, <1>3, <1>4, <1>5 DEF FirstAt, Named

LEMMA FirstOfIs ==
  ASSUME NEW es \in Seq(Listing), NEW r
  PROVE  /\ \A k : FirstAt(es, r, k) => FirstOf(es, r) = [kind |-> es[k].kind, dig |-> es[k].dig]
         /\ (\A j \in DOMAIN es : es[j].ref # r) => FirstOf(es, r) = Nothing
         /\ (\A j \in DOMAIN es : es[j].ref # r) \/ \E k : FirstAt(es, r, k)
<1>1. ASSUME NEW k, FirstAt(es, r, k)
      PROVE  FirstOf(es, r) = [kind |-> es[k].kind, dig |-> es[k].dig]
  <2>1. k \in DOMAIN es /\ es[k].ref = r /\ DOMAIN es = 1..Len(es) /\ Len(es) \in Nat
    BY <1>1 DEF FirstAt
  <2>2. ASSUME NEW j \in DOMAIN es, es[j].ref = r, \A h \in 1..(j - 1) : es[h].ref # r
        PROVE  j = k
    <3>1. k \notin 1..(j - 1) /\ j \notin 1..(k - 1)
      BY <1>1, <2>1, <2>2 DEF FirstAt
    <3> QED BY <2>1, <2>2, <3>1
  <2>3. k = CHOOSE j \in DOMAIN es : es[j].ref = r /\ \A h \in 1..(j - 1) : es[h].ref # r
    BY <1>1, <2>2 DEF FirstAt
  <2> QED
    BY <2>1, <2>3 DEF FirstOf
<1>2. (\A j \in DOMAIN es : es[j].ref # r) => FirstOf(es, r) = Nothing
  BY DEF FirstOf
<1>3. (\A j \in DOMAIN es : es[j].ref # r) \/ \E k : FirstAt(es, r, k)
  BY FirstExists
<1> QED
  BY <1>1, <1>2, <1>3

LEMMA FirstNone ==
  ASSUME NEW es, NEW r, \A j \in DOMAIN es : es[j].ref # r
  PROVE  FirstOf(es, r) = Nothing
BY DEF FirstOf

\* A reference keeps its first entry when the entries of another are left out, and when
\* an entry of another is added.
LEMMA FirstWithout ==
  ASSUME RootFits, NEW r, NEW s, s # r
  PROVE  FirstOf(WithoutRef(r), s) = FirstOf(root.es, s)
<1> DEFINE L == Listing
           es == root.es
           T == {e \in ToSet(root.es) : e.ref # r}
           m == Matching(es, T)
<1>1. es \in Seq(L) /\ m = WithoutRef(r) /\ m \in Seq(L)
  BY RootEntries, WithoutRefIs, ZenonT(60) DEF WithoutRef
<1>2. \A k \in DOMAIN es : es[k] \in T <=> es[k].ref # r
  <2>1. \A k \in DOMAIN es : es[k] \in ToSet(es)
    BY DEF ToSet
  <2> QED BY <2>1
<1>3. PICK h : Picks(m, es, T, Len(es), h)
  <2> HIDE DEF L, es, T
  <2> QED BY <1>1, MatchingIs
<1>4. DOMAIN m = 1..Len(m) /\ DOMAIN es = 1..Len(es) /\ Len(m) \in Nat /\ Len(es) \in Nat
  <2> HIDE DEF L, es, m
  <2> QED BY <1>1
<1> HIDE DEF m, es, T
<1>5. /\ h \in [DOMAIN m -> DOMAIN es]
      /\ \A i, j \in DOMAIN m : i < j => h[i] < h[j]
      /\ \A i \in DOMAIN m : m[i] = es[h[i]] /\ es[h[i]].ref # r
      /\ \A k \in DOMAIN es : es[k].ref # r => \E i \in DOMAIN m : h[i] = k
  BY <1>2, <1>3, <1>4 DEF Picks
<1>6. ASSUME NEW k, FirstAt(es, s, k)
      PROVE  FirstOf(m, s) = FirstOf(es, s)
  <2>1. k \in DOMAIN es /\ es[k].ref = s
    BY <1>6 DEF FirstAt
  <2>2. PICK i \in DOMAIN m : h[i] = k
    BY <1>5, <2>1
  <2>3. m[i] = es[k]
    BY <1>5, <2>2
  <2>4. ASSUME NEW g \in 1..(i - 1)
        PROVE  m[g].ref # s
    <3>1. g \in DOMAIN m /\ g < i
      BY <1>4, <2>2
    <3>2. h[g] \in DOMAIN es /\ h[g] < k
      BY <1>5, <2>2, <3>1
    <3>3. h[g] \in 1..(k - 1)
      BY <1>4, <2>1, <3>2
    <3>4. es[h[g]].ref # s
      BY <1>6, <3>3 DEF FirstAt
    <3> QED BY <1>5, <3>1, <3>4
  <2>5. FirstAt(m, s, i)
    BY <2>1, <2>2, <2>3, <2>4 DEF FirstAt
  <2>6. FirstOf(m, s) = [kind |-> m[i].kind, dig |-> m[i].dig]
    BY <1>1, <2>5, FirstOfIs
  <2>7. FirstOf(es, s) = [kind |-> es[k].kind, dig |-> es[k].dig]
    BY <1>1, <1>6, FirstOfIs
  <2> QED BY <2>3, <2>6, <2>7
<1>7. ASSUME \A j \in DOMAIN es : es[j].ref # s
      PROVE  FirstOf(m, s) = FirstOf(es, s)
  <2>1. \A i \in DOMAIN m : m[i].ref # s
    BY <1>5, <1>7
  <2>2. FirstOf(m, s) = Nothing
    BY <2>1, FirstNone
  <2>3. FirstOf(es, s) = Nothing
    BY <1>7, FirstNone
  <2> QED BY <2>2, <2>3
<1>8. FirstOf(m, s) = FirstOf(es, s)
  <2>1. (\A j \in DOMAIN es : es[j].ref # s) \/ \E k : FirstAt(es, s, k)
    BY <1>1, FirstOfIs
  <2> QED BY <1>6, <1>7, <2>1
<1> QED BY <1>1, <1>8 DEF es

LEMMA FirstAppend ==
  ASSUME NEW es \in Seq(Listing), NEW e \in Listing, NEW s, e.ref # s
  PROVE  FirstOf(Append(es, e), s) = FirstOf(es, s)
<1> DEFINE L == Listing
           m == Append(es, e)
<1>1. /\ m \in Seq(Listing) /\ DOMAIN es = 1..Len(es) /\ DOMAIN m = 1..(Len(es) + 1) /\ Len(es) \in Nat
      /\ m[Len(es) + 1] = e /\ \A k \in 1..Len(es) : m[k] = es[k]
  <2>1. es \in Seq(L) /\ e \in L
    OBVIOUS
  <2> HIDE DEF L
  <2>2. /\ m \in Seq(L) /\ DOMAIN es = 1..Len(es) /\ DOMAIN m = 1..(Len(es) + 1) /\ Len(es) \in Nat
        /\ m[Len(es) + 1] = e /\ \A k \in 1..Len(es) : m[k] = es[k]
    BY <2>1
  <2> QED BY <2>2 DEF L
<1> HIDE DEF m
<1>2. \A k \in 1..(Len(es) + 1) : k = Len(es) + 1 \/ k \in 1..Len(es)
  BY <1>1
<1>3. ASSUME NEW k, FirstAt(es, s, k)
      PROVE  FirstOf(m, s) = FirstOf(es, s)
  <2>1. k \in 1..Len(es) /\ m[k] = es[k] /\ k \in DOMAIN m /\ es[k].ref = s
    BY <1>1, <1>3 DEF FirstAt
  <2>2. \A h \in 1..(k - 1) : h \in 1..Len(es)
    BY <1>1, <2>1
  <2>3. \A h \in 1..(k - 1) : m[h] = es[h] /\ es[h].ref # s
    BY <1>1, <1>3, <2>2 DEF FirstAt
  <2>4. FirstAt(m, s, k)
    BY <2>1, <2>3 DEF FirstAt
  <2>5. FirstOf(m, s) = [kind |-> m[k].kind, dig |-> m[k].dig]
    BY <1>1, <2>4, FirstOfIs
  <2>6. FirstOf(es, s) = [kind |-> es[k].kind, dig |-> es[k].dig]
    BY <1>3, FirstOfIs
  <2> QED BY <2>1, <2>5, <2>6
<1>4. ASSUME \A j \in DOMAIN es : es[j].ref # s
      PROVE  FirstOf(m, s) = FirstOf(es, s)
  <2>1. \A i \in DOMAIN m : m[i].ref # s
    BY <1>1, <1>2, <1>4
  <2> QED BY <1>4, <2>1, FirstNone
<1>5. (\A j \in DOMAIN es : es[j].ref # s) \/ \E k : FirstAt(es, s, k)
  BY FirstOfIs
<1> QED
  BY <1>3, <1>4, <1>5 DEF m

\* The next step is not one of those that write index.json.
Calm(p) == Todo(p) = <<>> \/ Todo(p)[1].do \notin {"init", "trunc", "data"}

LEMMA CalmNext ==
  ASSUME NEW p, Todo(p)' = <<>> \/ Todo(p)'[1].do \notin {"init", "trunc", "data"}
  PROVE  Calm(p)'
BY DEF Calm

LEMMA CalmMove ==
  ASSUME JobsFit, NEW p \in Procs, Todo(p) # <<>>, Todo(p)[1].do # "trunc",
         NEW steps \in Seq(Plans), \A k \in DOMAIN steps : steps[k].do \notin {"init", "trunc", "data"},
         Todo(p)' = steps \o Tail(Todo(p))
  PROVE  Calm(p)'
<1> DEFINE W == {"init", "trunc", "data"}
           u == Todo(p)'
<1>1. W \subseteq {"init", "copy", "trunc", "data"} /\ \A k \in DOMAIN steps : steps[k].do \notin W
  OBVIOUS
<1>2. u = steps \o Tail(Todo(p))
  OBVIOUS
<1> HIDE DEF W, u
<1>3. u = <<>> \/ u[1].do \notin W
  BY <1>1, <1>2, NextNot
<1> QED
  BY <1>3, CalmNext DEF W, u

LEMMA CalmAll ==
  ASSUME NEW p, NEW u \in Seq(Plans), \A k \in DOMAIN u : u[k].do \notin {"init", "trunc", "data"}, Todo(p)' = u
  PROVE  Calm(p)'
<1> DEFINE P == Plans
<1>1. u \in Seq(P)
  OBVIOUS
<1> HIDE DEF P
<1>2. u = <<>> \/ 1 \in DOMAIN u
  BY <1>1
<1> QED BY <1>2, CalmNext

LEMMA CalmReturn ==
  ASSUME Types, NEW p \in Procs, NEW ok \in BOOLEAN, Return(p, ok)
  PROVE  Calm(p)'
<1>1. Todo(p)' = <<>>
  BY ReturnFits DEF Types
<1> QED BY <1>1, CalmNext

\* Most steps lead to such a step.
LEMMA CalmBlobs ==
  ASSUME Types, NEW p \in Procs, WriteData(p) \/ WriteBlob(p) \/ CopyBlob(p) \/ RemoveBlob(p)
  PROVE  Calm(p)'
<1>1. Todo(p) # <<>> /\ Todo(p)[1].do \in {"data", "blob", "copy", "rm"}
  BY AtIs DEF WriteData, WriteBlob, CopyBlob, RemoveBlob, Types
<1>2. CASE Todo(p)' = <<>> \o Tail(Todo(p))
  <2> DEFINE steps == <<>>
  <2>1. steps \in Seq(Plans) /\ (\A k \in DOMAIN steps : steps[k].do \notin {"init", "trunc", "data"})
        /\ Todo(p)' = steps \o Tail(Todo(p))
    BY <1>2, EmptyLists
  <2> HIDE DEF steps
  <2> QED BY <1>1, <2>1, CalmMove DEF Types
<1>3. CASE WriteBlob(p)
  <2> DEFINE x == [do |-> "copy", d |-> Now(p).d]
             steps == IF Present(Now(p).d) THEN <<>> ELSE <<x>>
  <2>1. steps \in Seq(Plans) /\ Todo(p)' = steps \o Tail(Todo(p))
    BY <1>3, Types_WriteBlob
  <2>2. x.do = "copy"
    OBVIOUS
  <2> HIDE DEF x
  <2>3. \A k \in DOMAIN steps : steps[k] = x
    OBVIOUS
  <2> HIDE DEF steps
  <2>4. \A k \in DOMAIN steps : steps[k].do \notin {"init", "trunc", "data"}
    BY <2>2, <2>3
  <2> QED BY <1>1, <2>1, <2>4, CalmMove DEF Types
<1> QED
  BY <1>2, <1>3, Types_WriteData, Types_CopyBlob, Types_RemoveBlob

LEMMA CalmIndex ==
  ASSUME Types, NEW p \in Procs, IndexWrite(p)
  PROVE  Calm(p)'
<1>0. At(p, "index")
  BY DEF IndexWrite
<1>1. CASE Fail(p)
  BY <1>1, CalmReturn DEF Fail
<1>2. ASSUME NEW s, NEW steps, Puts(p, job[p].ref, s, steps), Then(p, steps)
      PROVE  Calm(p)'
  <2>1. /\ steps \in Seq(Plans) /\ Fresh(steps, job[p])
        /\ \E h \in {0, 1} :
              /\ Len(steps) = 3 + h /\ DOMAIN steps = 1..(3 + h)
              /\ h = 0 <=> OfKind(root.es, job[p].ref, "index") = {}
              /\ h = 1 => LET old == root.es[First(OfKind(root.es, job[p].ref, "index"))].dig IN
                          steps[1] = [do |-> "rm", d |-> Index(old)] /\ Index(old) \in full
              /\ steps[h + 1] = Blob(Index(s)) /\ steps[h + 2] = Unlist(job[p].ref)
              /\ steps[h + 3] = AppendTo(Entry(job[p].ref, IndexOf(s)))
    BY <1>0, <1>2, PutsAre
  <2>2. PICK h \in {0, 1} :
          /\ DOMAIN steps = 1..(3 + h)
          /\ h = 1 => steps[1].do = "rm"
          /\ steps[h + 1].do = "blob" /\ steps[h + 2].do = "remove" /\ steps[h + 3].do = "append"
    BY <2>1 DEF Blob, Unlist, AppendTo
  <2>3. \A k \in DOMAIN steps : (h = 1 /\ k = 1) \/ k = h + 1 \/ k = h + 2 \/ k = h + 3
    BY <2>2
  <2>4. \A k \in DOMAIN steps : steps[k].do \in {"rm", "blob", "remove", "append"}
    BY <2>2, <2>3
  <2>5. Todo(p) # <<>> /\ Todo(p)[1].do = "index"
    BY <1>0, AtIs DEF Types
  <2>6. Todo(p)' = steps \o Tail(Todo(p))
    BY <1>2, <2>1, <2>5, ThenFits DEF Types
  <2> QED BY <2>1, <2>4, <2>5, <2>6, CalmMove DEF Types
<1> QED
  BY <1>1, <1>2, IndexWriteDoes

LEMMA CalmPulls ==
  ASSUME Types, NEW p \in Procs, Look(p) \/ Fetch(p) \/ Validate(p) \/ Finish(p)
  PROVE  Calm(p)'
<1>1. CASE Look(p)
  <2>1. Todo(p) # <<>> /\ Todo(p)[1].do = "look"
    BY <1>1, AtIs DEF Look, Types
  <2>2. CASE Return(p, TRUE)
    BY <2>2, CalmReturn
  <2>3. CASE Then(p, <<>>)
    <3> DEFINE steps == <<>>
    <3>1. Todo(p)' = steps \o Tail(Todo(p))
      BY <2>1, <2>3, StepDone DEF Types
    <3>2. steps \in Seq(Plans) /\ \A k \in DOMAIN steps : steps[k].do \notin {"init", "trunc", "data"}
      BY EmptyLists
    <3> HIDE DEF steps
    <3> QED BY <2>1, <3>1, <3>2, CalmMove DEF Types
  <2> QED BY <1>1, <2>2, <2>3 DEF Look
<1>2. CASE Fetch(p)
  <2> DEFINE c == remote[job[p].ref]
             u == Answered(p, c)
  <2>1. CASE Fail(p)
    BY <2>1, CalmReturn DEF Fail
  <2>2. CASE c \in Contents /\ ContentFits(c, job[p].ref[1]) /\ Todo(p)' = u
    <3>1. job[p].op = "pull" /\ job[p].ref \in Refs
      BY <1>2, FetchDoes
    <3> HIDE DEF c
    <3>2. u \in Seq(Plans) /\ \A k \in DOMAIN u : u[k].do \in {"index", "blob", "replace", "validate"}
      BY <2>2, <3>1, AnsweredAre
    <3> HIDE DEF u
    <3> QED BY <2>2, <3>2, CalmAll
  <2> QED
    BY <1>2, <2>1, <2>2, FetchDoes
<1>3. CASE Validate(p)
  BY <1>3, ValidIsBoolean, CalmReturn DEF Validate
<1>4. CASE Finish(p)
  BY <1>4, CalmReturn DEF Finish
<1> QED
  BY <1>1, <1>2, <1>3, <1>4

LEMMA CalmPushes ==
  ASSUME Types, NEW p \in Procs, Push(p) \/ PushTag(p) \/ PushManifest(p) \/ Abort(p) \/ Clean(p)
  PROVE  Calm(p)'
<1>1. CASE Todo(p)' = <<>>
  BY <1>1, CalmNext
<1>2. CASE Fail(p) \/ Return(p, TRUE)
  BY <1>2, CalmReturn DEF Fail
<1>3. CASE Push(p)
  <2> DEFINE c == FindRoot(job[p].ref)
             u == Sends(p) \o <<Do("manifest")>>
  <2>1. CASE c \in Contents /\ ContentFits(c, job[p].ref[1]) /\ Todo(p)' = u
    <3>0. At(p, "push")
      BY <1>3 DEF Push
    <3> DEFINE l == Len(Sends(p))
    <3>1. /\ u \in Seq(Plans) /\ DOMAIN u = 1..(l + 1) /\ l \in Nat
          /\ u[l + 1] = Do("manifest")
          /\ \A k \in 1..l : u[k] = Sends(p)[k]
          /\ \A k \in 1..l : Sends(p)[k].do = "tag"
      BY <2>1, <3>0, SendsAre
    <3> HIDE DEF u, l
    <3>2. \A k \in DOMAIN u : u[k].do \in {"manifest", "tag"}
      <4>1. \A k \in 1..(l + 1) : k = l + 1 \/ k \in 1..l
        BY <3>1
      <4> QED BY <3>1, <4>1 DEF Do
    <3> QED BY <2>1, <3>1, <3>2, CalmAll
  <2> QED
    BY <1>2, <1>3, <2>1, PushDoes
<1>4. CASE PushTag(p)
  <2>0. Todo(p) # <<>> /\ Todo(p)[1].do = "tag" /\ Now(p).do = "tag" /\ Now(p) \in Plans
    BY <1>4, AtIs DEF PushTag, Types
  <2> DEFINE i == Now(p).i
             t == Tag(job[p].ref[1], PlatOf[i].arch)
             x == [Now(p) EXCEPT !.again = TRUE]
             a == AppendTo(Entry(t, ImageOf(i)))
             steps == <<a, x>>
  <2>1. CASE steps \in Seq(Plans) /\ Todo(p)' = steps \o Tail(Todo(p))
    <3>1. a.do = "append"
      BY DEF AppendTo
    <3>2. x.do = "tag"
      <4>1. Now(p) \in [do : {"tag"}, i : Images, again : BOOLEAN]
        BY <2>0 DEF Plans
      <4> QED BY <4>1
    <3> HIDE DEF a, x
    <3>3. \A k \in DOMAIN steps : steps[k] \in {a, x}
      OBVIOUS
    <3> HIDE DEF steps
    <3>4. \A k \in DOMAIN steps : steps[k].do \notin {"init", "trunc", "data"}
      BY <3>1, <3>2, <3>3
    <3> QED BY <2>0, <2>1, <3>4, CalmMove DEF Types
  <2>2. CASE Todo(p)' = <<>> \o Tail(Todo(p))
    <3> DEFINE none == <<>>
    <3>1. none \in Seq(Plans) /\ (\A k \in DOMAIN none : none[k].do \notin {"init", "trunc", "data"})
          /\ Todo(p)' = none \o Tail(Todo(p))
      BY <2>2, EmptyLists
    <3> HIDE DEF none
    <3> QED BY <2>0, <3>1, CalmMove DEF Types
  <2> QED
    BY <1>2, <1>4, <2>1, <2>2, PushTagDoes
<1>5. CASE Clean(p)
  <2>1. Todo(p) # <<>> /\ Todo(p)[1].do = "clean"
    BY <1>5, AtIs DEF Clean, Types
  <2>2. CASE UNCHANGED job
    <3>1. Todo(p)' = Todo(p)
      BY <2>2 DEF Todo
    <3> QED BY <2>1, <3>1, CalmNext
  <2> QED
    BY <1>2, <1>5, <2>2 DEF Clean
<1> QED
  BY <1>1, <1>3, <1>4, <1>5, PushManifestDoes, Types_Abort

LEMMA AtHead ==
  ASSUME JobsFit, NEW p \in Procs
  PROVE  \A what : At(p, what) <=> Todo(p) # <<>> /\ Todo(p)[1].do = what
<1> DEFINE P == Plans
           t == Todo(p)
<1>1. t \in Seq(P)
  BY DEF JobsFit, Todo, Jobs
<1> HIDE DEF P, t
<1>2. t # <<>> => Head(t) = t[1]
  BY <1>1
<1> QED BY <1>2 DEF At, t

LEMMA AtHeadNext ==
  ASSUME JobsFit', NEW p \in Procs
  PROVE  \A what : At(p, what)' <=> Todo(p)' # <<>> /\ Todo(p)'[1].do = what
<1> DEFINE P == Plans
           t == Todo(p)'
<1>1. t \in Seq(P)
  BY DEF JobsFit, Todo, Jobs
<1> HIDE DEF P, t
<1>2. t # <<>> => Head(t) = t[1]
  BY <1>1
<1> QED BY <1>2 DEF At, t

\* While index.json is made anew, or truncated, it has no entries; and what is about to be
\* written in its place differs from it in the command's own name.
StoreAt(p) ==
  /\ At(p, "init") \/ At(p, "data") => root.es = <<>>
  /\ KeepsOthers(p)
StoreInv == \A p \in Procs : StoreAt(p)

LEMMA StoreCalm ==
  ASSUME JobsFit', NEW p \in Procs, Calm(p)'
  PROVE  StoreAt(p)'
<1>1. ~At(p, "init")' /\ ~At(p, "data")' /\ ~At(p, "trunc")'
  BY AtHeadNext DEF Calm
<1> QED BY <1>1 DEF StoreAt, KeepsOthers

LEMMA StoreBegins ==
  ASSUME Types, Types', NEW p \in Procs,
         BeginPull(p) \/ BeginLoad(p) \/ BeginIndexWrite(p) \/ BeginDescriptorWrite(p) \/ BeginPush(p)
         \/ BeginClean(p)
  PROVE  StoreAt(p)' /\ ~At(p, "data") /\ ~At(p, "data")' /\ UNCHANGED <<root, full, faults>>
<1>1. CASE BeginClean(p)
  <2>1. Todo(p) = <<>> /\ Todo(p)' = <<Do("clean")>> /\ UNCHANGED <<disk, remote, faults>>
    BY <1>1, CleanBegins
  <2>2. Calm(p)'
    BY <2>1 DEF Calm, Do
  <2>3. StoreAt(p)'
    BY <2>2, StoreCalm DEF Types
  <2>4. ~At(p, "data") /\ ~At(p, "data")'
    BY <2>1, <2>2, AtHeadNext DEF At, Calm, Types
  <2> QED BY <2>1, <2>3, <2>4 DEF disk
<1>2. CASE ~BeginClean(p)
  <2>1. Todo(p) = <<>> /\ UNCHANGED <<disk, remote, faults>>
    BY <1>2, BeginsPrepared
  <2>2. PICK steps \in Seq(Plans) : /\ Prepared(steps) /\ Todo(p)' = FirstSteps(steps)
                                    /\ \A k \in DOMAIN steps : steps[k].do \notin {"init", "trunc", "data"}
    BY <1>2, BeginsPrepared
  <2>3. UNCHANGED root /\ UNCHANGED full /\ UNCHANGED faults
    BY <2>1 DEF disk
  <2> DEFINE u == FirstSteps(steps)
  <2>4. u = <<>> \/ 1 \in DOMAIN u
    <3>1. u \in Seq(Plans)
      BY FirstStepsAre
    <3> DEFINE P == Plans
    <3>2. u \in Seq(P)
      BY <3>1
    <3> HIDE DEF P, u
    <3> QED BY <3>2
  <2>5. u = <<>> \/ u[1].do = "init" \/ \E j \in DOMAIN steps : u[1] = steps[j]
    BY <2>2, <2>4, PreparedFirst
  <2>6. u = <<>> \/ u[1].do \notin {"trunc", "data"}
    BY <2>2, <2>5
  <2>7. CASE root # NoRoot
    <3>1. u = steps
      BY <2>7, FirstStepsAre
    <3>2. Calm(p)'
      BY <2>2, <3>1, CalmAll
    <3>3. StoreAt(p)'
      BY <3>2, StoreCalm DEF Types
    <3> QED BY <2>1, <2>2, <2>3, <2>6, <3>3, AtHeadNext DEF At, Types
  <2>8. CASE root = NoRoot
    <3>1. root'.es = <<>>
      BY <2>3, <2>8 DEF NoRoot
    <3> HIDE DEF u
    <3>2. Todo(p)' = u
      BY <2>2 DEF u
    <3>3. ~At(p, "data")' /\ ~At(p, "trunc")'
      BY <2>6, <3>2, AtHeadNext DEF Types
    <3> QED BY <2>1, <2>3, <3>1, <3>3 DEF StoreAt, KeepsOthers, At
  <2> QED BY <2>7, <2>8
<1> QED BY <1>1, <1>2

LEMMA StoreEdits ==
  ASSUME Types, Types', NEW p \in Procs, StoreAt(p), InitRoot(p) \/ EditRoot(p)
  PROVE  StoreAt(p)' /\ ~At(p, "data") /\ ~At(p, "data")' /\ UNCHANGED <<root, full, faults>>
<1>0. UNCHANGED root /\ UNCHANGED full /\ UNCHANGED faults
  BY DEF InitRoot, EditRoot, disk
<1>1. PICK what \in {"init", "remove", "append", "replace"} : At(p, what)
  BY DEF InitRoot, EditRoot
<1>2. /\ Todo(p) # <<>> /\ Todo(p)[1].do = what /\ Now(p) = Todo(p)[1] /\ Now(p) \in Plans
      /\ Now(p).do = what /\ StepFits(Now(p), job[p].ref[1])
  BY <1>1, AtIs DEF Types
<1>3. ~At(p, "data")
  BY <1>2, AtHead DEF Types
<1>4. CASE Todo(p)' = <<>>
  <2>1. StoreAt(p)'
    BY <1>4, CalmNext, StoreCalm DEF Types
  <2> QED BY <1>0, <1>3, <1>4, <2>1 DEF At
<1>5. ASSUME NEW new, Todo(p)' = <<Do("trunc"), Do("data")>> \o Tail(Todo(p)),
             job'[p] = [job[p] EXCEPT !.todo = <<Do("trunc"), Do("data")>> \o Tail(job[p].todo), !.buf = new],
             \A r \in Refs : r[1] # job[p].ref[1] => FirstOf(new, r) = FirstOf(root.es, r)
      PROVE  StoreAt(p)' /\ ~At(p, "data")'
  <2>1. Todo(p)' # <<>> /\ Todo(p)'[1] = Do("trunc")
    <3> DEFINE P == Plans
               t == Todo(p)
               a == Do("trunc")
               b == Do("data")
               two == <<a, b>>
    <3>1. t \in Seq(P) /\ a \in P /\ b \in P
      BY PlansAre DEF Types, JobsFit, Todo, Jobs
    <3>2. t # <<>>
      BY <1>2
    <3> HIDE DEF P, t, a, b
    <3>3. two \in Seq(P) /\ Len(two) = 2 /\ two[1] = a
      BY <3>1
    <3> HIDE DEF two
    <3>4. /\ two \o Tail(t) \in Seq(P) /\ Len(two \o Tail(t)) = Len(two) + Len(t) - 1
          /\ Len(t) \in Nat \ {0}
          /\ \A k \in 1..Len(two) : (two \o Tail(t))[k] = two[k]
      BY <3>1, <3>2, <3>3, InPlaceOfHead
    <3>5. (two \o Tail(t))[1] = a /\ Len(two \o Tail(t)) > 0
      BY <3>3, <3>4
    <3>6. Todo(p)' = two \o Tail(t)
      BY <1>5 DEF two, a, b, t
    <3> DEFINE u == two \o Tail(t)
    <3>7. u # <<>>
      BY <3>4, <3>5
    <3> QED BY <3>5, <3>6, <3>7 DEF a
  <2>2. ~At(p, "data")' /\ ~At(p, "init")'
    BY <2>1, AtHeadNext DEF Do, Types
  <2>3. job'[p].buf = new /\ job'[p].ref = job[p].ref
    <3>1. job[p] \in Jobs
      BY DEF Types, JobsFit
    <3>2. job[p] = [op |-> job[p].op, ref |-> job[p].ref, arch |-> job[p].arch, todo |-> job[p].todo,
                    buf |-> job[p].buf, got |-> job[p].got, ok |-> job[p].ok]
      BY <3>1 DEF Jobs
    <3> QED BY <1>5, <3>2
  <2> QED BY <1>0, <1>5, <2>2, <2>3 DEF StoreAt, KeepsOthers
<1>6. CASE InitRoot(p)
  <2>1. root.es = <<>>
    BY <1>6 DEF StoreAt, InitRoot
  <2>2. StoreAt(p)' /\ ~At(p, "data")'
    BY <1>5, <1>6, <2>1, Types_InitRoot
  <2> QED BY <1>0, <1>3, <2>2
<1>7. CASE EditRoot(p) /\ Todo(p)' # <<>>
  <2> DEFINE new == Edited(p)
  <2>1. /\ Todo(p)' = <<Do("trunc"), Do("data")>> \o Tail(Todo(p))
        /\ job'[p] = [job[p] EXCEPT !.todo = <<Do("trunc"), Do("data")>> \o Tail(job[p].todo), !.buf = new]
    BY <1>7, Types_EditRoot
  <2>2. ASSUME NEW r \in Refs, r[1] # job[p].ref[1]
        PROVE  FirstOf(new, r) = FirstOf(root.es, r)
    <3>0. RootFits /\ root.es \in Seq(Listing)
      BY RootEntries DEF Types
    <3>1. CASE At(p, "remove")
      <4>1. Now(p).ref # r
        BY <1>2, <2>2, <3>1, AtIs DEF StepFits, Types
      <4>2. ~At(p, "append") /\ ~At(p, "replace")
        BY <3>1, AtHead DEF Types
      <4>3. new = WithoutRef(Now(p).ref)
        BY <3>1, <4>2 DEF Edited
      <4> QED BY <3>0, <4>1, <4>3, FirstWithout
    <3>2. CASE At(p, "append") \/ At(p, "replace")
      <4>0. Now(p).do \in {"append", "replace"}
        BY <3>2, AtIs DEF Types
      <4>1. Now(p).e.ref # r /\ Now(p).e \in Listing
        BY <1>2, <2>2, <4>0, PlanParts DEF StepFits
      <4>2. CASE At(p, "append")
        <5>1. ~At(p, "remove") /\ ~At(p, "replace")
          BY <4>2, AtHead DEF Types
        <5>2. new = Append(root.es, Now(p).e)
          BY <4>2, <5>1 DEF Edited
        <5> QED BY <3>0, <4>1, <5>2, FirstAppend
      <4>3. CASE At(p, "replace")
        <5>1. ~At(p, "remove") /\ ~At(p, "append")
          BY <4>3, AtHead DEF Types
        <5>2. new = Append(WithoutRef(Now(p).e.ref), Now(p).e)
          BY <4>3, <5>1 DEF Edited
        <5>3. WithoutRef(Now(p).e.ref) \in Seq(Listing)
          BY <3>0, WithoutRefIs
        <5>4. FirstOf(new, r) = FirstOf(WithoutRef(Now(p).e.ref), r)
          BY <4>1, <5>2, <5>3, FirstAppend
        <5>5. FirstOf(WithoutRef(Now(p).e.ref), r) = FirstOf(root.es, r)
          BY <3>0, <4>1, FirstWithout
        <5> QED BY <5>4, <5>5
      <4> QED BY <3>2, <4>2, <4>3
    <3> QED BY <1>7, <3>1, <3>2 DEF EditRoot
  <2> HIDE DEF new
  <2>3. StoreAt(p)' /\ ~At(p, "data")'
    BY <1>5, <2>1, <2>2
  <2> QED BY <1>0, <1>3, <2>3
<1> QED
  BY <1>4, <1>6, <1>7

\* How the steps look to NameStore.
LEMMA TurnStep ==
  ASSUME \A r \in Refs : Target(r)' = Target(r), UNCHANGED faults
  PROVE  Store!Next
BY DEF Store!Next, Store!Turn

LEMMA UpdateStep ==
  ASSUME NEW p \in Procs, Todo(p) # <<>>, job[p].ref # <<>>,
         \A r \in Refs : r[1] # job[p].ref[1] => Target(r)' = Target(r), UNCHANGED faults
  PROVE  Store!Next
<1> DEFINE n == job[p].ref[1]
           T == [r \in Refs |-> Target(r)]
           busy == {job[q].ref[1] : q \in {q \in Procs : Todo(q) # <<>> /\ job[q].ref # <<>>}}
<1>1. n \in busy
  OBVIOUS
<1>2. \A r \in Refs : r[1] # n => T'[r] = T[r]
  OBVIOUS
<1>3. \E m \in busy : Store!Update(m)
  BY <1>1, <1>2 DEF Store!Update
<1> QED BY <1>3 DEF Store!Next

LEMMA BreakStep ==
  ASSUME faults' # faults,
         (\A r \in Refs : Target(r)' = Target(r)) \/ (\A r \in Refs : Target(r)' = Nothing)
  PROVE  Store!Next
<1> DEFINE T == [r \in Refs |-> Target(r)]
<1>1. T' = T \/ T' = [r \in Refs |-> Nothing]
  OBVIOUS
<1> QED BY <1>1 DEF Store!Next, Store!Break

LEMMA DropStep ==
  ASSUME NEW p \in Procs, job[p].op = "clean",
         \A r \in Refs : Target(r)' \in {Target(r), Nothing}, UNCHANGED faults
  PROVE  Store!Next
<1> DEFINE T == [r \in Refs |-> Target(r)]
<1>1. \A r \in Refs : T'[r] \in {T[r], Nothing}
  OBVIOUS
<1>2. \E q \in Procs : job[q].op = "clean"
  OBVIOUS
<1> QED BY <1>1, <1>2 DEF Store!Next, Store!Drop

LEMMA EntriesAre ==
  ASSUME OneProcess, NEW p \in Procs
  PROVE  /\ At(p, "data") => Entries = job[p].buf
         /\ ~At(p, "data") => Entries = root.es
BY DEF Entries, OneProcess

LEMMA EntriesNext ==
  ASSUME OneProcess, NEW p \in Procs
  PROVE  /\ At(p, "data")' => Entries' = job'[p].buf
         /\ ~At(p, "data")' => Entries' = root'.es
BY DEF Entries, OneProcess

LEMMA TargetSame ==
  ASSUME UNCHANGED <<Entries, full>>
  PROVE  \A r : Target(r)' = Target(r)
BY DEF Target

LEMMA QuietTurn ==
  ASSUME OneProcess, NEW p \in Procs, ~At(p, "data"), ~At(p, "data")', UNCHANGED <<root, full, faults>>
  PROVE  Store!Next
BY EntriesAre, EntriesNext, TargetSame, TurnStep

\* Without entries nothing is there.
LEMMA NoTarget ==
  ASSUME Entries' = <<>>
  PROVE  \A r : Target(r)' = Nothing
<1>1. \A r : FirstOf(<<>>, r) = Nothing
  BY FirstNone
<1>2. Nothing.kind # "index"
  BY DEF Nothing
<1> QED BY <1>1, <1>2 DEF Target

\* What a reference of another name stands for is not made of this name's images.
LEMMA IndexApart ==
  ASSUME Types, NamesApart, NEW n \in Names, NEW d \in Blobs, d[1] = "index" => d[2] # <<>> /\ Fits(d[2], n),
         NEW r \in Refs, r[1] # n, FirstOf(root.es, r).kind = "index"
  PROVE  Index(FirstOf(root.es, r).dig) # d
<1>1. root.es \in Seq(Listing)
  BY RootEntries DEF Types
<1>2. PICK k : FirstAt(root.es, r, k)
  <2>1. ~\A j \in DOMAIN root.es : root.es[j].ref # r
    BY FirstNone DEF Nothing
  <2> QED BY <1>1, <2>1, FirstOfIs
<1> DEFINE e == root.es[k]
<1>3. e.kind = "index" /\ FirstOf(root.es, r).dig = e.dig /\ e.ref = r /\ k \in DOMAIN root.es
  <2>1. FirstOf(root.es, r) = [kind |-> e.kind, dig |-> e.dig]
    BY <1>1, <1>2, FirstOfIs
  <2> QED BY <1>2, <2>1 DEF FirstAt
<1>4. EntryFits(e)
  BY <1>3 DEF Types, RootFits
<1>5. e.dig # <<>> /\ ToSet(e.dig) \subseteq ImagesOf(r[1])
  BY <1>3, <1>4 DEF EntryFits, Fits
<1>6. SUFFICES ASSUME Index(e.dig) = d PROVE FALSE
  BY <1>3
<1>7. d[1] = "index" /\ d[2] = e.dig
  BY <1>6 DEF Index
<1>8. ToSet(e.dig) \subseteq ImagesOf(n)
  BY <1>7 DEF Fits
<1>9. ImagesOf(r[1]) \cap ImagesOf(n) = {}
  BY RefsAre DEF NamesApart
<1>10. ToSet(e.dig) # {}
  <2>1. e \in Listing
    <3> DEFINE L == Listing
    <3>1. root.es \in Seq(L) /\ k \in DOMAIN root.es
      BY <1>1, <1>3
    <3> HIDE DEF L
    <3>2. root.es[k] \in L
      BY <3>1
    <3> QED BY <3>2 DEF L
  <2>2. e.dig \in Seq(Images)
    BY <1>3, <2>1, ListingParts
  <2> DEFINE s == e.dig
  <2>3. s \in Seq(Images) /\ s # <<>>
    BY <1>5, <2>2
  <2> HIDE DEF s
  <2>4. 1 \in DOMAIN s
    BY <2>3
  <2> QED BY <2>4 DEF ToSet, s
<1> QED BY <1>5, <1>8, <1>9, <1>10

LEMMA StoreWrites ==
  ASSUME OneProcess, Types, Types', NEW p \in Procs, StoreAt(p), Truncate(p) \/ WriteData(p)
  PROVE  StoreAt(p)' /\ Store!Next
<1>1. CASE Truncate(p)
  <2>1. At(p, "trunc") /\ root' = Torn /\ UNCHANGED full /\ UNCHANGED faults
    BY <1>1 DEF Truncate
  <2>2. /\ Todo(p) # <<>> /\ Todo(p)[1].do = "trunc" /\ job[p] \in Jobs /\ JobFits(job[p])
        /\ Todo(p) = job[p].todo /\ Todo(p) \in Seq(Plans)
    BY <2>1, AtIs DEF Types
  <2>3. ~At(p, "data")
    BY <2>2, AtHead DEF Types
  <2>4. Todo(p)' # <<>> /\ Todo(p)'[1].do = "data"
    <3> DEFINE P == Plans
               t == Todo(p)
    <3>0. t \in Seq(P) /\ t # <<>>
      BY <2>2
    <3>1. Len(t) > 1 /\ t[2].do = "data"
      <4>1. 1 \in DOMAIN t
        <5> HIDE DEF P, t
        <5> QED BY <3>0
      <4> QED BY <2>2, <4>1 DEF JobFits, Ordered
    <3>2. Todo(p)' = <<>> \o Tail(t)
      BY <1>1, Types_Truncate
    <3> HIDE DEF P, t
    <3>3. Tail(t) \in Seq(P) /\ Len(Tail(t)) = Len(t) - 1 /\ Tail(t)[1] = t[2] /\ <<>> \o Tail(t) = Tail(t)
      BY <3>0, <3>1
    <3>4. Tail(t) # <<>>
      <4> DEFINE u == Tail(t)
      <4>1. u \in Seq(P) /\ Len(u) > 0
        BY <3>0, <3>1, <3>3
      <4> HIDE DEF u
      <4>2. u # <<>>
        BY <4>1
      <4> QED BY <4>2 DEF u
    <3> QED BY <3>1, <3>2, <3>3, <3>4
  <2>5. At(p, "data")' /\ ~At(p, "trunc")'
    BY <2>4, AtHeadNext DEF Types
  <2>6. StoreAt(p)'
    BY <2>1, <2>5 DEF StoreAt, KeepsOthers, Torn
  <2>7. job'[p].buf = job[p].buf
    <3>1. job[p] = [op |-> job[p].op, ref |-> job[p].ref, arch |-> job[p].arch, todo |-> job[p].todo,
                    buf |-> job[p].buf, got |-> job[p].got, ok |-> job[p].ok]
      BY <2>2 DEF Jobs
    <3> QED BY <1>1, <3>1, Types_Truncate
  <2>8. Entries' = job[p].buf /\ Entries = root.es
    BY <2>3, <2>5, <2>7, EntriesAre, EntriesNext
  <2>9. job[p].ref # <<>> /\ job[p].ref \in Refs
    <3>1. job[p].ref \in Refs
      BY <2>1, RefAt DEF Types
    <3>2. <<>> \notin Refs
      <4>1. \A r \in Refs : r = <<r[1], r[2]>>
        BY RefsAre
      <4>2. \A a, b : <<a, b>> # <<>>
        OBVIOUS
      <4> QED BY <4>1, <4>2
    <3> QED BY <3>1, <3>2
  <2>10. ASSUME NEW r \in Refs, r[1] # job[p].ref[1]
         PROVE  Target(r)' = Target(r)
    <3>1. FirstOf(job[p].buf, r) = FirstOf(root.es, r)
      BY <2>1, <2>10 DEF StoreAt, KeepsOthers
    <3>2. FirstOf(Entries, r)' = FirstOf(Entries, r)
      BY <2>8, <3>1
    <3> QED BY <2>1, <3>2 DEF Target
  <2>11. Store!Next
    BY <2>1, <2>2, <2>9, <2>10, UpdateStep
  <2> QED BY <2>6, <2>11
<1>2. CASE WriteData(p)
  <2>1. At(p, "data") /\ root' = Good(job[p].buf) /\ UNCHANGED full /\ UNCHANGED faults
    BY <1>2 DEF WriteData
  <2>2. Calm(p)'
    BY <1>2, CalmBlobs
  <2>3. StoreAt(p)' /\ ~At(p, "data")'
    BY <2>2, StoreCalm, AtHeadNext DEF Calm, Types
  <2>4. Entries' = job[p].buf /\ Entries = job[p].buf
    BY <2>1, <2>3, EntriesAre, EntriesNext DEF Good
  <2> QED BY <2>1, <2>3, <2>4, TargetSame, TurnStep
<1> QED BY <1>1, <1>2

LEMMA NoRef == <<>> \notin Refs
<1>1. \A r \in Refs : r = <<r[1], r[2]>>
  BY RefsAre
<1>2. \A a, b : <<a, b>> # <<>>
  OBVIOUS
<1> QED BY <1>1, <1>2

LEMMA StoreBlobs ==
  ASSUME OneProcess, NamesApart, Types, Types', NEW p \in Procs, StoreAt(p),
         WriteBlob(p) \/ CopyBlob(p) \/ RemoveBlob(p)
  PROVE  StoreAt(p)' /\ Store!Next
<1>1. PICK what \in {"blob", "copy", "rm"} : At(p, what)
  BY DEF WriteBlob, CopyBlob, RemoveBlob
<1>2. /\ Todo(p) # <<>> /\ Todo(p)[1].do = what /\ Now(p) \in Plans
      /\ Now(p).do = what /\ StepFits(Now(p), job[p].ref[1])
  BY <1>1, AtIs DEF Types
<1>3. ~At(p, "data")
  BY <1>2, AtHead DEF Types
<1>4. StoreAt(p)' /\ ~At(p, "data")'
  <2>1. Calm(p)'
    BY CalmBlobs
  <2> QED BY <2>1, StoreCalm, AtHeadNext DEF Calm, Types
<1>5. CASE WriteBlob(p)
  <2>1. UNCHANGED <<root, full, faults>>
    BY <1>5 DEF WriteBlob, disk
  <2> QED BY <1>3, <1>4, <2>1, QuietTurn
<1>6. CASE CopyBlob(p) \/ RemoveBlob(p)
  <2> DEFINE d == Now(p).d
  <2>1. UNCHANGED <<root, faults>> /\ (full' = full \cup {d} \/ full' = full \ {d})
    BY <1>6 DEF CopyBlob, RemoveBlob
  <2>2. job[p].ref \in Refs /\ job[p].ref # <<>> /\ job[p].ref[1] \in Names
    BY <1>1, RefAt, NoRef DEF Types
  <2>3. d \in Blobs /\ (d[1] = "index" => d[2] # <<>> /\ Fits(d[2], job[p].ref[1]))
    BY <1>2, PlanParts DEF StepFits
  <2>4. Entries = root.es /\ Entries' = root.es
    BY <1>3, <1>4, <2>1, EntriesAre, EntriesNext
  <2>5. ASSUME NEW r \in Refs, r[1] # job[p].ref[1]
        PROVE  Target(r)' = Target(r)
    <3> DEFINE first == FirstOf(root.es, r)
    <3>1. first.kind = "index" => Index(first.dig) # d
      BY <2>2, <2>3, <2>5, IndexApart
    <3>2. first.kind = "index" => (Index(first.dig) \in full <=> Index(first.dig) \in full')
      BY <2>1, <3>1
    <3>3. FirstOf(Entries, r) = first /\ FirstOf(Entries, r)' = first
      BY <2>4
    <3> HIDE DEF first
    <3> QED BY <3>2, <3>3 DEF Target
  <2>6. UNCHANGED faults
    BY <2>1
  <2>7. Store!Next
    BY <1>2, <2>2, <2>5, <2>6, UpdateStep
  <2> QED BY <1>4, <2>7
<1> QED BY <1>5, <1>6

LEMMA StoreCleans ==
  ASSUME OneProcess, Types, Types', NEW p \in Procs, StoreAt(p), Clean(p)
  PROVE  StoreAt(p)' /\ Store!Next
<1>1. At(p, "clean") /\ UNCHANGED faults
  BY DEF Clean
<1>2. Todo(p) # <<>> /\ Todo(p)[1].do = "clean" /\ job[p].op = "clean"
  <2>1. Todo(p) # <<>> /\ Todo(p)[1].do = "clean" /\ "clean" \in DoneBy(job[p].op) /\ job[p].op \in Ops
    BY <1>1, AtIs DEF Types
  <2>2. ASSUME NEW op \in Ops, op # "clean" PROVE "clean" \notin DoneBy(op)
    BY <2>2 DEF Ops, DoneBy
  <2> QED BY <2>1, <2>2
<1>3. ~At(p, "data")
  BY <1>2, AtHead DEF Types
<1>4. StoreAt(p)' /\ ~At(p, "data")'
  <2>1. Calm(p)'
    BY CalmPushes
  <2> QED BY <2>1, StoreCalm, AtHeadNext DEF Calm, Types
<1>5. Entries = root.es /\ Entries' = root'.es
  BY <1>3, <1>4, EntriesAre, EntriesNext
<1>6. \A r \in Refs : Target(r)' \in {Target(r), Nothing}
  <2>1. CASE root' = NoRoot
    <3>1. Entries' = <<>>
      BY <1>5, <2>1 DEF NoRoot
    <3> QED BY <3>1, NoTarget
  <2>2. CASE UNCHANGED root /\ full' \subseteq full
    <3>1. Entries' = Entries
      BY <1>5, <2>2
    <3>2. \A r : FirstOf(Entries, r)' = FirstOf(Entries, r)
      BY <3>1
    <3> QED BY <2>2, <3>2 DEF Target
  <2> QED BY <2>1, <2>2 DEF Clean, disk
<1>7. Store!Next
  BY <1>1, <1>2, <1>6, DropStep
<1> QED BY <1>4, <1>7

LEMMA StoreAborts ==
  ASSUME OneProcess, Types, Types', NEW p \in Procs, StoreAt(p), Abort(p)
  PROVE  StoreAt(p)' /\ Store!Next
<1>1. faults' = faults + 1 /\ UNCHANGED <<root, full>> /\ Todo(p)' = <<>> /\ faults \in Nat
  <2>1. faults' = faults + 1 /\ UNCHANGED <<root, full>> /\ Todo(p)' = <<>>
    BY Types_Abort DEF disk
  <2>2. faults \in 0..MaxFaults /\ MaxFaults \in Nat
    BY InputAssumption DEF Types, CountsFit
  <2> QED BY <2>1, <2>2
<1>2. StoreAt(p)' /\ ~At(p, "data")'
  <2>1. Calm(p)'
    BY <1>1 DEF Calm
  <2> QED BY <2>1, StoreCalm, AtHeadNext DEF Calm, Types
<1>3. faults' # faults
  BY <1>1
<1>4. CASE At(p, "data")
  <2>1. Entries' = <<>>
    BY <1>1, <1>2, <1>4, EntriesNext DEF StoreAt
  <2> QED BY <1>2, <1>3, <2>1, NoTarget, BreakStep
<1>5. CASE ~At(p, "data")
  <2>1. UNCHANGED <<Entries, full>>
    BY <1>1, <1>2, <1>5, EntriesAre, EntriesNext
  <2> QED BY <1>2, <1>3, <2>1, TargetSame, BreakStep
<1> QED BY <1>4, <1>5

LEMMA StoreQuiet ==
  ASSUME OneProcess, Types, Types', NEW p \in Procs, StoreAt(p),
         \/ IndexWrite(p) \/ Look(p) \/ Fetch(p) \/ Validate(p) \/ Finish(p)
         \/ Push(p) \/ PushTag(p) \/ PushManifest(p)
  PROVE  StoreAt(p)' /\ Store!Next
<1>1. PICK what \in {"index", "look", "fetch", "validate", "return", "push", "tag", "manifest"} : At(p, what)
  BY Zenon DEF IndexWrite, Look, Fetch, Validate, Finish, Push, PushTag, PushManifest
<1>2. ~At(p, "data")
  BY <1>1, AtHead DEF Types
<1>3. Calm(p)'
  BY CalmIndex, CalmPulls, CalmPushes
<1>4. StoreAt(p)' /\ ~At(p, "data")'
  BY <1>3, StoreCalm, AtHeadNext DEF Calm, Types
<1>5. UNCHANGED <<root, full, faults>>
  BY Zenon DEF IndexWrite, Look, Fetch, Validate, Finish, Push, PushTag, PushManifest, disk
<1> QED BY <1>2, <1>4, <1>5, QuietTurn

LEMMA StoreInit == Init => StoreInv /\ Store!Init
<1> SUFFICES ASSUME Init PROVE StoreInv /\ Store!Init
  OBVIOUS
<1>1. root.es = <<>> /\ full = {} /\ faults = 0 /\ \A p \in Procs : job[p] = Idle /\ Todo(p) = <<>>
  BY DEF Init, NoRoot, Todo, Idle
<1>2. \A p \in Procs : \A what : ~At(p, what)
  BY <1>1 DEF At
<1>3. StoreInv
  BY <1>2 DEF StoreInv, StoreAt, KeepsOthers
<1>4. Entries = <<>>
  BY <1>1, <1>2 DEF Entries
<1>5. \A r \in Refs : Target(r) = Nothing
  <2>1. \A r : FirstOf(<<>>, r) = Nothing
    BY FirstNone
  <2>2. Nothing.kind # "index"
    BY DEF Nothing
  <2> QED BY <1>4, <2>1, <2>2 DEF Target
<1>6. ~(\E p \in Procs : job[p].op = "clean")
  BY <1>1 DEF Idle
<1> DEFINE busy == {job[q].ref[1] : q \in {q \in Procs : Todo(q) # <<>> /\ job[q].ref # <<>>}}
<1>7. busy = {}
  BY <1>1
<1>8. [r \in Refs |-> Target(r)] = [r \in Refs |-> Nothing]
  BY <1>5
<1> QED BY <1>1, <1>3, <1>6, <1>7, <1>8 DEF Store!Init

LEMMA StoreStep ==
  ASSUME OneProcess, NamesApart, Types, Types', StoreInv, [Next]_vars
  PROVE  StoreInv' /\ [Store!Next]_(Store!nvars)
<1>1. CASE Publish \/ UNCHANGED vars
  <2>1. UNCHANGED <<root, full, job, faults>>
    BY <1>1 DEF Publish, vars, disk
  <2>2. StoreInv'
    BY <2>1 DEF StoreInv, StoreAt, KeepsOthers, At, Todo
  <2>3. UNCHANGED <<Entries, full>>
    BY <2>1 DEF Entries, At, Todo
  <2>4. Store!Next
    BY <2>1, <2>3, TargetSame, TurnStep
  <2> QED BY <2>2, <2>4
<1>2. ASSUME NEW p \in Procs, Step(p)
      PROVE  StoreInv' /\ Store!Next
  <2>1. StoreAt(p)
    BY DEF StoreInv
  <2>2. StoreAt(p)' /\ Store!Next
    <3>1. CASE BeginPull(p) \/ BeginLoad(p) \/ BeginIndexWrite(p) \/ BeginDescriptorWrite(p)
               \/ BeginPush(p) \/ BeginClean(p)
      BY <3>1, StoreBegins, QuietTurn
    <3>2. CASE Clean(p)
      BY <2>1, <3>2, StoreCleans
    <3>3. CASE InitRoot(p) \/ EditRoot(p)
      BY <2>1, <3>3, StoreEdits, QuietTurn
    <3>4. CASE Truncate(p) \/ WriteData(p)
      BY <2>1, <3>4, StoreWrites
    <3>5. CASE WriteBlob(p) \/ CopyBlob(p) \/ RemoveBlob(p)
      BY <2>1, <3>5, StoreBlobs
    <3>6. CASE IndexWrite(p) \/ Look(p) \/ Fetch(p) \/ Validate(p) \/ Finish(p)
               \/ Push(p) \/ PushTag(p) \/ PushManifest(p)
      BY <2>1, <3>6, StoreQuiet
    <3>7. CASE Abort(p)
      BY <2>1, <3>7, StoreAborts
    <3> QED
      BY <1>2, <3>1, <3>2, <3>3, <3>4, <3>5, <3>6, <3>7 DEF Step
  <2>3. \A q \in Procs : q = p
    BY DEF OneProcess
  <2> QED
    BY <2>2, <2>3 DEF StoreInv, StoreAt, KeepsOthers
<1> QED
  BY <1>1, <1>2 DEF Next

\* The cache implements NameStore: no command on one name changes what another stands for,
\* except one that fails between truncating index.json and writing it, as long as one oskit
\* works on the cache at a time and no two names share an image.
THEOREM CacheImplementsStore ==
  ASSUME OneProcess, NamesApart
  PROVE  Spec => ImplementsStore
<1>1. Init => Types /\ StoreInv /\ Store!Init
  BY TypesInit, StoreInit
<1>2. Types /\ StoreInv /\ [Next]_vars => (Types /\ StoreInv)' /\ [Store!Next]_(Store!nvars)
  BY TypesStep, StoreStep
<1> QED
  BY <1>1, <1>2, PTL DEF Spec, ImplementsStore, Store!Spec

(***************************************************************************)
(* One manifest for an architecture                                        *)
(***************************************************************************)

\* Which key a merged index has where.
LEMMA MergedKeys ==
  ASSUME NEW old \in Seq(Images), NEW add \in Seq(Images), \A i \in ToSet(add) : PlatOf[i] # NoPlat,
         NEW new, NEW ks, Merges(old, add, new, ks)
  PROVE  /\ \A j \in 1..Len(old) : /\ PlatOf[new[j]] # NoPlat <=> PlatOf[old[j]] # NoPlat
                                   /\ PlatOf[old[j]] # NoPlat => Key(new[j]) = Key(old[j])
         /\ \A j \in 1..Len(ks) : /\ PlatOf[new[Len(old) + j]] # NoPlat
                                  /\ Key(new[Len(old) + j]) = ks[j]
<1>1. \A k \in Keys(add) : Key(NewFor(add, k)) = k /\ PlatOf[NewFor(add, k)] # NoPlat
  <2> SUFFICES ASSUME NEW k \in Keys(add) PROVE Key(NewFor(add, k)) = k /\ PlatOf[NewFor(add, k)] # NoPlat
    OBVIOUS
  <2>1. PICK j \in DOMAIN add : NewFor(add, k) = add[j] /\ Key(add[j]) = k
    BY NewForIs
  <2>2. add[j] \in ToSet(add)
    BY DEF ToSet
  <2> QED BY <2>1, <2>2
<1>2. ASSUME NEW j \in 1..Len(old)
      PROVE  /\ PlatOf[new[j]] # NoPlat <=> PlatOf[old[j]] # NoPlat
             /\ PlatOf[old[j]] # NoPlat => Key(new[j]) = Key(old[j])
  <2>1. new[j] = Replaced(old, add)[j]
    BY DEF Merges
  <2>2. \/ new[j] = old[j]
        \/ PlatOf[old[j]] # NoPlat /\ Key(old[j]) \in Keys(add) /\ new[j] = NewFor(add, Key(old[j]))
    BY <2>1, ReplacedIs
  <2> QED BY <1>1, <2>2
<1>3. ASSUME NEW j \in 1..Len(ks)
      PROVE  PlatOf[new[Len(old) + j]] # NoPlat /\ Key(new[Len(old) + j]) = ks[j]
  <2>1. ks \in Seq(Left(old, add)) /\ new[Len(old) + j] = NewFor(add, ks[j])
    BY DEF Merges
  <2>2. ks[j] \in Left(old, add)
    <3> DEFINE S == Left(old, add)
    <3>1. ks \in Seq(S)
      BY <2>1
    <3> HIDE DEF S
    <3>2. ks[j] \in S
      BY <3>1
    <3> QED BY <3>2 DEF S
  <2>3. ks[j] \in Keys(add)
    BY <2>2 DEF Left
  <2> QED BY <1>1, <2>1, <2>3
<1> QED BY <1>2, <1>3

LEMMA MergedEach ==
  ASSUME NEW old \in Seq(Images), NEW add \in Seq(Images), \A i \in ToSet(add) : PlatOf[i] # NoPlat,
         NEW new \in Merged(old, add), OneEach(old)
  PROVE  OneEach(new)
<1>1. PICK ks : Merges(old, add, new, ks)
  BY MergedIs
<1> DEFINE l == Len(old)
           m == Len(ks)
<1>2. /\ new \in Seq(Images) /\ DOMAIN new = 1..Len(new) /\ Len(new) = l + m
      /\ l \in Nat /\ m \in Nat /\ DOMAIN old = 1..l
  <2>1. new \in Seq(Images) /\ Len(new) = l + m
    BY <1>1, MergedIs DEF Merges
  <2>2. m \in Nat
    <3> DEFINE S == Left(old, add)
    <3>1. ks \in Seq(S)
      BY <1>1 DEF Merges
    <3> HIDE DEF S
    <3> QED BY <3>1
  <2> HIDE DEF m
  <2> QED BY <2>1, <2>2
<1>3. /\ \A j \in 1..l : /\ PlatOf[new[j]] # NoPlat <=> PlatOf[old[j]] # NoPlat
                         /\ PlatOf[old[j]] # NoPlat => Key(new[j]) = Key(old[j])
      /\ \A j \in 1..m : PlatOf[new[l + j]] # NoPlat /\ Key(new[l + j]) = ks[j]
  BY <1>1, MergedKeys, SMTT(30)
<1>4. \A i, j \in 1..m : ks[i] = ks[j] => i = j
  BY <1>1 DEF Merges
<1>5. ASSUME NEW i \in 1..l, NEW j \in 1..m, PlatOf[old[i]] # NoPlat
      PROVE  Key(old[i]) # ks[j]
  <2>1. ks[j] \in Left(old, add)
    <3> DEFINE S == Left(old, add)
    <3>1. ks \in Seq(S)
      BY <1>1 DEF Merges
    <3> HIDE DEF S
    <3>2. ks[j] \in S
      BY <3>1
    <3> QED BY <3>2 DEF S
  <2>2. old[i] \in ToSet(old)
    BY <1>2 DEF ToSet
  <2> QED BY <1>5, <2>1, <2>2 DEF Left
<1> HIDE DEF l, m
<1>6. \A i \in DOMAIN new : i \in 1..l \/ (i - l \in 1..m /\ i = l + (i - l))
  BY <1>2
<1> SUFFICES ASSUME NEW i \in DOMAIN new, NEW j \in DOMAIN new, PlatOf[new[i]] # NoPlat, PlatOf[new[j]] # NoPlat,
                    Key(new[i]) = Key(new[j])
             PROVE  i = j
  BY DEF OneEach
<1>7. CASE i \in 1..l /\ j \in 1..l
  <2>1. Key(old[i]) = Key(old[j]) /\ PlatOf[old[i]] # NoPlat /\ PlatOf[old[j]] # NoPlat
    BY <1>3, <1>7
  <2> QED BY <1>2, <1>7, <2>1 DEF OneEach
<1>8. CASE i \in 1..l /\ j - l \in 1..m /\ j = l + (j - l)
  <2>1. PlatOf[old[i]] # NoPlat /\ Key(new[i]) = Key(old[i]) /\ Key(new[j]) = ks[j - l]
    BY <1>3, <1>8
  <2> QED BY <1>5, <1>8, <2>1
<1>9. CASE j \in 1..l /\ i - l \in 1..m /\ i = l + (i - l)
  <2>1. PlatOf[old[j]] # NoPlat /\ Key(new[j]) = Key(old[j]) /\ Key(new[i]) = ks[i - l]
    BY <1>3, <1>9
  <2> QED BY <1>5, <1>9, <2>1
<1>10. CASE /\ i - l \in 1..m /\ i = l + (i - l)
            /\ j - l \in 1..m /\ j = l + (j - l)
  <2>1. Key(new[i]) = ks[i - l] /\ Key(new[j]) = ks[j - l]
    BY <1>3, <1>10
  <2>2. i - l = j - l
    BY <1>4, <1>10, <2>1
  <2> QED BY <1>2, <2>2
<1> QED BY <1>6, <1>7, <1>8, <1>9, <1>10

\* A merged index has every new image.
LEMMA MergedAll ==
  ASSUME NEW old \in Seq(Images), NEW add \in Seq(Images), \A i \in ToSet(add) : PlatOf[i] # NoPlat,
         NEW new \in Merged(old, add), OneEach(add)
  PROVE  ToSet(add) \subseteq ToSet(new)
<1>1. PICK ks : Merges(old, add, new, ks)
  BY MergedIs
<1>2. /\ Len(new) = Len(old) + Len(ks) /\ DOMAIN new = 1..Len(new)
      /\ Len(old) \in Nat /\ Len(ks) \in Nat /\ DOMAIN old = 1..Len(old) /\ DOMAIN add = 1..Len(add)
  <2>1. new \in Seq(Images) /\ Len(new) = Len(old) + Len(ks)
    BY <1>1, MergedIs DEF Merges
  <2>2. Len(ks) \in Nat
    <3> DEFINE S == Left(old, add)
    <3>1. ks \in Seq(S)
      BY <1>1 DEF Merges
    <3> HIDE DEF S
    <3> QED BY <3>1
  <2> QED BY <2>1, <2>2
<1> SUFFICES ASSUME NEW m \in DOMAIN add PROVE add[m] \in ToSet(new)
  BY DEF ToSet
<1> DEFINE k == Key(add[m])
<1>3. k \in Keys(add) /\ PlatOf[add[m]] # NoPlat
  BY DEF Keys, ToSet
<1>4. NewFor(add, k) = add[m]
  <2>1. PICK j \in DOMAIN add : NewFor(add, k) = add[j] /\ Key(add[j]) = k
    BY <1>3, NewForIs
  <2>2. PlatOf[add[j]] # NoPlat
    BY DEF ToSet
  <2>3. j = m
    BY <1>3, <2>1, <2>2 DEF OneEach
  <2> QED BY <2>1, <2>3
<1>5. CASE k \in Left(old, add)
  <2>1. PICK j \in 1..Len(ks) : ks[j] = k
    BY <1>1, <1>5 DEF Merges
  <2>2. new[Len(old) + j] = add[m]
    BY <1>1, <1>4, <2>1 DEF Merges
  <2>3. Len(old) + j \in DOMAIN new
    BY <1>2
  <2> QED BY <2>2, <2>3 DEF ToSet
<1>6. CASE k \notin Left(old, add)
  <2> DEFINE at == {h \in DOMAIN old : PlatOf[old[h]] # NoPlat /\ Key(old[h]) = k}
  <2>1. at \in SUBSET Nat /\ at # {}
    <3>1. \E i \in ToSet(old) : PlatOf[i] # NoPlat /\ Key(i) = k
      BY <1>3, <1>6 DEF Left
    <3> QED BY <1>2, <3>1 DEF ToSet
  <2>2. PICK j \in at : \A h \in at : j <= h
    <3> HIDE DEF at
    <3> QED BY <2>1, LeastOf
  <2>3. j \in 1..Len(old) /\ PlatOf[old[j]] # NoPlat /\ Key(old[j]) = k
    BY <1>2, <2>2
  <2>4. \A h \in 1..(j - 1) : PlatOf[old[h]] # NoPlat => Key(old[h]) # Key(old[j])
    <3>1. \A h \in 1..(j - 1) : h \in DOMAIN old /\ ~(j <= h)
      BY <1>2, <2>3
    <3>2. \A h \in 1..(j - 1) : h \notin at
      BY <2>2, <3>1
    <3> QED BY <2>3, <3>1, <3>2
  <2>5. Replaced(old, add)[j] = NewFor(add, k)
    BY <1>3, <2>3, <2>4, ReplacedIs
  <2>6. new[j] = add[m] /\ j \in DOMAIN new
    BY <1>1, <1>2, <1>4, <2>3, <2>5 DEF Merges
  <2> QED BY <2>6 DEF ToSet
<1> QED BY <1>5, <1>6

JobEach(o) == EachContent(o.got) /\ EachEntry(o.buf) /\ EachStep(o.todo)
RemoteEach == \A r \in Refs : EachContent(remote[r])

LEMMA EachMove ==
  ASSUME NEW t \in Seq(Plans), t # <<>>, EachStep(t), NEW steps \in Seq(Plans), EachStep(steps)
  PROVE  EachStep(steps \o Tail(t))
<1> DEFINE P == Plans
           u == steps \o Tail(t)
           E(x) == /\ x.do = "index" => OneEach(x.add)
                   /\ x.do \in {"append", "replace"} /\ x.e.kind = "index" => OneEach(x.e.dig)
<1>1. t \in Seq(P) /\ steps \in Seq(P)
  OBVIOUS
<1>2. (\A j \in DOMAIN t : E(t[j])) /\ (\A j \in DOMAIN steps : E(steps[j]))
  BY DEF EachStep
<1> HIDE DEF P, E
<1>3. /\ DOMAIN steps = 1..Len(steps) /\ DOMAIN t = 1..Len(t) /\ Len(steps) \in Nat /\ Len(t) \in Nat \ {0}
      /\ DOMAIN u = 1..(Len(steps) + Len(t) - 1)
      /\ \A k \in 1..(Len(steps) + Len(t) - 1) :
           IF k <= Len(steps) THEN u[k] = steps[k]
           ELSE k - Len(steps) + 1 \in 2..Len(t) /\ u[k] = t[k - Len(steps) + 1]
  BY <1>1, InPlaceOfHead
<1> HIDE DEF u
<1>4. ASSUME NEW k \in DOMAIN u PROVE E(u[k])
  <2>1. CASE k <= Len(steps)
    BY <1>2, <1>3, <2>1
  <2>2. CASE ~(k <= Len(steps))
    <3>1. k - Len(steps) + 1 \in DOMAIN t /\ u[k] = t[k - Len(steps) + 1]
      BY <1>3, <2>2
    <3> QED BY <1>2, <3>1
  <2> QED BY <2>1, <2>2
<1> QED BY <1>4 DEF EachStep, E, u

\* A list of steps none of which carries an index.
LEMMA EachPlain ==
  ASSUME NEW steps, \A k \in DOMAIN steps :
           /\ steps[k].do = "index" => OneEach(steps[k].add)
           /\ steps[k].do \in {"append", "replace"} => steps[k].e.kind = "image"
  PROVE  EachStep(steps)
BY DEF EachStep

LEMMA JobIs ==
  ASSUME NEW o \in Jobs
  PROVE  o = [op |-> o.op, ref |-> o.ref, arch |-> o.arch, todo |-> o.todo,
              buf |-> o.buf, got |-> o.got, ok |-> o.ok]
BY DEF Jobs

LEMMA EachNone == EachStep(<<>>) /\ EachEntry(<<>>) /\ EachContent(Nothing)
<1>1. Nothing.kind # "index"
  BY DEF Nothing
<1>2. EachEntry(<<>>) /\ EachStep(<<>>)
  BY DEF EachEntry, EachStep
<1> QED BY <1>1, <1>2 DEF EachContent

\* The jobs of the other processes stay, and so does what this one holds.
LEMMA EachJob ==
  ASSUME Types, EachInv, NEW p \in Procs, \A q \in Procs : q # p => job'[q] = job[q],
         \/ \E u, ok : EachStep(u) /\ job'[p] = [job[p] EXCEPT !.todo = u, !.ok = ok]
         \/ \E u : EachStep(u) /\ job'[p] = [job[p] EXCEPT !.todo = u]
         \/ \E u, c : EachStep(u) /\ EachContent(c) /\ job'[p] = [job[p] EXCEPT !.todo = u, !.got = c]
         \/ \E u, b : EachStep(u) /\ EachEntry(b) /\ job'[p] = [job[p] EXCEPT !.todo = u, !.buf = b]
         \/ \E u, op, r, a : EachStep(u) /\ job'[p] = [Idle EXCEPT !.op = op, !.ref = r, !.arch = a, !.todo = u]
         \/ job'[p] = job[p]
  PROVE  \A q \in Procs : JobEach(job'[q])
<1>1. \A q \in Procs : JobEach(job[q])
  BY DEF EachInv, JobEach
<1>2. job[p] \in Jobs
  BY DEF Types, JobsFit
<1>3. JobEach(job'[p])
  <2> DEFINE o == job[p]
             w == job'[p]
  <2>1. o = [op |-> o.op, ref |-> o.ref, arch |-> o.arch, todo |-> o.todo,
             buf |-> o.buf, got |-> o.got, ok |-> o.ok]
    BY <1>2, JobIs
  <2>2. EachContent(Nothing) /\ EachEntry(<<>>)
    BY EachNone
  <2>3. /\ w.todo = o.todo \/ EachStep(w.todo)
        /\ w.buf = o.buf \/ EachEntry(w.buf)
        /\ w.got = o.got \/ EachContent(w.got)
    <3> HIDE DEF o
    <3>1. CASE \E u, ok : EachStep(u) /\ w = [o EXCEPT !.todo = u, !.ok = ok]
      BY <2>1, <3>1
    <3>2. CASE \E u : EachStep(u) /\ w = [o EXCEPT !.todo = u]
      BY <2>1, <3>2
    <3>3. CASE \E u, c : EachStep(u) /\ EachContent(c) /\ w = [o EXCEPT !.todo = u, !.got = c]
      BY <2>1, <3>3
    <3>4. CASE \E u, b : EachStep(u) /\ EachEntry(b) /\ w = [o EXCEPT !.todo = u, !.buf = b]
      BY <2>1, <3>4
    <3>5. CASE \E u, op, r, a : EachStep(u) /\ w = [Idle EXCEPT !.op = op, !.ref = r, !.arch = a, !.todo = u]
      BY <2>2, <3>5 DEF Idle
    <3>6. CASE w = o
      BY <3>6
    <3> QED BY <3>1, <3>2, <3>3, <3>4, <3>5, <3>6 DEF o
  <2>4. JobEach(o)
    BY <1>1
  <2> HIDE DEF o, w
  <2>5. JobEach(w)
    BY <2>3, <2>4 DEF JobEach
  <2> QED BY <2>5 DEF w
<1> QED BY <1>1, <1>3

LEMMA EachAll ==
  ASSUME EachEntry(root'.es), \A r \in Refs : EachContent(remote'[r]), \A q \in Procs : JobEach(job'[q])
  PROVE  EachInv'
BY DEF EachInv, JobEach, EachEntry, EachContent, EachStep

LEMMA EachParts ==
  ASSUME EachInv
  PROVE  /\ EachEntry(root.es) /\ (\A r \in Refs : EachContent(remote[r]))
         /\ \A q \in Procs : JobEach(job[q])
BY DEF EachInv, JobEach

\* The rest of a command.
LEMMA EachTail ==
  ASSUME Types, EachInv, NEW p \in Procs, Todo(p) # <<>>, NEW steps \in Seq(Plans), EachStep(steps)
  PROVE  EachStep(steps \o Tail(job[p].todo)) /\ Todo(p) = job[p].todo
<1>1. Todo(p) \in Seq(Plans) /\ Todo(p) = job[p].todo
  BY DEF Types, JobsFit, Todo, Jobs
<1>2. EachStep(Todo(p))
  BY <1>1 DEF EachInv
<1> QED BY <1>1, <1>2, EachMove

LEMMA EachBegins ==
  ASSUME Types, NEW p \in Procs, EachInv,
         BeginPull(p) \/ BeginLoad(p) \/ BeginIndexWrite(p) \/ BeginDescriptorWrite(p) \/ BeginPush(p)
         \/ BeginClean(p)
  PROVE  EachInv'
<1>1. CASE BeginClean(p)
  <2> DEFINE u == <<Do("clean")>>
  <2>1. EachStep(u)
    BY DEF EachStep, Do
  <2>2. \A q \in Procs : q # p => job'[q] = job[q]
    BY <1>1, CleanBegins
  <2>3. /\ job'[p] = [Idle EXCEPT !.op = "clean", !.todo = u] /\ UNCHANGED <<disk, remote, faults>>
    BY <1>1, CleanBegins
  <2>4. job'[p] = [Idle EXCEPT !.op = "clean", !.ref = <<>>, !.arch = Plain, !.todo = u]
    BY <2>3, ZenonT(60) DEF Idle
  <2>5. UNCHANGED <<root, remote>>
    BY <2>3 DEF disk
  <2> HIDE DEF u
  <2>6. \A q \in Procs : JobEach(job'[q])
    <3>1. \E v, o, s, c : EachStep(v) /\ job'[p] = [Idle EXCEPT !.op = o, !.ref = s, !.arch = c, !.todo = v]
      BY <2>1, <2>4
    <3> QED BY <2>2, <3>1, EachJob
  <2> QED BY <2>5, <2>6, EachParts, EachAll
<1>2. CASE ~BeginClean(p)
  <2>1. \A q \in Procs : q # p => job'[q] = job[q]
    BY <1>2, BeginsDo
  <2>2. UNCHANGED <<root, remote>>
    BY <1>2, BeginsDo DEF disk
  <2>3. PICK op, r, a : \E steps \in Seq(Plans) : BeginsWith(p, op, r, a, steps)
    BY <1>2, BeginsDo
  <2>4. PICK steps \in Seq(Plans) : BeginsWith(p, op, r, a, steps)
    BY <2>3
  <2> DEFINE u == FirstSteps(steps)
  <2>5. EachStep(u)
    <3>1. \A k \in DOMAIN u : u[k].do = "init" \/ \E j \in DOMAIN steps : u[k] = steps[j]
      BY <2>4, PreparedFirst DEF BeginsWith
    <3>2. \A k \in DOMAIN u : u[k].do = "init" \/ Begun(u[k])
      BY <2>4, <3>1 DEF BeginsWith
    <3> HIDE DEF u
    <3> QED BY <3>2, EachPlain DEF Begun
  <2>6. job'[p] = [Idle EXCEPT !.op = op, !.ref = r, !.arch = a, !.todo = u]
    BY <2>4 DEF BeginsWith
  <2> HIDE DEF u
  <2>7. \A q \in Procs : JobEach(job'[q])
    <3>1. \E v, o, s, c : EachStep(v) /\ job'[p] = [Idle EXCEPT !.op = o, !.ref = s, !.arch = c, !.todo = v]
      BY <2>5, <2>6
    <3> QED BY <2>1, <3>1, EachJob
  <2> QED BY <2>2, <2>7, EachParts, EachAll
<1> QED BY <1>1, <1>2

\* A step that ends the command.
LEMMA EachReturn ==
  ASSUME Types, NEW p \in Procs, EachInv, NEW ok \in BOOLEAN, Return(p, ok)
  PROVE  \A q \in Procs : JobEach(job'[q])
<1>1. job'[p] = [job[p] EXCEPT !.todo = <<>>, !.ok = ok] /\ \A q \in Procs : q # p => job'[q] = job[q]
  BY ReturnFits DEF Types
<1>2. \E u, b : EachStep(u) /\ job'[p] = [job[p] EXCEPT !.todo = u, !.ok = b]
  BY <1>1, EachNone
<1> QED BY <1>1, <1>2, EachJob

\* A step that is followed by others.
LEMMA EachThen ==
  ASSUME Types, NEW p \in Procs, EachInv, Todo(p) # <<>>, NEW steps \in Seq(Plans), EachStep(steps),
         job'[p] = [job[p] EXCEPT !.todo = steps \o Tail(job[p].todo)],
         \A q \in Procs : q # p => job'[q] = job[q]
  PROVE  \A q \in Procs : JobEach(job'[q])
<1> DEFINE u == steps \o Tail(job[p].todo)
<1>1. EachStep(u)
  BY EachTail
<1>2. job'[p] = [job[p] EXCEPT !.todo = u]
  OBVIOUS
<1> HIDE DEF u
<1>3. \E v : EachStep(v) /\ job'[p] = [job[p] EXCEPT !.todo = v]
  BY <1>1, <1>2
<1> QED BY <1>3, EachJob

LEMMA EachWrites ==
  ASSUME Types, NEW p \in Procs, EachInv,
         \/ Truncate(p) \/ WriteData(p) \/ WriteBlob(p) \/ CopyBlob(p) \/ RemoveBlob(p)
  PROVE  EachInv'
<1>1. PICK what \in {"trunc", "data", "blob", "copy", "rm"} : At(p, what)
  BY DEF Truncate, WriteData, WriteBlob, CopyBlob, RemoveBlob
<1>2. Todo(p) # <<>>
  BY <1>1 DEF At
<1>3. UNCHANGED remote /\ EachEntry(root'.es)
  <2>1. EachEntry(root.es) /\ EachEntry(job[p].buf) /\ EachEntry(<<>>)
    BY EachParts, EachNone DEF JobEach
  <2> QED BY <2>1 DEF Truncate, WriteData, WriteBlob, CopyBlob, RemoveBlob, Torn, Good, disk
<1>4. CASE Truncate(p) \/ WriteData(p) \/ CopyBlob(p) \/ RemoveBlob(p)
  <2> DEFINE steps == <<>>
  <2>1. job'[p] = [job[p] EXCEPT !.todo = steps \o Tail(job[p].todo)] /\ \A q \in Procs : q # p => job'[q] = job[q]
    BY <1>4, Types_Truncate, Types_WriteData, Types_CopyBlob, Types_RemoveBlob
  <2>2. steps \in Seq(Plans) /\ EachStep(steps)
    BY EmptyLists, EachNone
  <2> HIDE DEF steps
  <2>3. \A q \in Procs : JobEach(job'[q])
    BY <1>2, <2>1, <2>2, EachThen
  <2> QED BY <1>3, <2>3, EachParts, EachAll
<1>5. CASE WriteBlob(p)
  <2> DEFINE x == [do |-> "copy", d |-> Now(p).d]
             steps == IF Present(Now(p).d) THEN <<>> ELSE <<x>>
  <2>1. /\ steps \in Seq(Plans) /\ job'[p] = [job[p] EXCEPT !.todo = steps \o Tail(job[p].todo)]
        /\ \A q \in Procs : q # p => job'[q] = job[q]
    BY <1>5, Types_WriteBlob
  <2>2. EachStep(steps)
    <3>1. x.do = "copy"
      OBVIOUS
    <3> HIDE DEF x
    <3>2. EachStep(<<x>>)
      BY <3>1 DEF EachStep
    <3> QED BY <3>2, EachNone
  <2> HIDE DEF steps
  <2>3. \A q \in Procs : JobEach(job'[q])
    BY <1>2, <2>1, <2>2, EachThen
  <2> QED BY <1>3, <2>3, EachParts, EachAll
<1> QED BY <1>4, <1>5

LEMMA EachEdits ==
  ASSUME Types, NEW p \in Procs, EachInv, InitRoot(p) \/ EditRoot(p)
  PROVE  EachInv'
<1>1. PICK what \in {"init", "remove", "append", "replace"} : At(p, what)
  BY DEF InitRoot, EditRoot
<1>2. /\ Todo(p) # <<>> /\ Todo(p)[1].do = what /\ Now(p) = Todo(p)[1] /\ Now(p) \in Plans
      /\ Now(p).do = what /\ Todo(p) = job[p].todo /\ Todo(p) \in Seq(Plans)
  BY <1>1, AtIs DEF Types
<1>3. UNCHANGED root /\ UNCHANGED remote
  BY DEF InitRoot, EditRoot, disk
<1>4. \A q \in Procs : q # p => job'[q] = job[q]
  BY Types_InitRoot, Types_EditRoot
<1> DEFINE two == <<Do("trunc"), Do("data")>>
<1>5. two \in Seq(Plans) /\ EachStep(two)
  <2>1. Do("trunc") \in Plans /\ Do("data") \in Plans
    BY PlansAre
  <2>2. two \in Seq(Plans)
    BY <2>1
  <2>3. \A k \in DOMAIN two : two[k].do \in {"trunc", "data"}
    BY DEF Do
  <2> HIDE DEF two
  <2> QED BY <2>2, <2>3, EachPlain
<1> HIDE DEF two
<1>6. EachStep(two \o Tail(job[p].todo))
  BY <1>2, <1>5, EachTail
<1>7. ASSUME NEW new, EachEntry(new),
             job'[p] = [job[p] EXCEPT !.todo = two \o Tail(job[p].todo), !.buf = new]
      PROVE  EachInv'
  <2> DEFINE u == two \o Tail(job[p].todo)
  <2>1. job'[p] = [job[p] EXCEPT !.todo = u, !.buf = new] /\ EachStep(u)
    BY <1>6, <1>7
  <2> HIDE DEF u
  <2>2. \E v, b : EachStep(v) /\ EachEntry(b) /\ job'[p] = [job[p] EXCEPT !.todo = v, !.buf = b]
    BY <1>7, <2>1
  <2>3. \A q \in Procs : JobEach(job'[q])
    BY <1>4, <2>2, EachJob
  <2> QED BY <1>3, <2>3, EachParts, EachAll
<1>8. CASE InitRoot(p)
  <2> DEFINE new == <<>>
  <2>1. job'[p] = [job[p] EXCEPT !.todo = two \o Tail(job[p].todo), !.buf = new]
    BY <1>8, Types_InitRoot DEF two
  <2>2. EachEntry(new)
    BY EachNone
  <2> HIDE DEF new
  <2> QED BY <1>7, <2>1, <2>2
<1>9. CASE EditRoot(p) /\ job'[p] = [job[p] EXCEPT !.todo = <<>>, !.ok = FALSE]
  <2>1. \E u, b : EachStep(u) /\ job'[p] = [job[p] EXCEPT !.todo = u, !.ok = b]
    BY <1>9, EachNone
  <2>2. \A q \in Procs : JobEach(job'[q])
    BY <1>4, <2>1, EachJob
  <2> QED BY <1>3, <2>2, EachParts, EachAll
<1>10. EachEntry(Edited(p)) \/ ~EditRoot(p)
  <2> SUFFICES ASSUME EditRoot(p) PROVE EachEntry(Edited(p))
    OBVIOUS
  <2>0. RootFits /\ root.es \in Seq(Listing) /\ EachEntry(root.es)
    BY RootEntries, EachParts DEF Types
  <2>1. ASSUME NEW r PROVE EachEntry(WithoutRef(r))
    BY <2>0, WithoutRefIs DEF EachEntry
  <2>2. ASSUME NEW es \in Seq(Listing), EachEntry(es), NEW e \in Listing, e.kind = "index" => OneEach(e.dig)
        PROVE  EachEntry(Append(es, e))
    <3> DEFINE L == Listing
               m == Append(es, e)
    <3>1. es \in Seq(L) /\ e \in L
      OBVIOUS
    <3> HIDE DEF L
    <3>2. /\ DOMAIN es = 1..Len(es) /\ DOMAIN m = 1..(Len(es) + 1) /\ Len(es) \in Nat
          /\ m[Len(es) + 1] = e /\ \A k \in 1..Len(es) : m[k] = es[k]
      BY <3>1
    <3> HIDE DEF m
    <3>3. \A k \in DOMAIN m : k = Len(es) + 1 \/ k \in DOMAIN es
      BY <3>2
    <3> QED BY <2>2, <3>2, <3>3 DEF EachEntry, m
  <2>3. CASE At(p, "remove")
    <3>1. ~At(p, "append") /\ ~At(p, "replace")
      BY <2>3, AtHead DEF Types
    <3>2. Edited(p) = WithoutRef(Now(p).ref)
      BY <2>3, <3>1 DEF Edited
    <3> QED BY <2>1, <3>2
  <2>4. CASE At(p, "append") \/ At(p, "replace")
    <3>1. Now(p).do \in {"append", "replace"} /\ Now(p).e \in Listing /\ ~At(p, "remove")
          /\ ~(At(p, "append") /\ At(p, "replace"))
      BY <1>2, <2>4, PlanParts, AtHead DEF Types
    <3>2. Now(p).e.kind = "index" => OneEach(Now(p).e.dig)
      <4>1. EachStep(Todo(p))
        BY <1>2, EachParts DEF JobEach
      <4>2. 1 \in DOMAIN Todo(p)
        <5> DEFINE P == Plans
                   t == Todo(p)
        <5>1. t \in Seq(P) /\ t # <<>>
          BY <1>2
        <5> HIDE DEF P, t
        <5>2. 1 \in DOMAIN t
          BY <5>1
        <5> QED BY <5>2 DEF t
      <4> QED BY <1>2, <3>1, <4>1, <4>2 DEF EachStep
    <3>3. CASE At(p, "append")
      <4>1. Edited(p) = Append(root.es, Now(p).e)
        BY <3>1, <3>3 DEF Edited
      <4> QED BY <2>0, <2>2, <3>1, <3>2, <4>1
    <3>4. CASE At(p, "replace")
      <4>1. Edited(p) = Append(WithoutRef(Now(p).e.ref), Now(p).e)
        BY <3>1, <3>4 DEF Edited
      <4>2. WithoutRef(Now(p).e.ref) \in Seq(Listing)
        BY <2>0, WithoutRefIs
      <4> QED BY <2>1, <2>2, <3>1, <3>2, <4>1, <4>2
    <3> QED BY <2>4, <3>3, <3>4
  <2> QED BY <2>3, <2>4 DEF EditRoot
<1>11. CASE EditRoot(p) /\ job'[p] = [job[p] EXCEPT !.todo = <<Do("trunc"), Do("data")>> \o Tail(job[p].todo), !.buf = Edited(p)]
  BY <1>7, <1>10, <1>11 DEF two
<1> QED BY <1>8, <1>9, <1>11, Types_EditRoot

LEMMA EachIndex ==
  ASSUME Types, NEW p \in Procs, EachInv, IndexWrite(p)
  PROVE  EachInv'
<1>0. At(p, "index") /\ UNCHANGED root /\ UNCHANGED remote
  BY DEF IndexWrite, disk
<1>1. CASE Fail(p)
  <2>1. \A q \in Procs : JobEach(job'[q])
    BY <1>1, EachReturn DEF Fail
  <2> QED BY <1>0, <2>1, EachParts, EachAll
<1>2. ASSUME NEW s, NEW steps, Puts(p, job[p].ref, s, steps), Then(p, steps)
      PROVE  EachInv'
  <2>1. /\ steps \in Seq(Plans) /\ Fresh(steps, job[p])
        /\ \E h \in {0, 1} :
              /\ Len(steps) = 3 + h /\ DOMAIN steps = 1..(3 + h)
              /\ h = 0 <=> OfKind(root.es, job[p].ref, "index") = {}
              /\ h = 1 => LET old == root.es[First(OfKind(root.es, job[p].ref, "index"))].dig IN
                          steps[1] = [do |-> "rm", d |-> Index(old)] /\ Index(old) \in full
              /\ steps[h + 1] = Blob(Index(s)) /\ steps[h + 2] = Unlist(job[p].ref)
              /\ steps[h + 3] = AppendTo(Entry(job[p].ref, IndexOf(s)))
    BY <1>0, <1>2, PutsAre
  <2> DEFINE e == Entry(job[p].ref, IndexOf(s))
  <2>2. PICK h \in {0, 1} :
          /\ DOMAIN steps = 1..(3 + h)
          /\ h = 1 => steps[1].do = "rm"
          /\ steps[h + 1].do = "blob" /\ steps[h + 2].do = "remove"
          /\ steps[h + 3].do = "append" /\ steps[h + 3].e = e
    BY <2>1 DEF Blob, Unlist, AppendTo
  <2>3. \A k \in DOMAIN steps : (h = 1 /\ k = 1) \/ k = h + 1 \/ k = h + 2 \/ k = h + 3
    BY <2>2
  <2>4. /\ Todo(p) # <<>> /\ Todo(p)[1].do = "index" /\ Todo(p) \in Seq(Plans) /\ Now(p) = Todo(p)[1]
        /\ Todo(p) = job[p].todo /\ Now(p).add \in Seq(Images)
    BY <1>0, AtIs, PlanParts DEF Types
  <2>5. OneEach(Now(p).add)
    <3>1. EachStep(Todo(p))
      BY <2>4, EachParts DEF JobEach
    <3>2. 1 \in DOMAIN Todo(p)
      <4> DEFINE P == Plans
                 t == Todo(p)
      <4>1. t \in Seq(P) /\ t # <<>>
        BY <2>4
      <4> HIDE DEF P, t
      <4>2. 1 \in DOMAIN t
        BY <4>1
      <4> QED BY <4>2 DEF t
    <3> QED BY <2>4, <3>1, <3>2 DEF EachStep
  <2>6. OneEach(s)
    <3>1. CASE s = Now(p).add
      BY <2>5, <3>1
    <3>2. CASE OfKind(root.es, job[p].ref, "index") # {} /\ s # Now(p).add
      <4> DEFINE j == First(OfKind(root.es, job[p].ref, "index"))
                 old == root.es[j].dig
      <4>1. /\ old \in Seq(Images) /\ s \in Merged(old, Now(p).add)
            /\ \A i \in ToSet(Now(p).add) : PlatOf[i] # NoPlat
        BY <1>2, <3>2 DEF Puts
      <4>2. j \in DOMAIN root.es /\ root.es[j].kind = "index"
        BY <3>2, OfKindIs, RootEntries DEF Types
      <4>3. OneEach(old)
        BY <4>2, EachParts DEF EachEntry
      <4> HIDE DEF old
      <4> QED BY <2>4, <4>1, <4>3, MergedEach
    <3> QED BY <1>2, <3>1, <3>2 DEF Puts
  <2>7. e.dig = s
    BY DEF Entry, IndexOf
  <2> HIDE DEF e
  <2>8. EachStep(steps)
    BY <2>2, <2>3, <2>6, <2>7 DEF EachStep
  <2>9. /\ job'[p] = [job[p] EXCEPT !.todo = steps \o Tail(job[p].todo)]
        /\ \A q \in Procs : q # p => job'[q] = job[q]
    BY <1>2, <2>1, <2>4, ThenFits DEF Types
  <2>10. \A q \in Procs : JobEach(job'[q])
    BY <2>1, <2>4, <2>8, <2>9, EachThen
  <2> QED BY <1>0, <2>10, EachParts, EachAll
<1> QED
  BY <1>1, <1>2, IndexWriteDoes

LEMMA EachPulls ==
  ASSUME Types, NEW p \in Procs, EachInv, Look(p) \/ Fetch(p) \/ Validate(p) \/ Finish(p)
  PROVE  EachInv'
<1>0. UNCHANGED root /\ UNCHANGED remote
  BY Zenon DEF Look, Fetch, Validate, Finish, disk
<1>1. ASSUME \A q \in Procs : JobEach(job'[q]) PROVE EachInv'
  BY <1>0, <1>1, EachParts, EachAll
<1>2. ASSUME NEW ok \in BOOLEAN, Return(p, ok) PROVE EachInv'
  BY <1>1, <1>2, EachReturn
<1>3. Valid(job[p].ref, job[p].arch) \in BOOLEAN
  BY ValidIsBoolean
<1>4. CASE Validate(p) \/ Finish(p)
  BY <1>2, <1>3, <1>4 DEF Validate, Finish
<1>5. CASE Look(p)
  <2>1. CASE Return(p, TRUE)
    BY <1>2, <2>1
  <2>2. CASE Then(p, <<>>)
    <3>1. Todo(p) # <<>> /\ <<>> \in Seq(Plans)
      BY <1>5, FreshNone DEF Look, At
    <3>2. /\ job'[p] = [job[p] EXCEPT !.todo = <<>> \o Tail(job[p].todo)]
          /\ \A q \in Procs : q # p => job'[q] = job[q]
      BY <2>2, <3>1, StepDone DEF Types
    <3>3. EachStep(<<>>)
      BY EachNone
    <3> DEFINE u == <<>>
    <3>4. u \in Seq(Plans) /\ EachStep(u) /\ job'[p] = [job[p] EXCEPT !.todo = u \o Tail(job[p].todo)]
      BY <3>1, <3>2, <3>3
    <3> HIDE DEF u
    <3> QED BY <1>1, <3>1, <3>2, <3>4, EachThen
  <2> QED BY <1>5, <2>1, <2>2 DEF Look
<1>6. CASE Fetch(p)
  <2>0. /\ Types' /\ job[p].op = "pull" /\ job[p].ref \in Refs
        /\ \A q \in Procs : q # p => job'[q] = job[q]
    BY <1>6, FetchDoes
  <2>1. CASE Fail(p)
    BY <1>2, <2>1 DEF Fail
  <2>2. CASE /\ remote[job[p].ref] \in Contents
             /\ ContentFits(remote[job[p].ref], job[p].ref[1])
             /\ job'[p] = [job[p] EXCEPT !.todo = Answered(p, remote[job[p].ref]), !.got = remote[job[p].ref]]
    <3> DEFINE c == remote[job[p].ref]
               u == Answered(p, c)
    <3>1. c \in Contents /\ EachContent(c) /\ ContentFits(c, job[p].ref[1])
      BY <2>0, <2>2, EachParts
    <3>2. EachStep(u)
      <4>1. CASE c.kind = "image"
        <5>1. c.dig \in Images /\ c = ImageOf(c.dig) /\ c.dig \in ImagesOf(job[p].ref[1])
          BY <3>1, <4>1, ContentParts DEF ContentFits
        <5> DEFINE i == c.dig
        <5>2. u = Answered(p, ImageOf(i))
          BY <5>1
        <5> HIDE DEF u
        <5>3. /\ DOMAIN u = 1..4 /\ \A k \in 1..4 : k = 1 \/ k = 2 \/ k = 3 \/ k = 4
              /\ u[3] = Relist(Entry(job[p].ref, ImageOf(i)))
              /\ u[1].do = "blob" /\ u[2].do = "blob" /\ u[3].do = "replace" /\ u[4].do = "validate"
          BY <2>0, <5>1, <5>2, AnsweredImage
        <5>4. u[3].e.kind = "image"
          BY <5>3 DEF Relist, Entry, ImageOf
        <5> QED BY <5>3, <5>4, EachPlain
      <4>2. CASE c.kind = "index"
        <5>1. c.dig \in Seq(Images) /\ c = IndexOf(c.dig) /\ Fits(c.dig, job[p].ref[1]) /\ OneEach(c.dig)
          BY <3>1, <4>2, ContentParts DEF ContentFits, EachContent
        <5> DEFINE s == c.dig
        <5>2. IndexSteps(u, s, job[p].arch, job[p].ref[1])
          <6>1. u = Answered(p, IndexOf(s))
            BY <5>1
          <6>2. IndexSteps(Answered(p, IndexOf(s)), s, job[p].arch, job[p].ref[1])
            BY <2>0, <5>1, AnsweredIndex
          <6> QED BY <6>1, <6>2
        <5> HIDE DEF u
        <5>3. u[1].add = s /\ DOMAIN u = 1..Len(u) /\ Len(u) \in Nat
          BY <5>2 DEF IndexSteps
        <5>4. \A k \in DOMAIN u : k # 1 => u[k].do \in {"blob", "validate"}
          <6>1. \A k \in 2..(Len(u) - 1) : u[k].do = "blob"
            BY <5>2 DEF IndexSteps, Blob
          <6>2. u[Len(u)].do = "validate"
            BY <5>2 DEF IndexSteps, Do
          <6> QED BY <5>3, <6>1, <6>2
        <5>5. u[1].do = "index"
          BY <5>2 DEF IndexSteps
        <5> QED BY <5>1, <5>3, <5>4, <5>5, EachPlain
      <4> QED BY <3>1, <4>1, <4>2, ContentParts
    <3>3. job'[p] = [job[p] EXCEPT !.todo = u, !.got = c]
      BY <2>2
    <3> HIDE DEF u, c
    <3>4. \E v, d : EachStep(v) /\ EachContent(d) /\ job'[p] = [job[p] EXCEPT !.todo = v, !.got = d]
      BY <3>1, <3>2, <3>3
    <3>5. \A q \in Procs : JobEach(job'[q])
      BY <2>0, <3>4, EachJob
    <3> QED BY <1>1, <3>5
  <2> QED BY <1>6, <2>1, <2>2, FetchDoes
<1> QED BY <1>4, <1>5, <1>6

LEMMA EachPushes ==
  ASSUME Types, NEW p \in Procs, EachInv, Push(p) \/ PushTag(p) \/ PushManifest(p) \/ Abort(p)
  PROVE  EachInv'
<1>0. UNCHANGED root
  BY DEF Push, PushTag, PushManifest, Abort, disk
<1>1. ASSUME \A r \in Refs : EachContent(remote'[r]), \A q \in Procs : JobEach(job'[q]) PROVE EachInv'
  BY <1>0, <1>1, EachParts, EachAll
<1>2. ASSUME NEW ok \in BOOLEAN, Return(p, ok), UNCHANGED remote PROVE EachInv'
  BY <1>1, <1>2, EachReturn, EachParts
<1>3. CASE Abort(p)
  BY <1>2, <1>3 DEF Abort, Fail
<1>4. CASE Push(p)
  <2>0. /\ Types' /\ job[p].op = "push" /\ job[p].ref \in Refs
        /\ \A q \in Procs : q # p => job'[q] = job[q]
    BY <1>4, PushDoes
  <2>1. CASE Fail(p) /\ UNCHANGED remote
    BY <1>2, <2>1 DEF Fail
  <2>2. CASE Return(p, TRUE) /\ UNCHANGED remote
    BY <1>2, <2>2
  <2>3. CASE /\ FindRoot(job[p].ref) \in Contents
             /\ Put(job[p].ref, FindRoot(job[p].ref))
             /\ ContentFits(FindRoot(job[p].ref), job[p].ref[1])
             /\ \A s \in Refs : s # job[p].ref => remote'[s] = remote[s]
             /\ job'[p] = [job[p] EXCEPT !.todo = Sends(p) \o <<Do("manifest")>>]
    <3> DEFINE c == FindRoot(job[p].ref)
    <3>1. remote' = [remote EXCEPT ![job[p].ref] = c]
      BY <2>3 DEF Put
    <3>2. EachContent(c)
      BY <2>3, FindRootIs, EachParts, ContentsAre DEF EachEntry, EachContent, Types
    <3>3. \A r \in Refs : EachContent(remote'[r])
      <4>1. remote \in [Refs -> Contents \cup {Nothing}]
        BY DEF Types, RemoteFits
      <4> HIDE DEF c
      <4>2. remote'[job[p].ref] = c
        BY <2>0, <3>1, <4>1
      <4> QED BY <2>3, <3>2, <4>2, EachParts
    <3> DEFINE u == Sends(p) \o <<Do("manifest")>>
    <3>4. EachStep(u)
      <4>1. At(p, "push")
        BY <1>4 DEF Push
      <4>2. /\ Len(Sends(p)) \in Nat /\ DOMAIN u = 1..(Len(Sends(p)) + 1) /\ u[Len(Sends(p)) + 1] = Do("manifest")
            /\ \A k \in 1..Len(Sends(p)) : u[k] = Sends(p)[k]
            /\ DOMAIN Sends(p) = DOMAIN Sent(p) /\ DOMAIN Sends(p) = 1..Len(Sends(p))
            /\ \A j \in DOMAIN Sent(p) : Sends(p)[j].do = "tag"
        BY <2>3, <4>1, SendsAre
      <4> HIDE DEF u
      <4>3. \A k \in DOMAIN u : u[k].do \in {"tag", "manifest"}
        BY <4>2 DEF Do
      <4> QED BY <4>3, EachPlain
    <3>5. job'[p] = [job[p] EXCEPT !.todo = u]
      BY <2>3
    <3> HIDE DEF u
    <3>6. \E v : EachStep(v) /\ job'[p] = [job[p] EXCEPT !.todo = v]
      BY <3>4, <3>5
    <3>7. \A q \in Procs : JobEach(job'[q])
      BY <2>0, <3>6, EachJob
    <3> QED BY <1>1, <3>3, <3>7
  <2> QED BY <1>4, <2>1, <2>2, <2>3, PushDoes
<1>5. CASE PushTag(p)
  <2> DEFINE i == Now(p).i
             t == Tag(job[p].ref[1], PlatOf[i].arch)
             steps == <<AppendTo(Entry(t, ImageOf(i))), [Now(p) EXCEPT !.again = TRUE]>>
  <2>0. /\ Types' /\ job[p].op = "push" /\ job[p].ref \in Refs /\ t \in Refs
        /\ \A q \in Procs : q # p => job'[q] = job[q]
        /\ \/ Fail(p) /\ UNCHANGED remote
           \/ /\ UNCHANGED remote /\ steps \in Seq(Plans)
              /\ job'[p] = [job[p] EXCEPT !.todo = steps \o Tail(job[p].todo)]
           \/ /\ \/ remote' = [remote EXCEPT ![t] = ImageOf(i)]
                 \/ UNCHANGED remote
              /\ job'[p] = [job[p] EXCEPT !.todo = <<>> \o Tail(job[p].todo)]
    BY <1>5, PushTagDoes
  <2>1. Todo(p) # <<>> /\ Now(p).do = "tag" /\ Now(p) \in Plans
    BY <1>5, AtIs DEF PushTag, Types
  <2>2. CASE Fail(p) /\ UNCHANGED remote
    BY <1>2, <2>2 DEF Fail
  <2>3. CASE /\ UNCHANGED remote /\ steps \in Seq(Plans)
             /\ job'[p] = [job[p] EXCEPT !.todo = steps \o Tail(job[p].todo)]
    <3>1. EachStep(steps)
      <4>1. steps[1].do = "append" /\ steps[1].e.kind = "image"
        BY DEF AppendTo, Entry, ImageOf
      <4>2. [Now(p) EXCEPT !.again = TRUE].do = "tag"
        BY <2>1 DEF Plans
      <4>3. DOMAIN steps = 1..2 /\ steps[2].do = "tag"
        <5> DEFINE x == [Now(p) EXCEPT !.again = TRUE]
                   y == AppendTo(Entry(t, ImageOf(i)))
        <5>1. steps = <<y, x>> /\ x.do = "tag"
          BY <4>2
        <5> HIDE DEF steps, x, y
        <5> QED BY <5>1
      <4>4. \A k \in 1..2 : k = 1 \/ k = 2
        OBVIOUS
      <4> HIDE DEF steps
      <4> QED BY <4>1, <4>3, <4>4, EachPlain
    <3> HIDE DEF steps
    <3>2. \A q \in Procs : JobEach(job'[q])
      BY <2>0, <2>1, <2>3, <3>1, EachThen
    <3> QED BY <1>1, <2>3, <3>2, EachParts
  <2>4. CASE /\ \/ remote' = [remote EXCEPT ![t] = ImageOf(i)]
                \/ UNCHANGED remote
             /\ job'[p] = [job[p] EXCEPT !.todo = <<>> \o Tail(job[p].todo)]
    <3> DEFINE u == <<>>
    <3>1. u \in Seq(Plans) /\ EachStep(u) /\ job'[p] = [job[p] EXCEPT !.todo = u \o Tail(job[p].todo)]
      BY <2>4, EachNone, FreshNone
    <3> HIDE DEF u
    <3>2. \A q \in Procs : JobEach(job'[q])
      BY <2>0, <2>1, <3>1, EachThen
    <3>3. \A r \in Refs : EachContent(remote'[r])
      <4>1. remote \in [Refs -> Contents \cup {Nothing}]
        BY DEF Types, RemoteFits
      <4>2. EachContent(ImageOf(i))
        BY DEF EachContent, ImageOf
      <4> HIDE DEF i, t
      <4>3. remote' = [remote EXCEPT ![t] = ImageOf(i)] => \A r \in Refs : remote'[r] \in {ImageOf(i), remote[r]}
        BY <4>1
      <4> QED BY <2>4, <4>2, <4>3, EachParts
    <3> QED BY <1>1, <3>2, <3>3
  <2> QED BY <2>0, <2>2, <2>3, <2>4
<1>6. CASE PushManifest(p)
  <2> DEFINE s == TaggedIn(job[p].ref[1])
  <2>0. /\ job[p].ref \in Refs /\ job[p].ref[1] \in Names
        /\ \/ Fail(p) /\ UNCHANGED remote
           \/ remote' = [remote EXCEPT ![job[p].ref] = IndexOf(s)] /\ Return(p, TRUE)
    BY <1>6, PushManifestDoes
  <2>1. CASE Fail(p) /\ UNCHANGED remote
    BY <1>2, <2>1 DEF Fail
  <2>2. CASE remote' = [remote EXCEPT ![job[p].ref] = IndexOf(s)] /\ Return(p, TRUE)
    <3>1. OneEach(s)
      BY <2>0, TaggedIs
    <3> HIDE DEF s
    <3>2. EachContent(IndexOf(s))
      BY <3>1 DEF EachContent, IndexOf
    <3>3. \A r \in Refs : EachContent(remote'[r])
      <4>1. remote \in [Refs -> Contents \cup {Nothing}]
        BY DEF Types, RemoteFits
      <4>2. \A r \in Refs : remote'[r] \in {IndexOf(s), remote[r]}
        BY <2>2, <4>1
      <4> QED BY <3>2, <4>2, EachParts
    <3>4. \A q \in Procs : JobEach(job'[q])
      BY <2>2, EachReturn
    <3> QED BY <1>1, <3>3, <3>4
  <2> QED BY <2>0, <2>1, <2>2
<1> QED BY <1>3, <1>4, <1>5, <1>6

LEMMA EachCleans ==
  ASSUME Types, NEW p \in Procs, EachInv, Clean(p)
  PROVE  EachInv'
<1>1. UNCHANGED remote
  BY DEF Clean
<1>2. EachEntry(root'.es)
  <2>1. UNCHANGED root \/ root' = NoRoot
    BY DEF Clean, disk
  <2>2. NoRoot.es = <<>>
    BY DEF NoRoot
  <2> QED BY <2>1, <2>2, EachNone, EachParts
<1>3. \A q \in Procs : JobEach(job'[q])
  <2>1. CASE UNCHANGED job
    BY <2>1, EachParts
  <2>2. CASE Return(p, TRUE)
    BY <2>2, EachReturn
  <2> QED BY <2>1, <2>2 DEF Clean
<1> QED BY <1>1, <1>2, <1>3, EachParts, EachAll

LEMMA EachInit == Init => EachInv
<1> SUFFICES ASSUME Init PROVE EachInv
  OBVIOUS
<1>1. root.es = <<>> /\ remote = [r \in Refs |-> Nothing] /\ job = [p \in Procs |-> Idle]
  BY DEF Init, NoRoot
<1>2. \A p \in Procs : job[p].got = Nothing /\ job[p].buf = <<>> /\ job[p].todo = <<>>
  BY <1>1 DEF Idle
<1> QED BY <1>1, <1>2, EachNone DEF EachInv

\* An index never gets two manifests for one architecture, if what is published has none.
LEMMA EachNext ==
  ASSUME OneVariant, Types, EachInv, [Next]_vars
  PROVE  EachInv'
<1>1. CASE UNCHANGED vars
  <2>1. job' = job /\ root' = root /\ remote' = remote
    BY <1>1 DEF vars, disk
  <2> QED BY <2>1, EachParts, EachAll
<1>2. CASE Publish
  <2>1. /\ UNCHANGED <<disk, job>>
        /\ \E n \in Names : \E c \in Published[n] : remote' = [remote EXCEPT ![Ref(n)] = c]
    BY <1>2, Types_Publish
  <2>2. PICK n \in Names : \E c \in Published[n] : remote' = [remote EXCEPT ![Ref(n)] = c]
    BY <2>1
  <2>3. PICK c \in Published[n] : remote' = [remote EXCEPT ![Ref(n)] = c]
    BY <2>2
  <2>4. EachContent(c)
    BY DEF OneVariant, EachContent
  <2>5. \A r \in Refs : EachContent(remote'[r])
    <3>1. remote \in [Refs -> Contents \cup {Nothing}]
      BY DEF Types, RemoteFits
    <3>2. \A r \in Refs : remote'[r] \in {c, remote[r]}
      BY <2>3, <3>1
    <3> QED BY <2>4, <3>2, EachParts
  <2>6. job' = job /\ root' = root
    BY <2>1 DEF disk
  <2> QED BY <2>5, <2>6, EachParts, EachAll
<1>3. ASSUME NEW p \in Procs, Step(p) PROVE EachInv'
  BY <1>3, EachBegins, EachCleans, EachWrites, EachEdits, EachIndex, EachPulls, EachPushes DEF Step
<1> QED BY <1>1, <1>2, <1>3 DEF Next

(***************************************************************************)
(* What a pull lists                                                       *)
(***************************************************************************)

\* The steps u come in the place of the head of t.
LEMMA HeadIn ==
  ASSUME NEW t \in Seq(Plans), t # <<>>
  PROVE  1 \in DOMAIN t /\ DOMAIN t = 1..Len(t) /\ Len(t) \in Nat \ {0}
<1> DEFINE P == Plans
<1>1. t \in Seq(P)
  OBVIOUS
<1> HIDE DEF P
<1> QED BY <1>1

LEMMA HeadReplaced ==
  ASSUME NEW t \in Seq(Plans), t # <<>>, NEW steps \in Seq(Plans)
  PROVE  /\ Len(steps) \in Nat /\ Len(t) \in Nat \ {0}
         /\ DOMAIN steps = 1..Len(steps) /\ DOMAIN t = 1..Len(t)
         /\ DOMAIN (steps \o Tail(t)) = 1..(Len(steps) + Len(t) - 1)
         /\ \A k \in 1..Len(steps) : (steps \o Tail(t))[k] = steps[k]
         /\ \A k \in 2..Len(t) : (steps \o Tail(t))[Len(steps) + k - 1] = t[k]
         /\ \A k \in 1..(Len(steps) + Len(t) - 1) :
              IF k <= Len(steps) THEN (steps \o Tail(t))[k] = steps[k]
              ELSE k - Len(steps) + 1 \in 2..Len(t) /\ (steps \o Tail(t))[k] = t[k - Len(steps) + 1]
<1> DEFINE P == Plans
<1>1. t \in Seq(P) /\ steps \in Seq(P)
  OBVIOUS
<1> HIDE DEF P
<1> QED BY <1>1, InPlaceOfHead

\* The append comes nearer.
LEMMA AppendingMoves ==
  ASSUME NEW t \in Seq(Plans), t # <<>>, NEW steps \in Seq(Plans), NEW r, NEW s,
         NEW k \in DOMAIN t, k > 1, Appending(t, r, s, k),
         \A j \in DOMAIN steps : steps[j].do \in Leading
  PROVE  \E h \in DOMAIN (steps \o Tail(t)) : Appending(steps \o Tail(t), r, s, h)
<1> DEFINE u == steps \o Tail(t)
           l == Len(steps)
           h == l + k - 1
<1>1. /\ l \in Nat /\ Len(t) \in Nat \ {0}
      /\ DOMAIN steps = 1..l /\ DOMAIN t = 1..Len(t) /\ DOMAIN u = 1..(l + Len(t) - 1)
      /\ \A j \in 1..l : u[j] = steps[j]
      /\ \A j \in 2..Len(t) : u[l + j - 1] = t[j]
      /\ \A j \in 1..(l + Len(t) - 1) :
           IF j <= l THEN u[j] = steps[j] ELSE j - l + 1 \in 2..Len(t) /\ u[j] = t[j - l + 1]
  BY HeadReplaced
<1> HIDE DEF u, l
<1>2. k \in 2..Len(t) /\ h \in DOMAIN u /\ u[h] = t[k]
  BY <1>1
<1>3. ASSUME NEW j \in DOMAIN u
      PROVE  (j < h => u[j].do \in Leading) /\ (j > h => u[j].do \in Rest)
  <2>1. CASE j <= l
    BY <1>1, <1>2, <2>1
  <2>2. CASE j > l
    <3>1. j - l + 1 \in 2..Len(t) /\ j - l + 1 \in DOMAIN t /\ u[j] = t[j - l + 1]
      BY <1>1, <2>2
    <3>2. (j < h => j - l + 1 < k) /\ (j > h => j - l + 1 > k)
      BY <1>1, <1>2, <2>2
    <3> QED BY <3>1, <3>2 DEF Appending
  <2> QED BY <1>1, <2>1, <2>2
<1>4. Appending(u, r, s, h)
  BY <1>2, <1>3 DEF Appending
<1> QED BY <1>2, <1>4 DEF u

\* The append is next: what it appends is about to be written.
LEMMA AppendingEnds ==
  ASSUME NEW t \in Seq(Plans), t # <<>>, NEW steps \in Seq(Plans), NEW r, NEW s, NEW new,
         Appending(t, r, s, 1), Lists(new, r, s),
         \A j \in DOMAIN steps : steps[j].do \in Rest \cup {"trunc", "data"}
  PROVE  Appended(steps \o Tail(t), new, r, s)
<1> DEFINE u == steps \o Tail(t)
           l == Len(steps)
<1>1. /\ l \in Nat /\ Len(t) \in Nat \ {0}
      /\ DOMAIN steps = 1..l /\ DOMAIN t = 1..Len(t) /\ DOMAIN u = 1..(l + Len(t) - 1)
      /\ \A j \in 1..(l + Len(t) - 1) :
           IF j <= l THEN u[j] = steps[j] ELSE j - l + 1 \in 2..Len(t) /\ u[j] = t[j - l + 1]
  BY HeadReplaced
<1> HIDE DEF u, l
<1>2. ASSUME NEW j \in DOMAIN u PROVE u[j].do \in Rest \cup {"trunc", "data"}
  <2>1. CASE j <= l
    BY <1>1, <2>1
  <2>2. CASE j > l
    <3>1. j - l + 1 \in DOMAIN t /\ u[j] = t[j - l + 1] /\ j - l + 1 > 1
      BY <1>1, <2>2
    <3> QED BY <3>1 DEF Appending
  <2> QED BY <1>1, <2>1, <2>2
<1> QED BY <1>2 DEF Appended, u

LEMMA AppendedMoves ==
  ASSUME NEW t \in Seq(Plans), t # <<>>, NEW steps \in Seq(Plans), NEW r, NEW s, NEW es,
         Appended(t, es, r, s), \A j \in DOMAIN steps : steps[j].do \in Rest \cup {"trunc", "data"}
  PROVE  Appended(steps \o Tail(t), es, r, s)
<1> DEFINE u == steps \o Tail(t)
           l == Len(steps)
<1>1. /\ l \in Nat /\ Len(t) \in Nat \ {0}
      /\ DOMAIN steps = 1..l /\ DOMAIN t = 1..Len(t) /\ DOMAIN u = 1..(l + Len(t) - 1)
      /\ \A j \in 1..(l + Len(t) - 1) :
           IF j <= l THEN u[j] = steps[j] ELSE j - l + 1 \in 2..Len(t) /\ u[j] = t[j - l + 1]
  BY HeadReplaced
<1> HIDE DEF u, l
<1>2. ASSUME NEW j \in DOMAIN u PROVE u[j].do \in Rest \cup {"trunc", "data"}
  <2>1. CASE j <= l
    BY <1>1, <2>1
  <2>2. CASE j > l
    <3>1. j - l + 1 \in DOMAIN t /\ u[j] = t[j - l + 1]
      BY <1>1, <2>2
    <3> QED BY <3>1 DEF Appended
  <2> QED BY <1>1, <2>1, <2>2
<1> QED BY <1>2 DEF Appended, u

\* The index that has been merged is on its way.
LEMMA MergingMoves ==
  ASSUME NEW t \in Seq(Plans), t # <<>>, NEW steps \in Seq(Plans), NEW r, NEW s, Merging(t, s),
         NEW k \in DOMAIN steps, k = Len(steps),
         steps[k].do = "append", steps[k].e.ref = r, steps[k].e.kind = "index",
         ToSet(s) \subseteq ToSet(steps[k].e.dig),
         \A j \in DOMAIN steps : j # k => steps[j].do \in Leading
  PROVE  \E h \in DOMAIN (steps \o Tail(t)) : Appending(steps \o Tail(t), r, s, h)
<1> DEFINE u == steps \o Tail(t)
           l == Len(steps)
<1>1. /\ l \in Nat /\ Len(t) \in Nat \ {0}
      /\ DOMAIN steps = 1..l /\ DOMAIN t = 1..Len(t) /\ DOMAIN u = 1..(l + Len(t) - 1)
      /\ \A j \in 1..l : u[j] = steps[j]
      /\ \A j \in 1..(l + Len(t) - 1) :
           IF j <= l THEN u[j] = steps[j] ELSE j - l + 1 \in 2..Len(t) /\ u[j] = t[j - l + 1]
  BY HeadReplaced
<1>0. k = l
  OBVIOUS
<1> HIDE DEF u, l
<1>2. k \in DOMAIN u /\ u[k] = steps[k]
  BY <1>0, <1>1
<1>3. ASSUME NEW j \in DOMAIN u
      PROVE  (j < k => u[j].do \in Leading) /\ (j > k => u[j].do \in Rest)
  <2>1. CASE j <= l
    BY <1>0, <1>1, <2>1
  <2>2. CASE j > l
    <3>1. j - l + 1 \in DOMAIN t /\ u[j] = t[j - l + 1] /\ j - l + 1 > 1
      BY <1>1, <2>2
    <3>2. u[j].do \in Rest
      BY <3>1 DEF Merging
    <3> QED BY <1>0, <1>1, <2>2, <3>2
  <2> QED BY <1>1, <2>1, <2>2
<1>4. Appending(u, r, s, k)
  BY <1>2, <1>3 DEF Appending
<1> QED BY <1>2, <1>4 DEF u

LEMMA TodoIs ==
  ASSUME Types, NEW p \in Procs
  PROVE  Todo(p) \in Seq(Plans) /\ Todo(p) = job[p].todo /\ job[p] \in Jobs /\ JobFits(job[p])
<1>1. job[p] \in Jobs /\ JobFits(job[p])
  BY DEF Types, JobsFit
<1> QED BY <1>1 DEF Todo, Jobs

LEMMA PullingIs ==
  ASSUME Types, NEW p \in Procs, Pulling(p), Todo(p) # <<>>
  PROVE  LET t == Todo(p)
             r == job[p].ref
             s == job[p].got.dig
         IN \/ Merging(t, s) /\ t[1].do = "index"
            \/ Appending(t, r, s, 1) /\ t[1].do = "append"
            \/ t[1].do \in Leading /\ \E k \in DOMAIN t : k > 1 /\ Appending(t, r, s, k)
            \/ Appended(t, Coming(p), r, s) /\ t[1].do \in Rest \cup {"trunc", "data"}
<1> DEFINE t == Todo(p)
           r == job[p].ref
           s == job[p].got.dig
<1>1. t \in Seq(Plans) /\ 1 \in DOMAIN t /\ DOMAIN t = 1..Len(t) /\ Len(t) \in Nat
  BY HeadIn, TodoIs
<1>2. \/ Merging(t, s)
      \/ \E k \in DOMAIN t : Appending(t, r, s, k)
      \/ Appended(t, Coming(p), r, s)
  BY DEF Pulling
<1> HIDE DEF t, r, s
<1>3. Merging(t, s) => t[1].do = "index"
  BY DEF Merging
<1>4. ASSUME NEW k \in DOMAIN t, Appending(t, r, s, k)
      PROVE  (k = 1 /\ t[1].do = "append") \/ (k > 1 /\ t[1].do \in Leading)
  <2>1. k = 1 \/ k > 1
    BY <1>1
  <2> QED BY <1>1, <1>4, <2>1 DEF Appending
<1>5. Appended(t, Coming(p), r, s) => t[1].do \in Rest \cup {"trunc", "data"}
  BY <1>1 DEF Appended
<1> QED BY <1>2, <1>3, <1>4, <1>5 DEF t, r, s

\* The steps of the command go on, and none of them adds what it has listed.
LEMMA PullingMoves ==
  ASSUME Types, NEW p \in Procs, Pulling(p), Todo(p) # <<>>, Todo(p)[1].do \notin {"append", "index"},
         NEW steps \in Seq(Plans), \A k \in DOMAIN steps : steps[k].do \in Leading,
         Todo(p)[1].do \in Rest \cup {"trunc", "data"} =>
           /\ \A k \in DOMAIN steps : steps[k].do \in Rest \cup {"trunc", "data"}
           /\ Coming(p)' = Coming(p),
         Todo(p)' = steps \o Tail(Todo(p)), job'[p].ref = job[p].ref, job'[p].got = job[p].got
  PROVE  Pulling(p)'
<1> DEFINE t == Todo(p)
           r == job[p].ref
           s == job[p].got.dig
           u == steps \o Tail(t)
<1>1. t \in Seq(Plans) /\ t # <<>>
  BY TodoIs
<1>2. job'[p].ref = r /\ job'[p].got.dig = s /\ Todo(p)' = u
  OBVIOUS
<1>3. \/ t[1].do \in Leading /\ \E k \in DOMAIN t : k > 1 /\ Appending(t, r, s, k)
      \/ Appended(t, Coming(p), r, s) /\ t[1].do \in Rest \cup {"trunc", "data"}
  BY PullingIs
<1>4. ASSUME NEW k \in DOMAIN t, k > 1, Appending(t, r, s, k) PROVE Pulling(p)'
  <2>1. \E h \in DOMAIN u : Appending(u, r, s, h)
    BY <1>1, <1>4, AppendingMoves
  <2> HIDE DEF u
  <2> QED BY <1>2, <2>1 DEF Pulling
<1>5. CASE Appended(t, Coming(p), r, s) /\ t[1].do \in Rest \cup {"trunc", "data"}
  <2>1. Appended(u, Coming(p), r, s)
    BY <1>1, <1>5, AppendedMoves
  <2> HIDE DEF u
  <2>2. Appended(Todo(p)', Coming(p)', job'[p].ref, job'[p].got.dig)
    BY <1>2, <1>5, <2>1
  <2> QED BY <2>2 DEF Pulling
<1> QED BY <1>3, <1>4, <1>5

\* A command that has failed lists nothing any more.
LEMMA PullingFails ==
  ASSUME Types, NEW p \in Procs, Return(p, FALSE)
  PROVE  Pulling(p)'
<1>1. Todo(p)' = <<>> /\ job'[p] = [job[p] EXCEPT !.todo = <<>>, !.ok = FALSE] /\ job[p] \in Jobs
  BY ReturnFits DEF Types, JobsFit
<1>2. job'[p].ok = FALSE
  BY <1>1 DEF Jobs
<1> QED BY <1>1, <1>2 DEF Pulling

\* Of every process: a pull of an index.
PullIs(p) == job[p].op = "pull" /\ job[p].got.kind = "index"
ListedAt(p) == PullIs(p) => Pulling(p)

\* Commands that are not pulls stay so.
LEMMA OtherPulls ==
  ASSUME NEW p \in Procs, ~PullIs(p), job'[p].op = job[p].op, job'[p].got = job[p].got
  PROVE  ListedAt(p)'
BY DEF ListedAt, PullIs

LEMMA JobKeeps ==
  ASSUME Types, NEW p \in Procs,
         \/ \E u : job'[p] = [job[p] EXCEPT !.todo = u]
         \/ \E u, ok : job'[p] = [job[p] EXCEPT !.todo = u, !.ok = ok]
         \/ \E u, b : job'[p] = [job[p] EXCEPT !.todo = u, !.buf = b]
  PROVE  job'[p].op = job[p].op /\ job'[p].ref = job[p].ref /\ job'[p].got = job[p].got
<1>1. job[p] \in Jobs
  BY TodoIs
<1>2. job[p] = [op |-> job[p].op, ref |-> job[p].ref, arch |-> job[p].arch, todo |-> job[p].todo,
                buf |-> job[p].buf, got |-> job[p].got, ok |-> job[p].ok]
  BY <1>1, JobIs
<1> QED BY <1>2

LEMMA ListedBegins ==
  ASSUME Types, NEW p \in Procs,
         \/ BeginPull(p) \/ BeginLoad(p) \/ BeginIndexWrite(p) \/ BeginDescriptorWrite(p) \/ BeginPush(p)
         \/ BeginClean(p)
  PROVE  ListedAt(p)'
<1>1. job'[p].got = Nothing
  <2>1. CASE BeginClean(p)
    BY <2>1, CleanBegins DEF Idle
  <2>2. CASE ~BeginClean(p)
    <3>1. \E op, r, a : \E steps \in Seq(Plans) : BeginsWith(p, op, r, a, steps)
      BY <2>2, BeginsDo
    <3> QED BY <3>1 DEF BeginsWith, Idle
  <2> QED BY <2>1, <2>2
<1>2. Nothing.kind = "nothing"
  BY DEF Nothing
<1> QED BY <1>1, <1>2 DEF ListedAt, PullIs

LEMMA ListedBlobs ==
  ASSUME Types, NEW p \in Procs, ListedAt(p), WriteBlob(p) \/ CopyBlob(p) \/ RemoveBlob(p)
  PROVE  ListedAt(p)'
<1>1. PICK what \in {"blob", "copy", "rm"} : At(p, what)
  BY DEF WriteBlob, CopyBlob, RemoveBlob
<1>2. /\ Todo(p) # <<>> /\ Todo(p)[1].do = what /\ Todo(p) \in Seq(Plans)
  BY <1>1, AtIs DEF Types
<1>3. UNCHANGED root
  BY DEF WriteBlob, CopyBlob, RemoveBlob, disk
<1>4. \E steps \in Seq(Plans) :
        /\ \A k \in DOMAIN steps : steps[k].do = "copy"
        /\ Todo(p)' = steps \o Tail(Todo(p))
        /\ job'[p] = [job[p] EXCEPT !.todo = steps \o Tail(job[p].todo)]
  <2> DEFINE e == <<>>
  <2>1. e \in Seq(Plans) /\ \A k \in DOMAIN e : e[k].do = "copy"
    BY FreshNone
  <2>2. CASE CopyBlob(p) \/ RemoveBlob(p)
    <3>1. /\ Todo(p)' = e \o Tail(Todo(p))
          /\ job'[p] = [job[p] EXCEPT !.todo = e \o Tail(job[p].todo)]
      BY <2>2, Types_CopyBlob, Types_RemoveBlob
    <3> HIDE DEF e
    <3> QED BY <2>1, <3>1
  <2>3. CASE WriteBlob(p)
    <3> DEFINE s == IF Present(Now(p).d) THEN <<>> ELSE <<[do |-> "copy", d |-> Now(p).d]>>
    <3>1. s \in Seq(Plans) /\ Todo(p)' = s \o Tail(Todo(p))
          /\ job'[p] = [job[p] EXCEPT !.todo = s \o Tail(job[p].todo)]
      BY <2>3, Types_WriteBlob
    <3>2. \A k \in DOMAIN s : s[k].do = "copy"
      OBVIOUS
    <3> HIDE DEF s
    <3> QED BY <3>1, <3>2
  <2> QED BY <2>2, <2>3
<1>5. PICK steps \in Seq(Plans) :
        /\ \A k \in DOMAIN steps : steps[k].do = "copy"
        /\ Todo(p)' = steps \o Tail(Todo(p))
        /\ job'[p] = [job[p] EXCEPT !.todo = steps \o Tail(job[p].todo)]
  BY <1>4
<1>6. job'[p].op = job[p].op /\ job'[p].ref = job[p].ref /\ job'[p].got = job[p].got
  BY <1>5, JobKeeps
<1>7. CASE ~PullIs(p)
  BY <1>6, <1>7, OtherPulls
<1>8. CASE PullIs(p)
  <2>1. Pulling(p)
    BY <1>8 DEF ListedAt
  <2>2. Coming(p)' = Coming(p)
    <3> DEFINE u == steps \o Tail(Todo(p))
    <3>1. u = <<>> \/ u[1].do \notin {"trunc", "data"}
      BY <1>2, <1>5, NextQuiet DEF Types
    <3>2. Todo(p)' = u
      BY <1>5
    <3> HIDE DEF u
    <3>3. Coming(p)' = root'.es
      BY <3>1, <3>2, ComingNext
    <3>4. Coming(p) = root.es
      BY <1>2, ComingIs
    <3> QED BY <1>3, <3>3, <3>4
  <2>3. \A k \in DOMAIN steps : steps[k].do \in Leading /\ steps[k].do \in Rest
    BY <1>5 DEF Leading, Rest
  <2> QED BY <1>2, <1>5, <1>6, <2>1, <2>2, <2>3, PullingMoves DEF ListedAt
<1> QED BY <1>7, <1>8

\* What is in memory goes to the disk as it is.
LEMMA ComingWrites ==
  ASSUME Types, NEW p \in Procs, Truncate(p) \/ WriteData(p)
  PROVE  Coming(p)' = Coming(p) /\ Coming(p) = job[p].buf
<1>1. PICK what \in {"trunc", "data"} : At(p, what) /\ (what = "trunc" <=> Truncate(p))
  BY AtHead DEF Truncate, WriteData, Types
<1>2. /\ Todo(p) # <<>> /\ Todo(p)[1].do = what /\ Todo(p) \in Seq(Plans)
  BY <1>1, AtIs DEF Types
<1> DEFINE e == <<>>
<1>3. /\ e \in Seq(Plans) /\ DOMAIN e = {}
      /\ Todo(p)' = e \o Tail(Todo(p))
      /\ job'[p] = [job[p] EXCEPT !.todo = e \o Tail(job[p].todo)]
  BY FreshNone, Types_Truncate, Types_WriteData
<1>5. job'[p].buf = job[p].buf
  BY <1>3, TodoIs, JobIs
<1> HIDE DEF e
<1>6. Coming(p) = job[p].buf
  BY <1>2, ComingIs
<1>7. Coming(p)' = job[p].buf
  <2> DEFINE u == e \o Tail(Todo(p))
  <2>1. CASE Truncate(p)
    <3>1. what = "trunc"
      BY <1>1, <2>1
    <3>2. Len(Todo(p)) > 1 /\ Todo(p)[2].do = "data"
      BY <1>2, <3>1, HeadIn, TodoIs DEF JobFits, Ordered
    <3>3. u # <<>> /\ u[1] = Todo(p)[2]
      <4> DEFINE P == Plans
                 t == Todo(p)
      <4>1. t \in Seq(P) /\ Len(t) > 1
        BY <1>2, <3>2
      <4> HIDE DEF P, t
      <4>2. <<>> \o Tail(t) # <<>> /\ (<<>> \o Tail(t))[1] = t[2]
        BY <4>1
      <4> QED BY <4>2 DEF t, e
    <3> HIDE DEF u
    <3> QED BY <1>3, <1>5, <3>2, <3>3, ComingNext DEF u
  <2>2. CASE WriteData(p)
    <3>1. what = "data"
      BY <1>1, <1>2, <2>2, AtHead DEF WriteData, Types
    <3>2. u = <<>> \/ u[1].do \notin {"trunc", "data"}
      BY <1>2, <1>3, <3>1, NextQuiet DEF Types
    <3>3. root'.es = job[p].buf
      BY <2>2 DEF WriteData, Good
    <3> HIDE DEF u
    <3> QED BY <1>3, <3>2, <3>3, ComingNext DEF u
  <2> QED BY <2>1, <2>2
<1> QED BY <1>6, <1>7

LEMMA ListedWrites ==
  ASSUME Types, NEW p \in Procs, ListedAt(p), Truncate(p) \/ WriteData(p)
  PROVE  ListedAt(p)'
<1>1. PICK what \in {"trunc", "data"} : At(p, what) /\ (what = "trunc" <=> Truncate(p))
  BY AtHead DEF Truncate, WriteData, Types
<1>2. /\ Todo(p) # <<>> /\ Todo(p)[1].do = what /\ Todo(p) \in Seq(Plans)
  BY <1>1, AtIs DEF Types
<1> DEFINE e == <<>>
<1>3. /\ e \in Seq(Plans) /\ DOMAIN e = {}
      /\ Todo(p)' = e \o Tail(Todo(p))
      /\ job'[p] = [job[p] EXCEPT !.todo = e \o Tail(job[p].todo)]
  BY FreshNone, Types_Truncate, Types_WriteData
<1>4. job'[p].op = job[p].op /\ job'[p].ref = job[p].ref /\ job'[p].got = job[p].got
  BY <1>3, JobKeeps
<1> HIDE DEF e
<1>6. Coming(p)' = Coming(p)
  BY ComingWrites
<1>8. CASE ~PullIs(p)
  BY <1>4, <1>8, OtherPulls
<1>9. CASE PullIs(p)
  <2>1. Pulling(p)
    BY <1>9 DEF ListedAt
  <2>2. Coming(p)' = Coming(p) /\ \A k \in DOMAIN e : e[k].do \in Leading /\ e[k].do \in Rest
    BY <1>3, <1>6
  <2> QED BY <1>2, <1>3, <1>4, <2>1, <2>2, PullingMoves DEF ListedAt
<1> QED BY <1>8, <1>9

LEMMA AppendLists ==
  ASSUME NEW es \in Seq(Listing), NEW e \in Listing, NEW s, e.kind = "index", ToSet(s) \subseteq ToSet(e.dig)
  PROVE  Lists(Append(es, e), e.ref, s)
<1> DEFINE L == Listing
           m == Append(es, e)
<1>1. es \in Seq(L) /\ e \in L
  OBVIOUS
<1> HIDE DEF L
<1>2. Len(es) + 1 \in DOMAIN m /\ m[Len(es) + 1] = e
  BY <1>1
<1> HIDE DEF m
<1> QED BY <1>2 DEF Lists, Named, m

LEMMA ListedEdits ==
  ASSUME Types, NEW p \in Procs, ListedAt(p), InitRoot(p) \/ EditRoot(p)
  PROVE  ListedAt(p)'
<1>1. PICK what \in {"init", "remove", "append", "replace"} : At(p, what)
  BY DEF InitRoot, EditRoot
<1>2. /\ Todo(p) # <<>> /\ Todo(p)[1].do = what /\ Now(p) = Todo(p)[1] /\ Now(p) \in Plans
      /\ Todo(p) = job[p].todo /\ Todo(p) \in Seq(Plans)
  BY <1>1, AtIs DEF Types
<1> DEFINE two == <<Do("trunc"), Do("data")>>
<1>3. /\ two \in Seq(Plans) /\ Len(two) = 2 /\ two[1].do = "trunc" /\ two[2].do = "data"
      /\ DOMAIN two = 1..2
  <2>1. Do("trunc") \in Plans /\ Do("data") \in Plans
    BY PlansAre
  <2>2. two \in Seq(Plans)
    BY <2>1
  <2> QED BY <2>2 DEF Do
<1>4. \A k \in DOMAIN two : two[k].do \in Leading /\ two[k].do \in {"trunc", "data"}
  BY <1>3 DEF Leading
<1> DEFINE u == two \o Tail(Todo(p))
<1>5. u # <<>> /\ u[1] = two[1]
  <2> HIDE DEF two
  <2>0. /\ DOMAIN u = 1..(Len(two) + Len(Todo(p)) - 1) /\ Len(Todo(p)) \in Nat \ {0}
        /\ \A k \in 1..Len(two) : u[k] = two[k]
    BY <1>2, <1>3, HeadReplaced
  <2> HIDE DEF u
  <2>1. DOMAIN u = 1..(2 + Len(Todo(p)) - 1) /\ Len(Todo(p)) \in Nat \ {0} /\ u[1] = two[1]
    BY <1>3, <2>0
  <2>2. 1 \in DOMAIN u
    BY <2>1
  <2> QED BY <2>1, <2>2
<1>6. CASE ~PullIs(p)
  <2>1. job'[p].op = job[p].op /\ job'[p].got = job[p].got
    <3>1. CASE \E v, b : job'[p] = [job[p] EXCEPT !.todo = v, !.buf = b]
      BY <3>1, JobKeeps
    <3>2. CASE \E v, ok : job'[p] = [job[p] EXCEPT !.todo = v, !.ok = ok]
      BY <3>2, JobKeeps
    <3> DEFINE v == two \o Tail(job[p].todo)
               e == <<>>
    <3>3. \/ job'[p] = [job[p] EXCEPT !.todo = v, !.buf = e]
          \/ job'[p] = [job[p] EXCEPT !.todo = v, !.buf = Edited(p)]
          \/ job'[p] = [job[p] EXCEPT !.todo = e, !.ok = FALSE]
      BY Types_InitRoot, Types_EditRoot
    <3> HIDE DEF v, e
    <3> QED BY <3>1, <3>2, <3>3
  <2> QED BY <1>6, <2>1, OtherPulls
<1>7. CASE PullIs(p) /\ InitRoot(p)
  <2>1. Pulling(p) /\ what = "init"
    BY <1>1, <1>2, <1>7, AtHead DEF ListedAt, InitRoot, Types
  <2> QED BY <1>2, <2>1, PullingIs DEF Leading, Rest
<1>8. CASE PullIs(p) /\ EditRoot(p) /\ ~Readable
  <2>1. Return(p, FALSE)
    BY <1>8 DEF EditRoot, Fail
  <2> QED BY <2>1, PullingFails DEF ListedAt
<1>9. CASE PullIs(p) /\ EditRoot(p) /\ Readable
  <2>1. /\ Todo(p)' = u
        /\ job'[p] = [job[p] EXCEPT !.todo = two \o Tail(job[p].todo), !.buf = Edited(p)]
    <3>1. job[p].todo # [job[p] EXCEPT !.todo = <<>>, !.ok = FALSE].todo
      BY <1>2, TodoIs DEF Jobs
    <3>2. ~(~Readable)
      BY <1>9
    <3> QED BY <1>9, <3>2, Types_EditRoot
  <2>2. job'[p].op = job[p].op /\ job'[p].ref = job[p].ref /\ job'[p].got = job[p].got
    <3> DEFINE v == two \o Tail(job[p].todo)
    <3>1. job'[p] = [job[p] EXCEPT !.todo = v, !.buf = Edited(p)]
      BY <2>1
    <3> HIDE DEF v
    <3>2. \E w, b : job'[p] = [job[p] EXCEPT !.todo = w, !.buf = b]
      BY <3>1
    <3> QED BY <3>2, JobKeeps
  <2>3. job'[p].buf = Edited(p)
    BY <2>1, TodoIs, JobIs
  <2>4. Pulling(p)
    BY <1>9 DEF ListedAt
  <2>5. CASE what # "append"
    <3>1. what \notin {"append", "index"} /\ what \notin Rest \cup {"trunc", "data"}
      BY <2>5 DEF Rest
    <3> HIDE DEF two
    <3> QED BY <1>2, <1>3, <1>4, <2>1, <2>2, <2>4, <3>1, PullingMoves DEF ListedAt
  <2>6. CASE what = "append"
    <3> DEFINE r == job[p].ref
               s == job[p].got.dig
    <3>1. Appending(Todo(p), r, s, 1)
      BY <1>2, <2>4, <2>6, PullingIs DEF Leading, Rest
    <3>2. /\ Now(p).e.ref = r /\ Now(p).e.kind = "index" /\ ToSet(s) \subseteq ToSet(Now(p).e.dig)
          /\ Now(p).do = "append"
      BY <1>2, <3>1 DEF Appending
    <3>3. Now(p).e \in Listing
      BY <1>2, <3>2, PlanParts
    <3>4. Edited(p) = Append(root.es, Now(p).e)
      BY <1>1, <1>2, <2>6, AtHead DEF Edited, Types
    <3>5. Lists(Edited(p), r, s)
      BY <3>2, <3>3, <3>4, AppendLists, RootEntries DEF Types
    <3> HIDE DEF two
    <3>6. Appended(u, Edited(p), r, s)
      BY <1>2, <1>3, <1>4, <3>1, <3>5, AppendingEnds
    <3> HIDE DEF u
    <3>7. Coming(p)' = Edited(p)
      BY <1>3, <1>5, <2>1, <2>3, ComingNext
    <3>8. Appended(Todo(p)', Coming(p)', job'[p].ref, job'[p].got.dig)
      BY <2>1, <2>2, <3>6, <3>7
    <3> QED BY <3>8 DEF Pulling, ListedAt
  <2> QED BY <2>5, <2>6
<1> QED BY <1>6, <1>7, <1>8, <1>9

LEMMA ListedIndex ==
  ASSUME Types, EachInv, NEW p \in Procs, ListedAt(p), IndexWrite(p)
  PROVE  ListedAt(p)'
<1>0. At(p, "index")
  BY DEF IndexWrite
<1>1. CASE Fail(p)
  BY <1>1, PullingFails DEF ListedAt, Fail
<1>2. ASSUME NEW s, NEW steps, Puts(p, job[p].ref, s, steps), Then(p, steps)
      PROVE  ListedAt(p)'
  <2>1. /\ steps \in Seq(Plans) /\ Fresh(steps, job[p])
        /\ \E h \in {0, 1} :
              /\ Len(steps) = 3 + h /\ DOMAIN steps = 1..(3 + h)
              /\ h = 0 <=> OfKind(root.es, job[p].ref, "index") = {}
              /\ h = 1 => LET old == root.es[First(OfKind(root.es, job[p].ref, "index"))].dig IN
                          steps[1] = [do |-> "rm", d |-> Index(old)] /\ Index(old) \in full
              /\ steps[h + 1] = Blob(Index(s)) /\ steps[h + 2] = Unlist(job[p].ref)
              /\ steps[h + 3] = AppendTo(Entry(job[p].ref, IndexOf(s)))
    BY <1>0, <1>2, PutsAre
  <2> DEFINE e == Entry(job[p].ref, IndexOf(s))
  <2>2. PICK h \in {0, 1} :
          /\ DOMAIN steps = 1..(3 + h) /\ Len(steps) = 3 + h
          /\ h = 1 => steps[1].do = "rm"
          /\ steps[h + 1].do = "blob" /\ steps[h + 2].do = "remove"
          /\ steps[h + 3].do = "append" /\ steps[h + 3].e = e
    BY <2>1 DEF Blob, Unlist, AppendTo
  <2>3. \A k \in DOMAIN steps : (h = 1 /\ k = 1) \/ k = h + 1 \/ k = h + 2 \/ k = h + 3
    BY <2>2
  <2>4. e.ref = job[p].ref /\ e.kind = "index" /\ e.dig = s
    BY DEF Entry, IndexOf
  <2>5. /\ Todo(p) # <<>> /\ Todo(p)[1].do = "index" /\ Todo(p) \in Seq(Plans) /\ Now(p) = Todo(p)[1]
        /\ Todo(p) = job[p].todo /\ Now(p).add \in Seq(Images)
    BY <1>0, AtIs, PlanParts DEF Types
  <2>6. /\ Todo(p)' = steps \o Tail(Todo(p))
        /\ job'[p] = [job[p] EXCEPT !.todo = steps \o Tail(job[p].todo)]
    BY <1>2, <2>1, <2>5, ThenFits DEF Types
  <2>7. job'[p].op = job[p].op /\ job'[p].ref = job[p].ref /\ job'[p].got = job[p].got
    BY <2>6, JobKeeps
  <2>8. CASE ~PullIs(p)
    BY <2>7, <2>8, OtherPulls
  <2>9. CASE PullIs(p)
    <3>1. Merging(Todo(p), job[p].got.dig)
      <4>1. Pulling(p)
        BY <2>9 DEF ListedAt
      <4> QED BY <2>5, <4>1, PullingIs DEF Leading, Rest
    <3>2. Now(p).add = job[p].got.dig
      BY <2>5, <3>1 DEF Merging
    <3>3. OneEach(Now(p).add)
      <4>1. EachStep(Todo(p)) /\ 1 \in DOMAIN Todo(p)
        BY <2>5, EachParts, HeadIn DEF JobEach
      <4> QED BY <2>5, <4>1 DEF EachStep
    <3>4. ToSet(Now(p).add) \subseteq ToSet(s)
      <4>1. CASE s = Now(p).add
        BY <4>1
      <4>2. CASE OfKind(root.es, job[p].ref, "index") # {} /\ s # Now(p).add
        <5> DEFINE old == root.es[First(OfKind(root.es, job[p].ref, "index"))].dig
        <5>1. /\ old \in Seq(Images) /\ s \in Merged(old, Now(p).add)
              /\ \A i \in ToSet(Now(p).add) : PlatOf[i] # NoPlat
          BY <1>2, <4>2 DEF Puts
        <5> HIDE DEF old
        <5> QED BY <2>5, <3>3, <5>1, MergedAll
      <4> QED BY <1>2, <4>1, <4>2 DEF Puts
    <3> DEFINE k == Len(steps)
    <3>5. k \in DOMAIN steps /\ k = h + 3
      BY <2>2
    <3> HIDE DEF e, k
    <3>6. /\ steps[k].do = "append" /\ steps[k].e.ref = job[p].ref /\ steps[k].e.kind = "index"
          /\ ToSet(job[p].got.dig) \subseteq ToSet(steps[k].e.dig)
      BY <2>2, <2>4, <3>2, <3>4, <3>5
    <3>7. \A j \in DOMAIN steps : j # k => steps[j].do \in Leading
      BY <2>2, <2>3, <3>5 DEF Leading
    <3> DEFINE u == steps \o Tail(Todo(p))
    <3>8. \E j \in DOMAIN u : Appending(u, job[p].ref, job[p].got.dig, j)
      BY <2>1, <2>5, <3>1, <3>5, <3>6, <3>7, MergingMoves DEF k
    <3>9. Todo(p)' = u
      BY <2>6
    <3> HIDE DEF u
    <3> QED BY <2>7, <3>8, <3>9 DEF Pulling, ListedAt
  <2> QED BY <2>8, <2>9
<1> QED BY <1>1, <1>2, IndexWriteDoes

LEMMA ListedPulls ==
  ASSUME Types, NEW p \in Procs, ListedAt(p), Look(p) \/ Fetch(p) \/ Validate(p) \/ Finish(p)
  PROVE  ListedAt(p)'
<1>0. UNCHANGED root
  BY DEF Look, Fetch, Validate, Finish, disk
<1>1. PICK what \in {"look", "fetch", "validate", "return"} :
        /\ At(p, what) /\ (what = "look" <=> Look(p)) /\ (what = "fetch" <=> Fetch(p))
        /\ (what = "validate" <=> Validate(p)) /\ (what = "return" <=> Finish(p))
  <2>1. /\ Look(p) => At(p, "look")
        /\ Fetch(p) => At(p, "fetch")
        /\ Validate(p) => At(p, "validate")
        /\ Finish(p) => At(p, "return")
    BY Zenon DEF Look, Fetch, Validate, Finish
  <2>2. \A v, w : At(p, v) /\ At(p, w) => v = w
    BY AtHead DEF Types
  <2>3. /\ Look(p) => ~Fetch(p) /\ ~Validate(p) /\ ~Finish(p)
        /\ Fetch(p) => ~Validate(p) /\ ~Finish(p)
        /\ Validate(p) => ~Finish(p)
    BY <2>1, <2>2
  <2> QED BY <2>1, <2>3
<1>2. Todo(p) # <<>> /\ Todo(p)[1].do = what
  BY <1>1, AtIs DEF Types
<1>3. ASSUME NEW ok \in BOOLEAN, Return(p, ok)
      PROVE  /\ Todo(p)' = <<>> /\ job'[p].op = job[p].op /\ job'[p].ref = job[p].ref
             /\ job'[p].got = job[p].got /\ job'[p].ok = ok
  <2>1. Todo(p)' = <<>> /\ job'[p] = [job[p] EXCEPT !.todo = <<>>, !.ok = ok]
    BY <1>3, ReturnFits DEF Types
  <2> DEFINE e == <<>>
  <2>2. job'[p] = [job[p] EXCEPT !.todo = e, !.ok = ok]
    BY <2>1
  <2> HIDE DEF e
  <2>3. \E v, b : job'[p] = [job[p] EXCEPT !.todo = v, !.ok = b]
    BY <2>2
  <2>4. job'[p].ok = ok
    BY <2>2, TodoIs, JobIs
  <2> QED BY <2>1, <2>3, <2>4, JobKeeps
<1>4. CASE Look(p)
  <2>1. CASE PullIs(p)
    <3>1. Pulling(p) /\ what = "look"
      BY <1>1, <1>4, <2>1 DEF ListedAt
    <3> QED BY <1>2, <3>1, PullingIs DEF Leading, Rest
  <2>2. CASE ~PullIs(p)
    <3> DEFINE e == <<>>
    <3>1. CASE Return(p, TRUE)
      BY <1>3, <2>2, <3>1, OtherPulls
    <3>2. CASE Then(p, <<>>)
      <4>1. job'[p] = [job[p] EXCEPT !.todo = <<>> \o Tail(job[p].todo)]
        BY <1>2, <3>2, StepDone DEF Types
      <4> DEFINE v == <<>> \o Tail(job[p].todo)
      <4>2. job'[p] = [job[p] EXCEPT !.todo = v]
        BY <4>1
      <4> HIDE DEF v
      <4>3. \E w : job'[p] = [job[p] EXCEPT !.todo = w]
        BY <4>2
      <4> QED BY <2>2, <4>3, JobKeeps, OtherPulls
    <3> QED BY <1>4, <3>1, <3>2 DEF Look
  <2> QED BY <2>1, <2>2
<1>5. CASE Finish(p)
  <2>1. Return(p, TRUE) /\ what = "return"
    BY <1>1, <1>5 DEF Finish
  <2>2. ~PullIs(p)
    <3>1. PullIs(p) => Pulling(p)
      BY DEF ListedAt
    <3> QED BY <1>2, <2>1, <3>1, PullingIs DEF Leading, Rest
  <2> QED BY <1>3, <2>1, <2>2, OtherPulls
<1>6. CASE Validate(p)
  <2> DEFINE ok == Valid(job[p].ref, job[p].arch)
  <2>1. ok \in BOOLEAN /\ Return(p, ok) /\ what = "validate"
    BY <1>1, <1>6, ValidIsBoolean DEF Validate
  <2> HIDE DEF ok
  <2>2. /\ Todo(p)' = <<>> /\ job'[p].op = job[p].op /\ job'[p].ref = job[p].ref
        /\ job'[p].got = job[p].got /\ job'[p].ok = ok
    BY <1>3, <2>1
  <2>3. CASE ~PullIs(p)
    BY <2>2, <2>3, OtherPulls
  <2>4. CASE PullIs(p)
    <3>1. Pulling(p)
      BY <2>4 DEF ListedAt
    <3>2. Appended(Todo(p), Coming(p), job[p].ref, job[p].got.dig)
      BY <1>2, <2>1, <3>1, PullingIs DEF Leading
    <3>3. Lists(Coming(p), job[p].ref, job[p].got.dig)
      BY <3>2 DEF Appended
    <3>4. Coming(p) = root.es /\ Coming(p)' = root'.es
      BY <1>2, <2>1, <2>2, ComingIs, ComingNext
    <3> DEFINE e == <<>>
    <3>5. Appended(e, Coming(p)', job'[p].ref, job'[p].got.dig)
      <4>1. \A j \in DOMAIN e : e[j].do \in Rest
        OBVIOUS
      <4> HIDE DEF e
      <4> QED BY <1>0, <2>2, <3>3, <3>4, <4>1 DEF Appended
    <3>6. Todo(p)' = e
      BY <2>2
    <3> HIDE DEF e
    <3> QED BY <3>5, <3>6 DEF Pulling, ListedAt
  <2> QED BY <2>3, <2>4
<1>7. CASE Fetch(p)
  <2>0. job[p].op = "pull" /\ job[p].ref \in Refs
    BY <1>7, FetchDoes
  <2>1. CASE Fail(p)
    BY <2>1, PullingFails DEF ListedAt, Fail
  <2> DEFINE c == remote[job[p].ref]
             u == Answered(p, c)
  <2>2. CASE /\ c \in Contents /\ ContentFits(c, job[p].ref[1])
             /\ Todo(p)' = u
             /\ job'[p] = [job[p] EXCEPT !.todo = u, !.got = c]
    <3>1. job'[p].got = c /\ job'[p].ref = job[p].ref
      <4> HIDE DEF c, u
      <4> QED BY <2>2, TodoIs, JobIs
    <3>2. CASE c.kind = "index"
      <4> DEFINE s == c.dig
      <4>1. s \in Seq(Images) /\ c = IndexOf(s) /\ Fits(s, job[p].ref[1])
        BY <2>2, <3>2, ContentParts DEF ContentFits
      <4>2. IndexSteps(u, s, job[p].arch, job[p].ref[1])
        <5>1. u = Answered(p, IndexOf(s))
          BY <4>1
        <5>2. IndexSteps(Answered(p, IndexOf(s)), s, job[p].arch, job[p].ref[1])
          BY <2>0, <4>1, AnsweredIndex
        <5> QED BY <5>1, <5>2
      <4> HIDE DEF u, c
      <4>3. /\ u[1].do = "index" /\ u[1].add = s /\ DOMAIN u = 1..Len(u) /\ Len(u) \in Nat /\ Len(u) > 1
            /\ u \in Seq(Plans)
        BY <4>2 DEF IndexSteps
      <4>4. \A j \in DOMAIN u : j > 1 => u[j].do \in Rest
        <5>1. \A k \in 2..(Len(u) - 1) : u[k].do = "blob"
          BY <4>2 DEF IndexSteps, Blob
        <5>2. u[Len(u)].do = "validate"
          BY <4>2 DEF IndexSteps, Do
        <5> QED BY <4>3, <5>1, <5>2 DEF Rest
      <4>5. u # <<>>
        BY <4>3
      <4>6. Merging(u, s)
        BY <4>3, <4>4, <4>5 DEF Merging
      <4>7. Merging(Todo(p)', job'[p].got.dig)
        BY <2>2, <3>1, <4>6
      <4> QED BY <4>7 DEF Pulling, ListedAt
    <3>3. CASE c.kind # "index"
      BY <3>1, <3>3 DEF ListedAt, PullIs
    <3> QED BY <3>2, <3>3
  <2> QED BY <1>7, <2>1, <2>2, FetchDoes
<1> QED BY <1>4, <1>5, <1>6, <1>7

LEMMA ListedOthers ==
  ASSUME Types, NEW p \in Procs, ListedAt(p),
         Clean(p) \/ Push(p) \/ PushTag(p) \/ PushManifest(p) \/ Abort(p)
  PROVE  ListedAt(p)'
<1>1. CASE Abort(p)
  BY <1>1, PullingFails DEF ListedAt, Abort, Fail
<1>2. CASE ~Abort(p)
  <2>1. job[p].op # "pull"
    <3>1. PICK what \in {"clean", "push", "tag", "manifest"} : At(p, what)
      BY <1>2 DEF Clean, Push, PushTag, PushManifest
    <3>2. what \in DoneBy(job[p].op)
      BY <3>1, AtIs DEF Types
    <3> QED BY <3>2 DEF DoneBy
  <2>2. job'[p].op = job[p].op
    <3>1. CASE \E v : job'[p] = [job[p] EXCEPT !.todo = v]
      BY <3>1, JobKeeps
    <3>2. CASE \E v, b : job'[p] = [job[p] EXCEPT !.todo = v, !.ok = b]
      BY <3>2, JobKeeps
    <3>3. ASSUME NEW ok \in BOOLEAN, Return(p, ok) PROVE \E v, b : job'[p] = [job[p] EXCEPT !.todo = v, !.ok = b]
      <4> DEFINE e == <<>>
      <4>1. job'[p] = [job[p] EXCEPT !.todo = e, !.ok = ok]
        BY <3>3, ReturnFits DEF Types
      <4> HIDE DEF e
      <4> QED BY <4>1
    <3>4. CASE Clean(p)
      BY <3>2, <3>3, <3>4 DEF Clean
    <3>5. CASE Push(p)
      <4> DEFINE u == Sends(p) \o <<Do("manifest")>>
      <4>1. Return(p, FALSE) \/ Return(p, TRUE) \/ job'[p] = [job[p] EXCEPT !.todo = u]
        BY <3>5, PushDoes DEF Fail
      <4> HIDE DEF u
      <4> QED BY <3>1, <3>2, <3>3, <4>1
    <3>6. CASE PushTag(p)
      <4> DEFINE t == Tag(job[p].ref[1], PlatOf[Now(p).i].arch)
                 u == <<AppendTo(Entry(t, ImageOf(Now(p).i))), [Now(p) EXCEPT !.again = TRUE]>> \o Tail(job[p].todo)
                 v == <<>> \o Tail(job[p].todo)
      <4>1. Return(p, FALSE) \/ job'[p] = [job[p] EXCEPT !.todo = u] \/ job'[p] = [job[p] EXCEPT !.todo = v]
        BY <3>6, PushTagDoes DEF Fail
      <4> HIDE DEF u, v
      <4> QED BY <3>1, <3>2, <3>3, <4>1
    <3>7. CASE PushManifest(p)
      <4>1. Return(p, FALSE) \/ Return(p, TRUE)
        BY <3>7, PushManifestDoes DEF Fail
      <4> QED BY <3>2, <3>3, <4>1
    <3> QED BY <1>2, <3>4, <3>5, <3>6, <3>7
  <2> QED BY <2>1, <2>2 DEF ListedAt, PullIs
<1> QED BY <1>1, <1>2

LEMMA ListedInit == Init => ListedInv
<1> SUFFICES ASSUME Init PROVE ListedInv
  OBVIOUS
<1>1. \A p \in Procs : job[p].got = Nothing
  BY DEF Init, Idle
<1>2. Nothing.kind # "index"
  BY DEF Nothing
<1> QED BY <1>1, <1>2 DEF ListedInv

\* What a pull has merged it goes on to list, until it is listed or the pull has failed.
LEMMA ListedNext ==
  ASSUME OneProcess, Types, EachInv, ListedInv, [Next]_vars
  PROVE  ListedInv'
<1>0. ListedInv <=> \A p \in Procs : ListedAt(p)
  BY DEF ListedInv, ListedAt, PullIs
<1>1. ListedInv' <=> \A p \in Procs : ListedAt(p)'
  BY DEF ListedInv, ListedAt, PullIs
<1>2. CASE job' = job /\ root' = root
  <2>1. ASSUME NEW p \in Procs, ListedAt(p) PROVE ListedAt(p)'
    <3>1. Todo(p)' = Todo(p) /\ Coming(p)' = Coming(p)
      BY <1>2 DEF Todo, Coming, Writing
    <3> QED BY <1>2, <2>1, <3>1 DEF ListedAt, PullIs, Pulling
  <2> QED BY <1>0, <1>1, <2>1
<1>3. CASE UNCHANGED vars
  BY <1>2, <1>3 DEF vars, disk
<1>4. CASE Publish
  BY <1>2, <1>4, Types_Publish DEF disk
<1>5. ASSUME NEW p \in Procs, Step(p) PROVE ListedInv'
  <2>1. ListedAt(p)
    BY <1>0
  <2>2. ListedAt(p)'
    BY <1>5, <2>1, ListedBegins, ListedOthers, ListedWrites, ListedBlobs, ListedEdits, ListedIndex, ListedPulls DEF Step
  <2>3. \A q \in Procs : q = p
    BY DEF OneProcess
  <2> QED BY <1>1, <2>2, <2>3
<1> QED BY <1>3, <1>4, <1>5 DEF Next

\* A pull of an index that succeeds has listed every image of it, although it merges the
\* index into one that other commands have left there, as long as one oskit works on the
\* cache at a time and an index has one manifest for an architecture.
THEOREM PulledListed ==
  ASSUME OneProcess, OneVariant
  PROVE  Spec => []PulledIsListed
<1> DEFINE Inv == Types /\ UniqueInv /\ EachInv /\ ListedInv
<1>1. Init => Inv
  BY TypesInit, UniqueInit, EachInit, ListedInit
<1>2. Inv /\ [Next]_vars => Inv'
  BY TypesStep, UniqueStep, EachNext, ListedNext
<1>3. Inv => PulledIsListed
  <2> SUFFICES ASSUME Inv, NEW p \in Procs, Pulled(p), job[p].ok, job[p].got.kind = "index",
                      FindRoot(job[p].ref).kind = "index"
               PROVE  ToSet(job[p].got.dig) \subseteq ToSet(FindRoot(job[p].ref).dig)
    BY DEF PulledIsListed
  <2> DEFINE r == job[p].ref
             s == job[p].got.dig
  <2>1. Pulling(p) /\ Todo(p) = <<>> /\ Coming(p) = root.es /\ job[p].op = "pull"
    BY ComingIs DEF Pulled, ListedInv
  <2>2. Appended(Todo(p), Coming(p), r, s)
    <3>1. \A k : k \notin DOMAIN Todo(p)
      BY <2>1
    <3> QED BY <2>1, <3>1 DEF Pulling, Merging
  <2>3. PICK j \in Named(root.es, r) : root.es[j].kind = "index" /\ ToSet(s) \subseteq ToSet(root.es[j].dig)
    BY <2>1, <2>2 DEF Appended, Lists
  <2>4. FindRoot(r) # Nothing
    BY DEF Nothing
  <2>5. PICK h \in DOMAIN root.es : root.es[h].ref = r /\ root.es[h].dig = FindRoot(r).dig
    BY <2>4, FindRootIs DEF Types
  <2>6. h \in Named(root.es, r)
    BY <2>5 DEF Named
  <2>7. \E n \in Names : r = Ref(n)
    BY <2>1, TodoIs DEF JobFits, Ordered
  <2>8. h = j
    BY <2>3, <2>6, <2>7 DEF UniqueInv, Unique
  <2> QED BY <2>3, <2>5, <2>8
<1> QED BY <1>1, <1>2, <1>3, PTL DEF Spec

(***************************************************************************)
(* What a push publishes                                                   *)
(***************************************************************************)
OnlyImages(t) == \A j \in DOMAIN t : t[j].do = "append" => t[j].e.kind = "image"
PushedAt(p) == job[p].op = "push" => OnlyImages(Todo(p)) /\ (Manifested(Todo(p)) => Covering(p))

LEMMA ComingListing ==
  ASSUME Types, NEW p \in Procs
  PROVE  Coming(p) \in Seq(Listing)
<1>1. job[p] \in Jobs /\ root.es \in Seq(Listing)
  BY RootEntries, TodoIs DEF Types
<1> QED BY <1>1 DEF Coming, Jobs

\* What is still ahead when the head is replaced.
LEMMA AheadMoves ==
  ASSUME NEW t \in Seq(Plans), t # <<>>, NEW steps \in Seq(Plans)
  PROVE  /\ \A i : TagAhead(steps \o Tail(t), i) => TagAhead(t, i) \/ TagAhead(steps, i)
         /\ \A i : TagAhead(steps, i) => TagAhead(steps \o Tail(t), i)
         /\ \A i : TagAhead(t, i) => (t[1].do = "tag" /\ t[1].i = i) \/ TagAhead(steps \o Tail(t), i)
         /\ Manifested(steps \o Tail(t)) => Manifested(t) \/ Manifested(steps)
         /\ OnlyImages(t) /\ OnlyImages(steps) => OnlyImages(steps \o Tail(t))
<1> DEFINE u == steps \o Tail(t)
           l == Len(steps)
<1>1. /\ l \in Nat /\ Len(t) \in Nat \ {0}
      /\ DOMAIN steps = 1..l /\ DOMAIN t = 1..Len(t) /\ DOMAIN u = 1..(l + Len(t) - 1)
      /\ \A j \in 1..l : u[j] = steps[j]
      /\ \A j \in 2..Len(t) : u[l + j - 1] = t[j]
      /\ \A j \in 1..(l + Len(t) - 1) :
           IF j <= l THEN u[j] = steps[j] ELSE j - l + 1 \in 2..Len(t) /\ u[j] = t[j - l + 1]
  BY HeadReplaced
<1> HIDE DEF u, l
<1>2. \A j \in DOMAIN u : (j \in DOMAIN steps /\ u[j] = steps[j]) \/ (\E k \in DOMAIN t : u[j] = t[k])
  <2> SUFFICES ASSUME NEW j \in DOMAIN u PROVE (j \in DOMAIN steps /\ u[j] = steps[j]) \/ (\E k \in DOMAIN t : u[j] = t[k])
    OBVIOUS
  <2>1. CASE j <= l
    BY <1>1, <2>1
  <2>2. CASE j > l
    <3>1. j - l + 1 \in DOMAIN t /\ u[j] = t[j - l + 1]
      BY <1>1, <2>2
    <3> QED BY <3>1
  <2> QED BY <1>1, <2>1, <2>2
<1>3. \A j \in DOMAIN steps : j \in DOMAIN u /\ u[j] = steps[j]
  BY <1>1
<1>4. \A k \in DOMAIN t : k = 1 \/ (l + k - 1 \in DOMAIN u /\ u[l + k - 1] = t[k])
  BY <1>1
<1>5. \A i : TagAhead(u, i) => TagAhead(t, i) \/ TagAhead(steps, i)
  BY <1>2 DEF TagAhead
<1>6. \A i : TagAhead(steps, i) => TagAhead(u, i)
  BY <1>3 DEF TagAhead
<1>7. \A i : TagAhead(t, i) => (t[1].do = "tag" /\ t[1].i = i) \/ TagAhead(u, i)
  BY <1>4 DEF TagAhead
<1>8. Manifested(u) => Manifested(t) \/ Manifested(steps)
  BY <1>2 DEF Manifested
<1>9. OnlyImages(t) /\ OnlyImages(steps) => OnlyImages(u)
  BY <1>2 DEF OnlyImages
<1> QED BY <1>5, <1>6, <1>7, <1>8, <1>9 DEF u

\* The command goes on to publish the same images of the same index.
LEMMA CoveringStays ==
  ASSUME Types, NEW p \in Procs, PushedAt(p), job'[p].op = job[p].op, job'[p].ref = job[p].ref,
         OnlyImages(Todo(p)'), Manifested(Todo(p)') => Manifested(Todo(p)),
         \A i : TagAhead(Todo(p)', i) <=> TagAhead(Todo(p), i),
         \A h \in Named(Coming(p)', job[p].ref) : Coming(p)'[h].kind = "index" =>
           h \in Named(Coming(p), job[p].ref) /\ Coming(p)'[h] = Coming(p)[h],
         UNCHANGED full,
         \A i \in Images : PlatOf[i] # NoPlat =>
           remote'[Tag(job[p].ref[1], PlatOf[i].arch)] = remote[Tag(job[p].ref[1], PlatOf[i].arch)]
  PROVE  PushedAt(p)'
<1> SUFFICES ASSUME job[p].op = "push", Manifested(Todo(p)) PROVE Covering(p)'
  BY DEF PushedAt
<1>1. Covering(p)
  BY DEF PushedAt
<1>2. SUFFICES ASSUME NEW h \in Named(Coming(p)', job[p].ref), Coming(p)'[h].kind = "index"
      PROVE  LET s == Coming(p)'[h].dig IN
             /\ \A i \in ToSet(s) : PlatOf[i] # NoPlat /\ Complete(i)' => Tagged(p, i)' \/ TagAhead(Todo(p)', i)
             /\ \A i \in Images : TagAhead(Todo(p)', i) => i \in ToSet(s)
  BY DEF Covering
<1> DEFINE s == Coming(p)[h].dig
<1>3. h \in Named(Coming(p), job[p].ref) /\ Coming(p)'[h] = Coming(p)[h] /\ Coming(p)[h].kind = "index"
  BY <1>2
<1>4. /\ \A i \in ToSet(s) : PlatOf[i] # NoPlat /\ Complete(i) => Tagged(p, i) \/ TagAhead(Todo(p), i)
      /\ \A i \in Images : TagAhead(Todo(p), i) => i \in ToSet(s)
  BY <1>1, <1>3 DEF Covering
<1>5. ToSet(s) \subseteq Images
  <2>1. Coming(p)[h] \in Listing
    BY <1>3, ComingListing DEF Named
  <2>2. s \in Seq(Images)
    BY <1>3, <2>1, ListingParts
  <2> HIDE DEF s
  <2> QED BY <2>2 DEF ToSet
<1>6. \A i : Complete(i)' <=> Complete(i)
  BY DEF Complete
<1>7. \A i \in Images : PlatOf[i] # NoPlat => (Tagged(p, i)' <=> Tagged(p, i))
  BY DEF Tagged
<1> QED BY <1>3, <1>4, <1>5, <1>6, <1>7

\* It writes index.json, in which nothing changes for the push.
LEMMA CoveringMoves ==
  ASSUME Types, NEW p \in Procs, PushedAt(p), Todo(p) # <<>>, Todo(p)[1].do # "tag",
         NEW steps \in Seq(Plans), \A j \in DOMAIN steps : steps[j].do \in {"trunc", "data"},
         Todo(p)' = steps \o Tail(Todo(p)), job'[p].op = job[p].op, job'[p].ref = job[p].ref,
         \A h \in Named(Coming(p)', job[p].ref) : Coming(p)'[h].kind = "index" =>
           h \in Named(Coming(p), job[p].ref) /\ Coming(p)'[h] = Coming(p)[h],
         UNCHANGED <<full, remote>>
  PROVE  PushedAt(p)'
<1> SUFFICES ASSUME job[p].op = "push" PROVE PushedAt(p)'
  BY DEF PushedAt
<1> DEFINE t == Todo(p)
           u == steps \o Tail(t)
<1>1. t \in Seq(Plans) /\ OnlyImages(t)
  BY TodoIs DEF PushedAt
<1>2. OnlyImages(steps) /\ ~Manifested(steps) /\ \A i : ~TagAhead(steps, i)
  BY DEF OnlyImages, Manifested, TagAhead
<1>3. /\ \A i : TagAhead(u, i) <=> TagAhead(t, i)
      /\ Manifested(u) => Manifested(t)
      /\ OnlyImages(u)
  BY <1>1, <1>2, AheadMoves
<1>4. Todo(p)' = u
  OBVIOUS
<1> HIDE DEF u
<1> QED BY <1>3, <1>4, CoveringStays

\* Only the beginning of a command changes what a process does and to which name.
LEMMA OpKeeps ==
  ASSUME Types, NEW p \in Procs,
         \/ Clean(p) \/ InitRoot(p) \/ EditRoot(p) \/ Truncate(p) \/ WriteData(p)
         \/ WriteBlob(p) \/ CopyBlob(p) \/ RemoveBlob(p)
         \/ IndexWrite(p) \/ Look(p) \/ Fetch(p) \/ Validate(p) \/ Finish(p)
         \/ Push(p) \/ PushTag(p) \/ PushManifest(p) \/ Abort(p)
  PROVE  job'[p].op = job[p].op /\ job'[p].ref = job[p].ref
<1> DEFINE Kept == job'[p].op = job[p].op /\ job'[p].ref = job[p].ref
           e == <<>>
           tail == e \o Tail(job[p].todo)
           two == <<Do("trunc"), Do("data")>> \o Tail(job[p].todo)
<1>1. ASSUME NEW v, job'[p] = [job[p] EXCEPT !.todo = v] PROVE Kept
  <2>1. \E w : job'[p] = [job[p] EXCEPT !.todo = w]
    BY <1>1
  <2> QED BY <2>1, JobKeeps
<1>2. ASSUME NEW ok \in BOOLEAN, Return(p, ok) PROVE Kept
  <2>1. job'[p] = [job[p] EXCEPT !.todo = e, !.ok = ok]
    BY <1>2, ReturnFits DEF Types
  <2> HIDE DEF e
  <2>2. \E w, b : job'[p] = [job[p] EXCEPT !.todo = w, !.ok = b]
    BY <2>1
  <2> QED BY <2>2, JobKeeps
<1>3. ASSUME NEW v, NEW b, job'[p] = [job[p] EXCEPT !.todo = v, !.buf = b] PROVE Kept
  <2>1. \E w, c : job'[p] = [job[p] EXCEPT !.todo = w, !.buf = c]
    BY <1>3
  <2> QED BY <2>1, JobKeeps
<1> HIDE DEF Kept
<1>4. CASE Clean(p)
  <2>1. UNCHANGED job \/ Return(p, TRUE)
    BY <1>4 DEF Clean
  <2> QED BY <1>2, <2>1 DEF Kept
<1>5. CASE InitRoot(p)
  <2>1. job'[p] = [job[p] EXCEPT !.todo = two, !.buf = e]
    BY <1>5, Types_InitRoot
  <2> HIDE DEF two, e
  <2> QED BY <1>3, <2>1 DEF Kept
<1>6. CASE EditRoot(p)
  <2>1. Return(p, FALSE) \/ job'[p] = [job[p] EXCEPT !.todo = two, !.buf = Edited(p)]
    BY <1>6, Types_EditRoot DEF EditRoot, Fail
  <2> HIDE DEF two
  <2> QED BY <1>2, <1>3, <2>1 DEF Kept
<1>7. CASE Truncate(p) \/ WriteData(p) \/ CopyBlob(p) \/ RemoveBlob(p)
  <2>1. job'[p] = [job[p] EXCEPT !.todo = tail]
    BY <1>7, Types_Truncate, Types_WriteData, Types_CopyBlob, Types_RemoveBlob
  <2> HIDE DEF tail
  <2> QED BY <1>1, <2>1 DEF Kept
<1>8. CASE WriteBlob(p)
  <2> DEFINE s == IF Present(Now(p).d) THEN <<>> ELSE <<[do |-> "copy", d |-> Now(p).d]>>
             v == s \o Tail(job[p].todo)
  <2>1. job'[p] = [job[p] EXCEPT !.todo = v]
    BY <1>8, Types_WriteBlob
  <2> HIDE DEF v
  <2> QED BY <1>1, <2>1 DEF Kept
<1>9. CASE IndexWrite(p)
  <2>0. Todo(p) # <<>> /\ At(p, "index")
    BY <1>9 DEF IndexWrite, At
  <2>1. ASSUME NEW s, NEW steps, Puts(p, job[p].ref, s, steps), Then(p, steps) PROVE Kept
    <3>1. steps \in Seq(Plans) /\ Fresh(steps, job[p])
      BY <2>0, <2>1, PutsAre
    <3> DEFINE v == steps \o Tail(job[p].todo)
    <3>2. job'[p] = [job[p] EXCEPT !.todo = v]
      BY <2>0, <2>1, <3>1, ThenFits DEF Types
    <3> HIDE DEF v
    <3> QED BY <1>1, <3>2
  <2>2. CASE Return(p, FALSE)
    BY <1>2, <2>2 DEF Kept
  <2>3. Return(p, FALSE) \/ \E s, steps : Puts(p, job[p].ref, s, steps) /\ Then(p, steps)
    BY <1>9, IndexWriteDoes DEF Fail
  <2> QED BY <2>1, <2>2, <2>3 DEF Kept
<1>10. CASE Look(p)
  <2>1. Todo(p) # <<>>
    BY <1>10 DEF Look, At
  <2>2. CASE Then(p, <<>>)
    <3>1. job'[p] = [job[p] EXCEPT !.todo = tail]
      BY <2>1, <2>2, StepDone DEF Types
    <3> HIDE DEF tail
    <3> QED BY <1>1, <3>1 DEF Kept
  <2>3. CASE Return(p, TRUE)
    BY <1>2, <2>3 DEF Kept
  <2> QED BY <1>10, <2>2, <2>3 DEF Look
<1>11. CASE Fetch(p)
  <2>1. CASE Fail(p)
    BY <1>2, <2>1 DEF Fail, Kept
  <2>2. CASE job'[p] = [job[p] EXCEPT !.todo = Answered(p, remote[job[p].ref]), !.got = remote[job[p].ref]]
    <3> DEFINE v == Answered(p, remote[job[p].ref])
               c == remote[job[p].ref]
    <3>1. job'[p] = [job[p] EXCEPT !.todo = v, !.got = c]
      BY <2>2
    <3> HIDE DEF v, c
    <3> QED BY <3>1, TodoIs, JobIs
  <2> QED BY <1>11, <2>1, <2>2, FetchDoes
<1>12. CASE Validate(p) \/ Finish(p)
  <2>1. Return(p, Valid(job[p].ref, job[p].arch)) \/ Return(p, TRUE)
    BY <1>12 DEF Validate, Finish
  <2> QED BY <1>2, <2>1, ValidIsBoolean DEF Kept
<1>13. CASE Push(p)
  <2> DEFINE u == Sends(p) \o <<Do("manifest")>>
  <2>1. Return(p, FALSE) \/ Return(p, TRUE) \/ job'[p] = [job[p] EXCEPT !.todo = u]
    BY <1>13, PushDoes DEF Fail
  <2> HIDE DEF u
  <2> QED BY <1>1, <1>2, <2>1 DEF Kept
<1>14. CASE PushTag(p)
  <2> DEFINE t == Tag(job[p].ref[1], PlatOf[Now(p).i].arch)
             u == <<AppendTo(Entry(t, ImageOf(Now(p).i))), [Now(p) EXCEPT !.again = TRUE]>> \o Tail(job[p].todo)
  <2>1. Return(p, FALSE) \/ job'[p] = [job[p] EXCEPT !.todo = u] \/ job'[p] = [job[p] EXCEPT !.todo = tail]
    BY <1>14, PushTagDoes DEF Fail
  <2> HIDE DEF u, tail
  <2> QED BY <1>1, <1>2, <2>1 DEF Kept
<1>15. CASE PushManifest(p) \/ Abort(p)
  <2>1. Return(p, FALSE) \/ Return(p, TRUE)
    BY <1>15, PushManifestDoes DEF Fail, Abort
  <2> QED BY <1>2, <2>1 DEF Kept
<1> QED
  BY <1>4, <1>5, <1>6, <1>7, <1>8, <1>9, <1>10, <1>11, <1>12, <1>13, <1>14, <1>15

LEMMA PushedBegins ==
  ASSUME Types, NEW p \in Procs,
         \/ BeginPull(p) \/ BeginLoad(p) \/ BeginIndexWrite(p) \/ BeginDescriptorWrite(p) \/ BeginPush(p)
         \/ BeginClean(p)
  PROVE  PushedAt(p)'
<1>1. CASE BeginClean(p)
  <2>1. job'[p].op = "clean"
    BY <1>1, CleanBegins DEF Idle
  <2> QED BY <2>1 DEF PushedAt
<1>2. CASE ~BeginClean(p)
  <2>1. \E steps \in Seq(Plans) : Todo(p)' = FirstSteps(steps) /\ \A k \in DOMAIN steps : Begun(steps[k])
    BY <1>2, BeginsDo DEF BeginsWith
  <2>2. PICK steps \in Seq(Plans) : Todo(p)' = FirstSteps(steps) /\ \A k \in DOMAIN steps : Begun(steps[k])
    BY <2>1
  <2> DEFINE u == FirstSteps(steps)
  <2>3. \A k \in DOMAIN u : u[k] = Do("init") \/ Begun(u[k])
    BY <2>2, FirstStepsAre
  <2>4. Todo(p)' = u
    BY <2>2
  <2> HIDE DEF u
  <2>5. OnlyImages(u) /\ ~Manifested(u)
    BY <2>3 DEF OnlyImages, Manifested, Begun, Do
  <2> QED BY <2>4, <2>5 DEF PushedAt
<1> QED BY <1>1, <1>2

\* Commands other than pushes.
LEMMA PushedOthers ==
  ASSUME Types, NEW p \in Procs,
         \/ Clean(p) \/ WriteBlob(p) \/ CopyBlob(p) \/ RemoveBlob(p)
         \/ IndexWrite(p) \/ Look(p) \/ Fetch(p) \/ Validate(p) \/ Finish(p)
  PROVE  PushedAt(p)'
<1>1. PICK what \in {"clean", "blob", "copy", "rm", "index", "look", "fetch", "validate", "return"} : At(p, what)
  BY Zenon DEF Clean, WriteBlob, CopyBlob, RemoveBlob, IndexWrite, Look, Fetch, Validate, Finish
<1>2. what \in DoneBy(job[p].op)
  BY <1>1, AtIs DEF Types
<1>3. job[p].op # "push"
  BY <1>2 DEF DoneBy
<1>4. job'[p].op = job[p].op
  BY OpKeeps
<1> QED BY <1>3, <1>4 DEF PushedAt

\* A command that has ended has nothing ahead.
LEMMA PushedEnds ==
  ASSUME NEW p \in Procs, Todo(p)' = <<>>
  PROVE  PushedAt(p)'
<1> DEFINE e == <<>>
<1>1. OnlyImages(e) /\ ~Manifested(e)
  BY DEF OnlyImages, Manifested
<1>2. Todo(p)' = e
  OBVIOUS
<1> HIDE DEF e
<1> QED BY <1>1, <1>2 DEF PushedAt

LEMMA PushedWrites ==
  ASSUME Types, NEW p \in Procs, PushedAt(p),
         InitRoot(p) \/ EditRoot(p) \/ Truncate(p) \/ WriteData(p)
  PROVE  PushedAt(p)'
<1> SUFFICES ASSUME job[p].op = "push" PROVE PushedAt(p)'
  BY OpKeeps DEF PushedAt
<1>1. PICK what \in {"init", "remove", "append", "replace", "trunc", "data"} : At(p, what)
  BY DEF InitRoot, EditRoot, Truncate, WriteData
<1>2. /\ Todo(p) # <<>> /\ Todo(p)[1].do = what /\ Now(p) = Todo(p)[1] /\ Now(p) \in Plans
      /\ Todo(p) = job[p].todo /\ Todo(p) \in Seq(Plans) /\ what \in DoneBy("push")
      /\ StepFits(Now(p), job[p].ref[1])
  BY <1>1, AtIs DEF Types
<1>3. what \in {"init", "append", "trunc", "data"}
  BY <1>2 DEF DoneBy
<1>4. job'[p].op = job[p].op /\ job'[p].ref = job[p].ref /\ UNCHANGED <<full, remote>>
  BY OpKeeps DEF InitRoot, EditRoot, Truncate, WriteData, disk
<1> DEFINE two == <<Do("trunc"), Do("data")>>
<1>5. /\ two \in Seq(Plans) /\ Len(two) = 2 /\ two[1].do = "trunc" /\ two[2].do = "data"
      /\ DOMAIN two = 1..2
  <2>1. Do("trunc") \in Plans /\ Do("data") \in Plans
    BY PlansAre
  <2>2. two \in Seq(Plans)
    BY <2>1
  <2> QED BY <2>2 DEF Do
<1> HIDE DEF two
<1> DEFINE u == two \o Tail(Todo(p))
<1>6. u # <<>> /\ u[1].do = "trunc"
  <2>0. /\ DOMAIN u = 1..(Len(two) + Len(Todo(p)) - 1) /\ Len(Todo(p)) \in Nat \ {0}
        /\ \A k \in 1..Len(two) : u[k] = two[k]
    BY <1>2, <1>5, HeadReplaced
  <2> HIDE DEF u
  <2>1. 1 \in DOMAIN u /\ u[1] = two[1]
    BY <1>5, <2>0
  <2> QED BY <1>5, <2>1
<1> HIDE DEF u
<1>7. ASSUME NEW new, Todo(p)' = u, job'[p].buf = new,
             Todo(p)[1].do \notin {"trunc", "data"},
             \A h \in Named(new, job[p].ref) : new[h].kind = "index" =>
               h \in Named(root.es, job[p].ref) /\ new[h] = root.es[h]
      PROVE  PushedAt(p)'
  <2>1. Coming(p)' = new /\ Coming(p) = root.es
    BY <1>2, <1>6, <1>7, ComingNext, ComingIs
  <2>2. \A j \in DOMAIN two : two[j].do \in {"trunc", "data"}
    BY <1>5
  <2> QED BY <1>2, <1>3, <1>4, <1>5, <1>7, <2>1, <2>2, CoveringMoves, ZenonT(60) DEF u
<1>8. CASE InitRoot(p)
  <2>1. Todo(p)' = u /\ job'[p] = [job[p] EXCEPT !.todo = two \o Tail(job[p].todo), !.buf = <<>>]
    BY <1>8, Types_InitRoot DEF u, two
  <2> DEFINE e == <<>>
  <2>2. job'[p].buf = e
    BY <2>1, TodoIs, JobIs
  <2>3. Named(e, job[p].ref) = {}
    BY DEF Named
  <2> HIDE DEF e
  <2>4. Todo(p)[1].do = "init"
    BY <1>8, AtIs DEF InitRoot, Types
  <2> QED BY <1>7, <2>1, <2>2, <2>3, <2>4
<1>9. CASE EditRoot(p)
  <2>1. CASE Return(p, FALSE)
    <3>1. Todo(p)' = <<>>
      BY <2>1, ReturnFits DEF Types
    <3> QED BY <3>1, PushedEnds
  <2>2. CASE /\ Todo(p)' = <<Do("trunc"), Do("data")>> \o Tail(Todo(p))
             /\ job'[p] = [job[p] EXCEPT !.todo = <<Do("trunc"), Do("data")>> \o Tail(job[p].todo), !.buf = Edited(p)]
    <3>0. Todo(p)' = u /\ job'[p] = [job[p] EXCEPT !.todo = two \o Tail(job[p].todo), !.buf = Edited(p)]
      BY <2>2 DEF u, two
    <3>1. job'[p].buf = Edited(p)
      BY <3>0, TodoIs, JobIs
    <3>2. what = "append" /\ At(p, "append") /\ ~At(p, "remove") /\ ~At(p, "replace")
      BY <1>1, <1>2, <1>3, <1>9, AtHead DEF EditRoot, Types
    <3>3. Edited(p) = Append(root.es, Now(p).e)
      BY <3>2 DEF Edited
    <3>4. Now(p).e \in Listing /\ Now(p).e.kind = "image"
      <4>1. Now(p).e \in Listing
        BY <1>2, <3>2, PlanParts
      <4>2. 1 \in DOMAIN Todo(p) /\ OnlyImages(Todo(p))
        BY <1>2, HeadIn DEF PushedAt
      <4> QED BY <1>2, <3>2, <4>1, <4>2 DEF OnlyImages
    <3>5. \A h \in Named(Edited(p), job[p].ref) : Edited(p)[h].kind = "index" =>
               h \in Named(root.es, job[p].ref) /\ Edited(p)[h] = root.es[h]
      <4> DEFINE L == Listing
                 es == root.es
                 e == Now(p).e
                 m == Append(es, e)
      <4>1. es \in Seq(L) /\ e \in L
        BY <3>4, RootEntries DEF Types
      <4> HIDE DEF L
      <4>2. /\ DOMAIN es = 1..Len(es) /\ DOMAIN m = 1..(Len(es) + 1) /\ Len(es) \in Nat
            /\ m[Len(es) + 1] = e /\ \A k \in 1..Len(es) : m[k] = es[k]
        BY <4>1
      <4> HIDE DEF m
      <4>3. \A k \in DOMAIN m : k = Len(es) + 1 \/ (k \in DOMAIN es /\ m[k] = es[k])
        BY <4>2
      <4>4. \A h \in Named(m, job[p].ref) : m[h].kind = "index" => h \in Named(es, job[p].ref) /\ m[h] = es[h]
        BY <3>4, <4>2, <4>3 DEF Named
      <4> QED BY <3>3, <4>4 DEF m
    <3>6. Todo(p)[1].do \notin {"trunc", "data"}
      BY <1>2, <3>2
    <3> QED BY <1>7, <3>0, <3>1, <3>5, <3>6
  <2> QED BY <1>9, <2>1, <2>2, Types_EditRoot DEF EditRoot, Fail
<1>10. CASE Truncate(p) \/ WriteData(p)
  <2> DEFINE e == <<>>
  <2>1. /\ e \in Seq(Plans) /\ \A j \in DOMAIN e : e[j].do \in {"trunc", "data"}
        /\ Todo(p)' = e \o Tail(Todo(p))
    <3>1. e \in Seq(Plans) /\ DOMAIN e = {}
      BY FreshNone
    <3>2. Todo(p)' = e \o Tail(Todo(p))
      BY <1>10, Types_Truncate, Types_WriteData
    <3> HIDE DEF e
    <3> QED BY <3>1, <3>2
  <2> HIDE DEF e
  <2>2. Coming(p)' = Coming(p)
    BY <1>10, ComingWrites
  <2>3. Todo(p)[1].do # "tag"
    BY <1>2
  <2> QED BY <1>2, <1>4, <2>1, <2>2, <2>3, CoveringMoves
<1> QED BY <1>8, <1>9, <1>10

\* A push has found the index that it is to cover.
LEMMA PushedPush ==
  ASSUME Types, UniqueInv, NEW p \in Procs, Push(p)
  PROVE  PushedAt(p)'
<1> DEFINE r == job[p].ref
           c == FindRoot(r)
           u == Sends(p) \o <<Do("manifest")>>
<1>0. At(p, "push") /\ UNCHANGED <<root, full>>
  BY DEF Push, disk
<1>1. job[p].op = "push" /\ r \in Refs /\ r = Ref(r[1]) /\ job'[p].ref = r
  BY PushDoes, OpKeeps
<1>2. CASE Fail(p) \/ Return(p, TRUE)
  <2>1. Todo(p)' = <<>>
    BY <1>2, ReturnFits DEF Fail, Types
  <2> QED BY <2>1, PushedEnds
<1>3. CASE c \in Contents /\ ContentFits(c, r[1]) /\ Todo(p)' = u
  <2>1. /\ Len(Sends(p)) \in Nat
        /\ DOMAIN u = 1..(Len(Sends(p)) + 1) /\ u[Len(Sends(p)) + 1] = Do("manifest")
        /\ \A k \in 1..Len(Sends(p)) : u[k] = Sends(p)[k]
        /\ DOMAIN Sends(p) = DOMAIN Sent(p) /\ DOMAIN Sends(p) = 1..Len(Sends(p))
        /\ \A j \in DOMAIN Sent(p) : Sends(p)[j].do = "tag" /\ Sends(p)[j].i = Sent(p)[j]
    BY <1>0, <1>3, SendsAre
  <2> HIDE DEF u
  <2>2. \A k \in DOMAIN u : \/ k \in DOMAIN Sent(p) /\ u[k].do = "tag" /\ u[k].i = Sent(p)[k]
                            \/ u[k].do = "manifest"
    BY <2>1 DEF Do
  <2>3. \A k \in DOMAIN Sent(p) : k \in DOMAIN u /\ u[k].do = "tag" /\ u[k].i = Sent(p)[k]
    BY <2>1
  <2>4. OnlyImages(u)
    BY <2>2 DEF OnlyImages
  <2>5. \A i : TagAhead(u, i) <=> \E k \in DOMAIN Sent(p) : Sent(p)[k] = i
    BY <2>2, <2>3 DEF TagAhead
  <2>6. Coming(p)' = root.es
    <3>1. 1 \in DOMAIN u /\ u[1].do \in {"tag", "manifest"}
      BY <2>1, <2>2
    <3>2. u # <<>> /\ u[1].do \notin {"trunc", "data"}
      BY <3>1
    <3> QED BY <1>0, <1>3, <3>2, ComingNext
  <2>7. ASSUME NEW h \in Named(root.es, r), root.es[h].kind = "index"
        PROVE  c.kind = "index" /\ root.es[h].dig = c.dig
    <3>1. c # Nothing
      BY <1>3, ContentsAre
    <3>2. PICK j \in DOMAIN root.es : root.es[j].ref = r /\ root.es[j].kind = c.kind /\ root.es[j].dig = c.dig
      BY <3>1, FindRootIs DEF Types
    <3>3. j \in Named(root.es, r) /\ r[1] \in Names
      BY <1>1, <3>2, RefsAre DEF Named
    <3>4. j = h
      BY <1>1, <2>7, <3>3 DEF UniqueInv, Unique
    <3> QED BY <2>7, <3>2, <3>4
  <2>8. ASSUME c.kind = "index"
        PROVE  /\ \A i \in ToSet(c.dig) : PlatOf[i] # NoPlat => TagAhead(u, i)
               /\ \A i : TagAhead(u, i) => i \in ToSet(c.dig)
    <3>1. \A i \in ToSet(c.dig) : PlatOf[i] # NoPlat => \E j \in DOMAIN Sent(p) : Sent(p)[j] = i
      BY <1>3, <2>8, SentIs
    <3>2. \A k \in DOMAIN Sent(p) : Sent(p)[k] \in ToSet(c.dig)
      <4> DEFINE s == c.dig
                 T == {i \in Images : PlatOf[i] # NoPlat}
      <4>1. Sent(p) = Matching(s, T) /\ s \in Seq(Images)
        BY <1>3, <2>8, ContentParts DEF Sent
      <4> HIDE DEF s, T
      <4>2. \A k \in DOMAIN Sent(p) : \E j \in DOMAIN s : Sent(p)[k] = s[j]
        BY <4>1, MatchingElements
      <4> QED BY <4>2 DEF ToSet, s
    <3> QED BY <2>5, <3>1, <3>2
  <2>9. Covering(p)'
    <3> SUFFICES ASSUME NEW h \in Named(Coming(p)', job'[p].ref), Coming(p)'[h].kind = "index"
                 PROVE  LET s == Coming(p)'[h].dig IN
                        /\ \A i \in ToSet(s) : PlatOf[i] # NoPlat /\ Complete(i)' => Tagged(p, i)' \/ TagAhead(Todo(p)', i)
                        /\ \A i \in Images : TagAhead(Todo(p)', i) => i \in ToSet(s)
      BY DEF Covering
    <3>1. h \in Named(root.es, r) /\ root.es[h].kind = "index"
      BY <1>1, <2>6
    <3>2. c.kind = "index" /\ root.es[h].dig = c.dig
      BY <2>7, <3>1
    <3> QED BY <1>3, <2>6, <2>8, <3>2
  <2>10. Todo(p)' = u
    BY <1>3
  <2> QED BY <2>4, <2>9, <2>10 DEF PushedAt
<1> QED BY <1>2, <1>3, PushDoes

\* One image of the index is published, or it is not complete here.
LEMMA PushedTag ==
  ASSUME Types, EachInv, NEW p \in Procs, PushedAt(p), PushTag(p)
  PROVE  PushedAt(p)'
<1> DEFINE i == Now(p).i
           n == job[p].ref[1]
           g == Tag(n, PlatOf[i].arch)
           t == Todo(p)
           more == <<AppendTo(Entry(g, ImageOf(i))), [Now(p) EXCEPT !.again = TRUE]>>
           e == <<>>
<1>0. At(p, "tag") /\ UNCHANGED <<root, full>>
  BY DEF PushTag, disk
<1>1. /\ job[p].op = "push" /\ job'[p].op = "push" /\ job[p].ref \in Refs /\ job[p].ref = Ref(n)
      /\ job'[p].ref = job[p].ref
      /\ i \in Images /\ PlatOf[i] # NoPlat /\ PlatOf[i].arch \in Arches /\ g \in Refs
  BY PushTagDoes, OpKeeps
<1>2. /\ t # <<>> /\ t \in Seq(Plans) /\ t[1].do = "tag" /\ t[1] = Now(p) /\ Now(p) \in Plans
      /\ 1 \in DOMAIN t
  BY <1>0, AtIs, HeadIn DEF Types
<1>3. OnlyImages(t) /\ (Manifested(t) => Covering(p))
  BY <1>1 DEF PushedAt
<1>4. CASE Fail(p)
  <2>1. Todo(p)' = <<>>
    BY <1>4, ReturnFits DEF Fail, Types
  <2> QED BY <2>1, PushedEnds
<1>5. CASE UNCHANGED remote /\ more \in Seq(Plans) /\ Todo(p)' = more \o Tail(t)
  <2>1. /\ DOMAIN more = 1..2 /\ Len(more) = 2
        /\ more[1].do = "append" /\ more[1].e.kind = "image"
        /\ more[2].do = "tag" /\ more[2].i = i
    <3>1. [Now(p) EXCEPT !.again = TRUE].do = "tag" /\ [Now(p) EXCEPT !.again = TRUE].i = i
      BY <1>2 DEF Plans
    <3> DEFINE x == [Now(p) EXCEPT !.again = TRUE]
               y == AppendTo(Entry(g, ImageOf(i)))
    <3>2. more = <<y, x>> /\ x.do = "tag" /\ x.i = i /\ y.do = "append" /\ y.e.kind = "image"
      BY <3>1 DEF AppendTo, Entry, ImageOf
    <3> HIDE DEF more, x, y, i, g
    <3> QED BY <3>2
  <2> HIDE DEF more
  <2>2. \A k \in DOMAIN more : k = 1 \/ k = 2
    BY <2>1
  <2> DEFINE u == more \o Tail(t)
  <2>3. /\ \A x : TagAhead(u, x) => TagAhead(t, x) \/ TagAhead(more, x)
        /\ \A x : TagAhead(more, x) => TagAhead(u, x)
        /\ \A x : TagAhead(t, x) => (t[1].do = "tag" /\ t[1].i = x) \/ TagAhead(u, x)
        /\ Manifested(u) => Manifested(t) \/ Manifested(more)
        /\ OnlyImages(t) /\ OnlyImages(more) => OnlyImages(u)
    BY <1>2, <1>5, AheadMoves
  <2>4. OnlyImages(more) /\ ~Manifested(more)
    BY <2>1, <2>2 DEF OnlyImages, Manifested
  <2>5. \A x : TagAhead(more, x) <=> x = i
    <3>1. 2 \in DOMAIN more
      BY <2>1
    <3> QED BY <2>1, <2>2, <3>1 DEF TagAhead
  <2>6. TagAhead(t, i)
    BY <1>2 DEF TagAhead
  <2>7. Coming(p)' = Coming(p)
    <3>1. u # <<>> /\ u[1] = more[1]
      <4>1. /\ Len(t) \in Nat \ {0} /\ DOMAIN u = 1..(Len(more) + Len(t) - 1)
            /\ \A k \in 1..Len(more) : u[k] = more[k]
        BY <1>2, <1>5, HeadReplaced
      <4> HIDE DEF u
      <4>2. 1 \in DOMAIN u /\ u[1] = more[1]
        BY <2>1, <4>1
      <4> QED BY <4>2
    <3> HIDE DEF u
    <3>2. Coming(p)' = root'.es
      BY <1>5, <2>1, <3>1, ComingNext DEF u
    <3>3. Coming(p) = root.es
      BY <1>2, ComingIs
    <3> QED BY <1>0, <3>2, <3>3
  <2>8. Todo(p)' = u
    BY <1>5
  <2>9. \A x : TagAhead(u, x) <=> TagAhead(t, x)
    BY <1>2, <2>3, <2>5, <2>6
  <2> HIDE DEF u
  <2>10. OnlyImages(Todo(p)') /\ (Manifested(Todo(p)') => Manifested(Todo(p)))
    BY <1>3, <2>3, <2>4, <2>8
  <2> QED BY <1>0, <1>1, <1>5, <2>7, <2>8, <2>9, <2>10, CoveringStays
<1>6. CASE /\ remote' = [remote EXCEPT ![g] = ImageOf(i)] \/ (~Complete(i) /\ UNCHANGED remote)
           /\ Todo(p)' = e \o Tail(t)
  <2> DEFINE u == e \o Tail(t)
  <2>1. e \in Seq(Plans) /\ OnlyImages(e) /\ ~Manifested(e) /\ \A x : ~TagAhead(e, x)
    BY FreshNone DEF OnlyImages, Manifested, TagAhead
  <2> HIDE DEF e
  <2>2. /\ \A x : TagAhead(u, x) => TagAhead(t, x)
        /\ \A x : TagAhead(t, x) => x = i \/ TagAhead(u, x)
        /\ Manifested(u) => Manifested(t)
        /\ OnlyImages(u)
    BY <1>2, <1>3, <2>1, AheadMoves
  <2>3. Coming(p)' = Coming(p) /\ Coming(p) = root.es
    <3>0. \A k \in DOMAIN e : e[k].do \notin {"trunc", "data"}
      BY DEF e
    <3>1. u = <<>> \/ u[1].do \notin {"trunc", "data"}
      BY <1>2, <2>1, <3>0, NextQuiet DEF Types
    <3> HIDE DEF u
    <3>2. Coming(p)' = root'.es
      BY <1>6, <3>1, ComingNext DEF u
    <3>3. Coming(p) = root.es
      BY <1>2, ComingIs
    <3> QED BY <1>0, <3>2, <3>3
  <2>4. Todo(p)' = u
    BY <1>6
  <2> HIDE DEF u
  <2>5. ASSUME Manifested(u) PROVE Covering(p)'
    <3> SUFFICES ASSUME NEW h \in Named(Coming(p)', job'[p].ref), Coming(p)'[h].kind = "index"
                 PROVE  LET s == Coming(p)'[h].dig IN
                        /\ \A x \in ToSet(s) : PlatOf[x] # NoPlat /\ Complete(x)' => Tagged(p, x)' \/ TagAhead(Todo(p)', x)
                        /\ \A x \in Images : TagAhead(Todo(p)', x) => x \in ToSet(s)
      BY DEF Covering
    <3> DEFINE s == Coming(p)[h].dig
    <3>1. h \in Named(Coming(p), job[p].ref) /\ Coming(p)[h].kind = "index" /\ Coming(p)'[h].dig = s
      BY <1>1, <2>3
    <3>2. /\ \A x \in ToSet(s) : PlatOf[x] # NoPlat /\ Complete(x) => Tagged(p, x) \/ TagAhead(t, x)
          /\ \A x \in Images : TagAhead(t, x) => x \in ToSet(s)
      BY <1>3, <2>2, <2>5, <3>1 DEF Covering
    <3>3. Coming(p)[h] \in Listing /\ s \in Seq(Images) /\ OneEach(s)
      <4>1. h \in DOMAIN root.es /\ root.es[h].kind = "index"
        BY <2>3, <3>1 DEF Named
      <4>2. root.es[h] \in Listing
        BY <4>1, RootEntries DEF Types
      <4>3. root.es[h].dig \in Seq(Images)
        BY <4>1, <4>2, ListingParts
      <4>4. OneEach(root.es[h].dig)
        BY <4>1, EachParts DEF EachEntry
      <4> QED BY <2>3, <4>2, <4>3, <4>4
    <3> HIDE DEF s
    <3>4. i \in ToSet(s)
      <4>1. TagAhead(t, i)
        BY <1>2 DEF TagAhead
      <4> QED BY <1>1, <3>2, <4>1
    <3>5. ASSUME NEW x \in ToSet(s), PlatOf[x] # NoPlat, Complete(x)'
          PROVE  Tagged(p, x)' \/ TagAhead(u, x)
      <4>1. Complete(x)
        BY <1>0, <3>5 DEF Complete
      <4>2. x = i \/ Tagged(p, x) \/ TagAhead(u, x)
        BY <2>2, <3>2, <3>5, <4>1
      <4>3. remote \in [Refs -> Contents \cup {Nothing}]
        BY DEF Types, RemoteFits
      <4>4. CASE x = i
        <5>1. remote' = [remote EXCEPT ![g] = ImageOf(i)]
          BY <1>6, <4>1, <4>4
        <5> DEFINE c == ImageOf(i)
        <5>2. remote'[g] = c
          <6> HIDE DEF g, c
          <6> QED BY <1>1, <4>3, <5>1 DEF c
        <5> QED BY <1>1, <4>4, <5>2 DEF Tagged
      <4>5. CASE x # i /\ Tagged(p, x)
        <5>1. PlatOf[x].arch # PlatOf[i].arch
          <6>1. PICK j \in DOMAIN s : s[j] = x
            BY DEF ToSet
          <6>2. PICK k \in DOMAIN s : s[k] = i
            BY <3>4 DEF ToSet
          <6>3. j # k
            BY <4>5, <6>1, <6>2
          <6> QED BY <1>1, <3>3, <3>5, <6>1, <6>2, <6>3 DEF OneEach, Key
        <5> DEFINE f == Tag(n, PlatOf[x].arch)
        <5>2. f # g
          BY <5>1 DEF Tag
        <5>3. remote'[f] = remote[f]
          <6> HIDE DEF f, g
          <6>1. f \in Refs
            <7>1. x \in Images
              BY <3>3 DEF ToSet
            <7>2. PlatOf[x].arch \in Arches
              BY <3>5, <7>1, PlatAssumption
            <7>3. n \in Names
              BY <1>1, RefsAre
            <7> QED BY <7>2, <7>3, RefsAre DEF f
          <6> QED BY <1>6, <4>3, <5>2, <6>1
        <5> QED BY <1>1, <4>5, <5>3 DEF Tagged
      <4> QED BY <4>2, <4>4, <4>5
    <3> QED BY <2>2, <2>4, <3>1, <3>2, <3>5
  <2> QED BY <2>2, <2>4, <2>5 DEF PushedAt
<1> QED BY <1>4, <1>5, <1>6, PushTagDoes

LEMMA PushedInit == Init => PushedInv
BY DEF Init, Idle, PushedInv

LEMMA PushedNext ==
  ASSUME OneProcess, Types, UniqueInv, EachInv, PushedInv, [Next]_vars
  PROVE  PushedInv'
<1>0. PushedInv <=> \A p \in Procs : PushedAt(p)
  BY DEF PushedInv, PushedAt, OnlyImages
<1>1. PushedInv' <=> \A p \in Procs : PushedAt(p)'
  BY DEF PushedInv, PushedAt, OnlyImages
<1>2. ASSUME UNCHANGED <<job, disk>>,
             \A r \in Refs : r[2] # Plain => remote'[r] = remote[r]
      PROVE  PushedInv'
  <2>1. ASSUME NEW p \in Procs PROVE PushedAt(p)'
    <3>1. PushedAt(p)
      BY <1>0
    <3>2. Todo(p)' = Todo(p) /\ Coming(p)' = Coming(p) /\ UNCHANGED full /\ job' = job
      BY <1>2 DEF Todo, Coming, Writing, disk
    <3> SUFFICES ASSUME job[p].op = "push" PROVE PushedAt(p)'
      BY <3>2 DEF PushedAt
    <3>3. job[p].ref[1] \in Names
      BY TodoIs, RefIs
    <3>4. \A i \in Images : PlatOf[i] # NoPlat =>
            remote'[Tag(job[p].ref[1], PlatOf[i].arch)] = remote[Tag(job[p].ref[1], PlatOf[i].arch)]
      BY <1>2, <3>3, RefsAre, PlatAssumption
    <3>5. OnlyImages(Todo(p))
      BY <3>1 DEF PushedAt
    <3> QED BY <3>1, <3>2, <3>4, <3>5, CoveringStays
  <2> QED BY <1>1, <2>1
<1>3. CASE UNCHANGED vars
  BY <1>2, <1>3 DEF vars
<1>4. CASE Publish
  <2>1. UNCHANGED <<disk, job>> /\ \E n \in Names : \E c \in Published[n] : remote' = [remote EXCEPT ![Ref(n)] = c]
    BY <1>4, Types_Publish
  <2>2. PICK n \in Names : \E c \in Published[n] : remote' = [remote EXCEPT ![Ref(n)] = c]
    BY <2>1
  <2>3. PICK c \in Published[n] : remote' = [remote EXCEPT ![Ref(n)] = c]
    BY <2>2
  <2>4. \A r \in Refs : r[2] # Plain => remote'[r] = remote[r]
    <3>1. remote \in [Refs -> Contents \cup {Nothing}] /\ Ref(n)[2] = Plain
      BY RefsAre DEF Types, RemoteFits
    <3>2. \A r \in Refs : r # Ref(n) => remote'[r] = remote[r]
      BY <2>3, <3>1
    <3> QED BY <3>1, <3>2
  <2> QED BY <1>2, <2>1, <2>4
<1>5. ASSUME NEW p \in Procs, Step(p) PROVE PushedInv'
  <2>1. PushedAt(p)
    BY <1>0
  <2>2. PushedAt(p)'
    <3>1. CASE PushManifest(p) \/ Abort(p)
      <4>1. Todo(p)' = <<>>
        BY <3>1, PushManifestDoes, Types_Abort
      <4> QED BY <4>1, PushedEnds
    <3> QED
      BY <1>5, <2>1, <3>1, PushedBegins, PushedOthers, PushedWrites, PushedPush, PushedTag DEF Step
  <2>3. \A q \in Procs : q = p
    BY DEF OneProcess
  <2> QED BY <1>1, <2>2, <2>3
<1> QED BY <1>3, <1>4, <1>5 DEF Next

\* What the last step of a push leaves in the registry.
Covered(p) ==
  LET n    == job[p].ref[1]
      here == FindRoot(job[p].ref)
      there == ToSet(remote'[job[p].ref].dig)
  IN /\ here.kind = "index" =>
          \A i \in ToSet(here.dig) : PlatOf[i] # NoPlat /\ Complete(i) => i \in there
     /\ \A a \in Arches :
          remote[Tag(n, a)].kind = "image" => remote[Tag(n, a)].dig \in there

LEMMA PushedCovers ==
  ASSUME Types, PushedInv, NEW p \in Procs, PushManifest(p), job'[p].ok
  PROVE  Covered(p)
<1> DEFINE r == job[p].ref
           n == r[1]
           s == TaggedIn(n)
           t == Todo(p)
<1>1. /\ job[p].op = "push" /\ r \in Refs /\ r = Ref(n) /\ n \in Names
      /\ Return(p, FALSE) \/ remote' = [remote EXCEPT ![r] = IndexOf(s)]
  BY PushManifestDoes DEF Fail
<1>2. ~Return(p, FALSE)
  <2>1. Return(p, FALSE) => job'[p] = [job[p] EXCEPT !.todo = <<>>, !.ok = FALSE]
    BY ReturnFits DEF Types
  <2> DEFINE e == <<>>
  <2>2. Return(p, FALSE) => job'[p] = [job[p] EXCEPT !.todo = e, !.ok = FALSE]
    BY <2>1
  <2> HIDE DEF e
  <2>3. Return(p, FALSE) => job'[p].ok = FALSE
    BY <2>2, TodoIs DEF Jobs
  <2> QED BY <2>3
<1>3. remote'[r] = IndexOf(s)
  <2> DEFINE c == IndexOf(s)
  <2>1. remote' = [remote EXCEPT ![r] = c] /\ remote \in [Refs -> Contents \cup {Nothing}] /\ r \in Refs
    BY <1>1, <1>2 DEF Types, RemoteFits
  <2> HIDE DEF c, r
  <2>2. remote'[r] = c
    BY <2>1
  <2> QED BY <2>2 DEF c
<1>4. remote'[r].dig = s
  BY <1>3 DEF IndexOf
<1>5. \A a \in Arches : remote[Tag(n, a)].kind = "image" => remote[Tag(n, a)].dig \in ToSet(s)
  BY <1>1, TaggedIs
<1>6. t \in Seq(Plans) /\ t # <<>> /\ t[1].do = "manifest" /\ Todo(p) = t /\ JobFits(job[p]) /\ job[p].todo = t
  BY AtIs, TodoIs DEF PushManifest, Types
<1>7. Manifested(t) /\ \A i : ~TagAhead(t, i)
  <2>1. 1 \in DOMAIN t /\ DOMAIN t = 1..Len(t) /\ Len(t) \in Nat
    BY <1>6, HeadIn
  <2>2. Len(t) = 1
    BY <1>6, <2>1 DEF JobFits, Ordered, Closing
  <2>3. \A j \in DOMAIN t : t[j].do = "manifest"
    BY <1>6, <2>1, <2>2
  <2> QED BY <1>6, <2>1, <2>3 DEF Manifested, TagAhead
<1>8. Covering(p)
  BY <1>1, <1>7 DEF PushedInv
<1>9. Coming(p) = root.es
  BY <1>6, ComingIs
<1>10. ASSUME FindRoot(r).kind = "index", NEW i \in ToSet(FindRoot(r).dig), PlatOf[i] # NoPlat, Complete(i)
       PROVE  i \in ToSet(s)
  <2>1. FindRoot(r) # Nothing
    BY <1>10 DEF Nothing
  <2>2. PICK h \in DOMAIN root.es :
          /\ root.es[h].ref = r /\ root.es[h].kind = "index" /\ root.es[h].dig = FindRoot(r).dig
          /\ root.es[h] \in Listing
    BY <1>10, <2>1, FindRootIs DEF Types
  <2>3. h \in Named(Coming(p), r)
    BY <1>9, <2>2 DEF Named
  <2>4. Tagged(p, i)
    BY <1>7, <1>8, <1>9, <1>10, <2>2, <2>3 DEF Covering
  <2>5. PlatOf[i].arch \in Arches
    <3> DEFINE d == root.es[h].dig
    <3>1. d \in Seq(Images) /\ i \in ToSet(d)
      BY <1>10, <2>2, ListingParts
    <3> HIDE DEF d
    <3>2. i \in Images
      BY <3>1 DEF ToSet
    <3> QED BY <1>10, <3>2, PlatAssumption
  <2>6. remote[Tag(n, PlatOf[i].arch)] = ImageOf(i)
    BY <2>4 DEF Tagged
  <2>7. ImageOf(i).kind = "image" /\ ImageOf(i).dig = i
    BY DEF ImageOf
  <2> QED BY <1>5, <2>5, <2>6, <2>7
<1> QED BY <1>4, <1>5, <1>10 DEF Covered

\* When a push succeeds, the index in the registry lists every image of the local index
\* that is complete here and what the other architectures have there, although others
\* publish meanwhile, as long as one oskit works on the cache at a time and an index has
\* one manifest for an architecture.
THEOREM PushCoversAll ==
  ASSUME OneProcess, OneVariant
  PROVE  Spec => PushCovers
<1> DEFINE Inv == Types /\ UniqueInv /\ EachInv /\ PushedInv
<1>1. Init => Inv
  BY TypesInit, UniqueInit, EachInit, PushedInit
<1>2. Inv /\ [Next]_vars => Inv'
  BY TypesStep, UniqueStep, EachNext, PushedNext
<1>3. ASSUME Inv, [Next]_vars, NEW p \in Procs, At(p, "manifest"), job'[p].ok
      PROVE  Covered(p)
  <2>1. ~job[p].ok /\ Todo(p) # <<>> /\ Todo(p)[1].do = "manifest"
    BY <1>3, AtIs DEF Types, JobFits, Ordered
  <2>2. job' # job
    BY <1>3, <2>1
  <2>3. ~Publish /\ ~UNCHANGED vars
    BY <2>2 DEF Publish, vars
  <2>4. PICK q \in Procs : Step(q)
    BY <1>3, <2>3 DEF Next
  <2>5. Step(p)
    BY <2>4 DEF OneProcess
  <2>6. PushManifest(p) \/ Abort(p)
    <3>1. \A w : At(p, w) => w = "manifest"
      BY <1>3, AtHead DEF Types
    <3>2. ~(BeginPull(p) \/ BeginLoad(p) \/ BeginIndexWrite(p) \/ BeginDescriptorWrite(p) \/ BeginPush(p) \/ BeginClean(p))
      BY <2>1 DEF BeginPull, BeginLoad, BeginIndexWrite, BeginDescriptorWrite, BeginPush, BeginClean, Begin
    <3>3. ~Clean(p) /\ ~InitRoot(p) /\ ~EditRoot(p) /\ ~Truncate(p) /\ ~WriteData(p)
      BY <3>1 DEF Clean, InitRoot, EditRoot, Truncate, WriteData
    <3>4. ~WriteBlob(p) /\ ~CopyBlob(p) /\ ~RemoveBlob(p) /\ ~IndexWrite(p)
      BY <3>1 DEF WriteBlob, CopyBlob, RemoveBlob, IndexWrite
    <3>5. ~Look(p) /\ ~Fetch(p) /\ ~Validate(p) /\ ~Finish(p) /\ ~Push(p) /\ ~PushTag(p)
      BY <3>1, Zenon DEF Look, Fetch, Validate, Finish, Push, PushTag
    <3> QED BY <2>5, <3>2, <3>3, <3>4, <3>5 DEF Step
  <2>7. ~Abort(p)
    <3> DEFINE e == <<>>
    <3>1. Abort(p) => job'[p] = [job[p] EXCEPT !.todo = e, !.ok = FALSE]
      BY <1>3, Types_Abort
    <3> HIDE DEF e
    <3>2. Abort(p) => job'[p].ok = FALSE
      BY <1>3, <3>1, TodoIs DEF Jobs
    <3> QED BY <1>3, <3>2
  <2> QED BY <1>3, <2>6, <2>7, PushedCovers
<1>4. Inv /\ [Next]_vars =>
        [\A p \in Procs :
           At(p, "manifest") /\ job'[p].ok =>
             LET n    == job[p].ref[1]
                 here == FindRoot(job[p].ref)
                 there == ToSet(remote'[job[p].ref].dig)
             IN /\ here.kind = "index" =>
                     \A i \in ToSet(here.dig) : PlatOf[i] # NoPlat /\ Complete(i) => i \in there
                /\ \A a \in Arches :
                     remote[Tag(n, a)].kind = "image" => remote[Tag(n, a)].dig \in there]_vars
  BY <1>3 DEF Covered
<1> QED BY <1>1, <1>2, <1>4, PTL DEF Spec, PushCovers
===============================================================================
