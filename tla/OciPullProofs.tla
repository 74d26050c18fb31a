---------------------------- MODULE OciPullProofs -----------------------------
(***************************************************************************)
(* Proofs about pulls of the image cache: until a command fails half-way,  *)
(* its files are whole between the steps of a command, and a pull that has *)
(* been offered an image for its architecture succeeds.                    *)
(***************************************************************************)
EXTENDS OciCacheProofs

(***************************************************************************)
(* Files are whole between steps                                           *)
(***************************************************************************)

\* Where a step of the list comes from when the head is replaced.
LEMMA StepOrigins ==
  ASSUME NEW t \in Seq(Plans), t # <<>>, NEW steps \in Seq(Plans), NEW u, u = steps \o Tail(t)
  PROVE  /\ Len(steps) \in Nat /\ Len(t) \in Nat \ {0} /\ Len(u) = Len(steps) + Len(t) - 1
         /\ DOMAIN steps = 1..Len(steps) /\ DOMAIN t = 1..Len(t) /\ DOMAIN u = 1..Len(u)
         /\ \A k \in 1..Len(steps) : k \in DOMAIN u /\ u[k] = steps[k]
         /\ \A k \in 2..Len(t) : Len(steps) + k - 1 \in DOMAIN u /\ u[Len(steps) + k - 1] = t[k]
         /\ \A k \in DOMAIN u :
              \/ k \in DOMAIN steps /\ u[k] = steps[k]
              \/ k > Len(steps) /\ k - Len(steps) + 1 \in 2..Len(t) /\ u[k] = t[k - Len(steps) + 1]
<1> DEFINE l == Len(steps)
<1>1. /\ l \in Nat /\ Len(t) \in Nat \ {0}
      /\ DOMAIN steps = 1..l /\ DOMAIN t = 1..Len(t) /\ DOMAIN u = 1..(l + Len(t) - 1)
      /\ \A j \in 1..l : u[j] = steps[j]
      /\ \A j \in 2..Len(t) : u[l + j - 1] = t[j]
      /\ \A j \in 1..(l + Len(t) - 1) :
           IF j <= l THEN u[j] = steps[j] ELSE j - l + 1 \in 2..Len(t) /\ u[j] = t[j - l + 1]
  BY HeadReplaced
<1>2. Len(u) = l + Len(t) - 1
  <2> DEFINE P == Plans
  <2>1. t \in Seq(P) /\ steps \in Seq(P)
    OBVIOUS
  <2> HIDE DEF P
  <2> QED BY <2>1, InPlaceOfHead
<1>3. \A k \in 1..l : k \in DOMAIN u
  BY <1>1
<1>4. \A k \in 2..Len(t) : l + k - 1 \in DOMAIN u
  BY <1>1
<1>5. ASSUME NEW k \in DOMAIN u
      PROVE  \/ k \in DOMAIN steps /\ u[k] = steps[k]
             \/ k > l /\ k - l + 1 \in 2..Len(t) /\ u[k] = t[k - l + 1]
  <2> HIDE DEF l
  <2>1. CASE k <= l
    BY <1>1, <2>1
  <2>2. CASE k > l
    BY <1>1, <2>2
  <2> QED BY <1>1, <2>1, <2>2
<1> HIDE DEF l
<1> QED BY <1>1, <1>2, <1>3, <1>4, <1>5 DEF l

\* What is being written stays so, unless it is the head that writes it.
LEMMA PendingMoves ==
  ASSUME NEW t \in Seq(Plans), t # <<>>, NEW steps \in Seq(Plans), NEW u, u = steps \o Tail(t),
         NEW d, NEW k \in 1..(Len(t) + 1), Pending(t, d, k)
  PROVE  \/ t[1].do \in {"blob", "copy"} /\ t[1].d = d
         \/ Pending(u, d, Len(steps) + k - 1)
<1>1. PICK i \in 1..(k - 1) : t[i].do \in {"blob", "copy"} /\ t[i].d = d
  BY DEF Pending
<1>2. CASE i = 1
  BY <1>1, <1>2
<1>3. CASE i # 1
  <2>0. Len(steps) \in Nat /\ Len(t) \in Nat
    BY StepOrigins
  <2>1. i \in 2..Len(t)
    BY <1>1, <1>3, <2>0
  <2> DEFINE h == Len(steps) + i - 1
             m == Len(steps) + k - 1
  <2>2. u[h] = t[i]
    BY <2>1, StepOrigins, SMTT(30)
  <2>3. h \in 1..(m - 1)
    BY <2>0, <2>1, <1>1
  <2> HIDE DEF h, m
  <2>4. Pending(u, d, m)
    BY <1>1, <2>2, <2>3 DEF Pending
  <2> QED BY <2>4 DEF m
<1> QED BY <1>2, <1>3

\* The new steps write it.
LEMMA PendingFirst ==
  ASSUME NEW t \in Seq(Plans), t # <<>>, NEW steps \in Seq(Plans), NEW u, u = steps \o Tail(t),
         NEW d, NEW k \in Nat, k > 0, Pending(steps, d, k), k <= Len(steps) + 1, NEW h \in Nat, k <= h
  PROVE  Pending(u, d, h)
<1>1. PICK i \in 1..(k - 1) : steps[i].do \in {"blob", "copy"} /\ steps[i].d = d
  BY DEF Pending
<1>2. Len(steps) \in Nat
  BY StepOrigins
<1>3. i \in 1..Len(steps) /\ i \in 1..(h - 1)
  BY <1>1, <1>2
<1>4. u[i] = steps[i]
  BY <1>3, StepOrigins
<1> QED BY <1>1, <1>3, <1>4 DEF Pending

\* Whether an entry is still to be removed.
LEMMA DroppedMoves ==
  ASSUME NEW t \in Seq(Plans), t # <<>>, NEW steps \in Seq(Plans), NEW u, u = steps \o Tail(t), NEW r
  PROVE  /\ Dropped(t, r) => (t[1].do = "remove" /\ t[1].ref = r) \/ Dropped(u, r)
         /\ Dropped(steps, r) => Dropped(u, r)
<1>1. \A k \in DOMAIN t : k = 1 \/ (Len(steps) + k - 1 \in DOMAIN u /\ u[Len(steps) + k - 1] = t[k])
  BY StepOrigins
<1>2. \A k \in DOMAIN steps : k \in DOMAIN u /\ u[k] = steps[k]
  BY StepOrigins
<1> QED BY <1>1, <1>2 DEF Dropped

\* The order of the steps.
Shape(t, r) == DropsEarly(t) /\ DropsBoth(t, r) /\ MergesLast(t)

\* The order of the steps stays when the head is replaced by steps that keep it.
LEMMA ShapeMoves ==
  ASSUME NEW t \in Seq(Plans), t # <<>>, NEW steps \in Seq(Plans), NEW u, u = steps \o Tail(t), NEW r,
         Shape(t, r), Shape(steps, r),
         \/ \A k \in DOMAIN steps : steps[k].do \in Leading \cup {"init"}
         \/ \A k \in 2..Len(t) : t[k].do # "remove",
         \/ \A k \in DOMAIN steps : steps[k].do # "index"
         \/ \A k \in 2..Len(t) : t[k].do \in Rest \cup {"return"}
  PROVE  Shape(u, r)
<1> DEFINE l == Len(steps)
<1>0. /\ l \in Nat /\ Len(t) \in Nat \ {0} /\ Len(u) = l + Len(t) - 1
      /\ DOMAIN steps = 1..l /\ DOMAIN t = 1..Len(t) /\ DOMAIN u = 1..Len(u)
      /\ \A k \in DOMAIN u :
           \/ k \in DOMAIN steps /\ u[k] = steps[k]
           \/ k > l /\ k - l + 1 \in 2..Len(t) /\ u[k] = t[k - l + 1]
  BY StepOrigins
<1> HIDE DEF l
<1>1. ASSUME NEW k \in DOMAIN u, u[k].do = "remove", NEW j \in 1..(k - 1)
      PROVE  u[j].do \in Leading \cup {"init"}
  <2>0. j \in DOMAIN u
    BY <1>0
  <2>1. CASE k \in DOMAIN steps /\ u[k] = steps[k]
    <3>1. j \in DOMAIN steps /\ u[j] = steps[j]
      BY <1>0, <2>0, <2>1
    <3> QED BY <1>1, <2>1, <3>1 DEF Shape, DropsEarly
  <2>2. CASE k > l /\ k - l + 1 \in 2..Len(t) /\ u[k] = t[k - l + 1]
    <3>1. \A i \in DOMAIN steps : steps[i].do \in Leading \cup {"init"}
      BY <1>1, <2>2
    <3>2. CASE j \in DOMAIN steps /\ u[j] = steps[j]
      BY <3>1, <3>2
    <3>3. CASE j > l /\ j - l + 1 \in 2..Len(t) /\ u[j] = t[j - l + 1]
      <4> DEFINE a == j - l + 1
                 b == k - l + 1
      <4>1. a \in 1..(b - 1) /\ b \in DOMAIN t /\ u[k] = t[b] /\ u[j] = t[a]
        BY <1>0, <2>2, <3>3, SMTT(30)
      <4> HIDE DEF a, b
      <4> QED BY <1>1, <4>1 DEF Shape, DropsEarly
    <3> QED BY <1>0, <2>0, <3>2, <3>3
  <2> QED BY <1>0, <2>1, <2>2
<1>2. ASSUME NEW j \in DOMAIN u, u[j].do = "rm" PROVE j = 1 /\ Dropped(u, r)
  <2>1. CASE j \in DOMAIN steps /\ u[j] = steps[j]
    <3>1. j = 1 /\ Dropped(steps, r)
      BY <1>2, <2>1 DEF Shape, DropsBoth
    <3> QED BY <3>1, DroppedMoves
  <2>2. CASE j > l /\ j - l + 1 \in 2..Len(t) /\ u[j] = t[j - l + 1]
    <3>1. j - l + 1 \in DOMAIN t /\ j - l + 1 # 1
      BY <1>0, <2>2
    <3> QED BY <1>2, <2>2, <3>1 DEF Shape, DropsBoth
  <2> QED BY <1>0, <2>1, <2>2
<1>3. ASSUME NEW j \in DOMAIN u, NEW k \in DOMAIN u, u[j].do = "index", j < k
      PROVE  u[k].do \in Rest \cup {"return"}
  <2>1. CASE j \in DOMAIN steps /\ u[j] = steps[j]
    <3>1. CASE k \in DOMAIN steps /\ u[k] = steps[k]
      BY <1>3, <2>1, <3>1 DEF Shape, MergesLast
    <3>2. CASE k > l /\ k - l + 1 \in 2..Len(t) /\ u[k] = t[k - l + 1]
      BY <1>3, <2>1, <3>2
    <3> QED BY <1>0, <3>1, <3>2
  <2>2. CASE j > l /\ j - l + 1 \in 2..Len(t) /\ u[j] = t[j - l + 1]
    <3>1. k > l /\ k - l + 1 \in 2..Len(t) /\ u[k] = t[k - l + 1]
      BY <1>0, <1>3, <2>2, SMTT(30)
    <3>2. j - l + 1 \in DOMAIN t /\ k - l + 1 \in DOMAIN t /\ j - l + 1 < k - l + 1
      BY <1>0, <1>3, <2>2, <3>1
    <3> QED BY <1>3, <2>2, <3>1, <3>2 DEF Shape, MergesLast
  <2> QED BY <1>0, <2>1, <2>2
<1> QED BY <1>1, <1>2, <1>3 DEF Shape, DropsEarly, DropsBoth, MergesLast

\* WholeAt, of steps, a job, entries, index.json and blobs that stand for themselves.
PlannedIn(t, F) ==
  \A k \in DOMAIN t : t[k].do \in {"append", "replace"} /\ t[k].e.kind = "index" =>
    \/ Pending(t, Index(t[k].e.dig), k)
    \/ Index(t[k].e.dig) \in F /\ t[1].do # "rm"
StoredIn(es, t, F) ==
  \A j \in DOMAIN es : es[j].kind = "index" => Index(es[j].dig) \in F \/ Dropped(t, es[j].ref)
WholeOf(t, o, es, r, F, P) ==
  /\ \A d \in P : t # <<>> /\ t[1].do = "copy" /\ t[1].d = d
  /\ r = Torn => t # <<>> /\ t[1].do = "data"
  /\ t # <<>> /\ t[1].do \notin {"init", "trunc", "data", "clean"} => r.is = "good"
  /\ Shape(t, o.ref) /\ PlannedIn(t, F)
  /\ o.op # "clean" \/ t = <<>> => StoredIn(es, t, F)

\* WholeAt and its primed form are WholeOf of what they read.
LEMMA WholeIs ==
  ASSUME Types, NEW p \in Procs
  PROVE  WholeAt(p) <=> WholeOf(Todo(p), job[p], Coming(p), root, full, part)
BY AtHead DEF Types, WholeAt, WholeOf, Shape, Planned, PlannedIn, Stored, StoredIn, Readable

LEMMA WholeNext ==
  ASSUME Types', NEW p \in Procs
  PROVE  WholeAt(p)' <=> WholeOf(Todo(p)', job'[p], Coming(p)', root', full', part')
<1>1. \A what : At(p, what)' <=> Todo(p)' # <<>> /\ Todo(p)'[1].do = what
  BY AtHeadNext DEF Types
<1> QED BY <1>1 DEF WholeAt, WholeOf, Shape, Planned, PlannedIn, Stored, StoredIn, Readable

\* What was planned goes on: the head has written its blob or makes way for the step that
\* copies it, and nothing is removed but by the head of a removal.
LEMMA PlannedMoves ==
  ASSUME NEW t \in Seq(Plans), t # <<>>, NEW steps \in Seq(Plans), NEW u, u = steps \o Tail(t), NEW F, NEW G,
         PlannedIn(t, F),
         \A k \in DOMAIN steps : steps[k].do \in {"append", "replace"} /\ steps[k].e.kind = "index" =>
           Pending(steps, Index(steps[k].e.dig), k),
         t[1].do = "rm" \/ F \subseteq G,
         t[1].do \in {"blob", "copy"} => t[1].d \in G \/ Pending(steps, t[1].d, Len(steps) + 1),
         \/ \A k \in DOMAIN steps : steps[k].do # "rm"
         \/ \A k \in 2..Len(t) : t[k].do \notin {"append", "replace"},
         \A k \in 2..Len(t) : t[k].do # "rm"
  PROVE  PlannedIn(u, G)
<1> DEFINE l == Len(steps)
<1>0. /\ l \in Nat /\ Len(t) \in Nat \ {0} /\ Len(u) = l + Len(t) - 1
      /\ DOMAIN steps = 1..l /\ DOMAIN t = 1..Len(t) /\ DOMAIN u = 1..Len(u)
      /\ \A k \in DOMAIN u :
           \/ k \in DOMAIN steps /\ u[k] = steps[k]
           \/ k > l /\ k - l + 1 \in 2..Len(t) /\ u[k] = t[k - l + 1]
  BY StepOrigins, SMTT(30)
<1> HIDE DEF l
<1> SUFFICES ASSUME NEW k \in DOMAIN u, u[k].do \in {"append", "replace"}, u[k].e.kind = "index"
             PROVE  \/ Pending(u, Index(u[k].e.dig), k)
                    \/ Index(u[k].e.dig) \in G /\ u[1].do # "rm"
  BY DEF PlannedIn
<1> DEFINE d == Index(u[k].e.dig)
<1>1. CASE k \in DOMAIN steps /\ u[k] = steps[k]
  <2>1. Pending(steps, d, k) /\ k \in Nat /\ k > 0 /\ k <= Len(steps) + 1 /\ k <= k
    BY <1>0, <1>1 DEF l
  <2> HIDE DEF d
  <2>2. ASSUME NEW v, v = steps \o Tail(t) PROVE Pending(v, d, k)
    BY <2>1, <2>2, PendingFirst
  <2>3. Pending(u, d, k)
    BY <2>2
  <2> QED BY <2>3 DEF d
<1>2. CASE k > l /\ k - l + 1 \in 2..Len(t) /\ u[k] = t[k - l + 1]
  <2> DEFINE a == k - l + 1
  <2>1. a \in DOMAIN t /\ a \in 2..Len(t) /\ u[k] = t[a] /\ l + a - 1 = k /\ k \in Nat
    BY <1>0, <1>2
  <2> HIDE DEF a
  <2>2. Pending(t, d, a) \/ (d \in F /\ t[1].do # "rm")
    BY <2>1 DEF PlannedIn
  <2>3. u[1].do # "rm"
    <3>1. 1 \in DOMAIN u
      BY <1>0, <2>1
    <3>2. CASE 1 \in DOMAIN steps /\ u[1] = steps[1]
      BY <2>1, <3>2
    <3>3. CASE 1 > l /\ 1 - l + 1 \in 2..Len(t) /\ u[1] = t[1 - l + 1]
      BY <3>3
    <3> QED BY <1>0, <3>1, <3>2, <3>3
  <2>4. CASE d \in F /\ t[1].do # "rm"
    BY <2>3, <2>4
  <2>5. CASE Pending(t, d, a)
    <3> HIDE DEF d
    <3>1. (t[1].do \in {"blob", "copy"} /\ t[1].d = d) \/ Pending(u, d, l + a - 1)
      <4>1. a \in 1..(Len(t) + 1)
        BY <1>0, <2>1
      <4> QED BY <2>5, <4>1, PendingMoves DEF l
    <3>2. CASE Pending(u, d, l + a - 1)
      BY <2>1, <3>2 DEF d
    <3>3. CASE t[1].do \in {"blob", "copy"} /\ t[1].d = d
      <4>1. CASE d \in G
        BY <2>3, <4>1 DEF d
      <4>2. CASE Pending(steps, d, l + 1)
        <5> DEFINE m == l + 1
        <5>1. /\ m \in Nat /\ m > 0 /\ m <= k /\ m <= Len(steps) + 1 /\ k \in Nat
              /\ Pending(steps, d, m)
          BY <1>0, <1>2, <2>1, <4>2 DEF l
        <5> HIDE DEF m
        <5>2. Pending(u, d, k)
          BY <5>1, PendingFirst
        <5> QED BY <5>2 DEF d
      <4> QED BY <3>3, <4>1, <4>2 DEF l
    <3> QED BY <3>1, <3>2, <3>3
  <2> QED BY <2>2, <2>4, <2>5
<1> QED BY <1>0, <1>1, <1>2

\* What is stored stays so, unless its blob is removed by the head.
LEMMA StoredMoves ==
  ASSUME NEW t \in Seq(Plans), t # <<>>, NEW steps \in Seq(Plans), NEW u, u = steps \o Tail(t), NEW F, NEW G,
         NEW es, StoredIn(es, t, F),
         \A j \in DOMAIN es : es[j].kind = "index" /\ Index(es[j].dig) \in F =>
           Index(es[j].dig) \in G \/ Dropped(t, es[j].ref),
         t[1].do = "remove" => \A j \in DOMAIN es : es[j].ref # t[1].ref
  PROVE  StoredIn(es, u, G)
<1>1. \A r : Dropped(t, r) => (t[1].do = "remove" /\ t[1].ref = r) \/ Dropped(u, r)
  BY DroppedMoves
<1> QED BY <1>1 DEF StoredIn

\* More blobs store no less.
LEMMA StoredFull ==
  ASSUME NEW es, NEW F, StoredIn(es, <<>>, F), NEW t
  PROVE  StoredIn(es, t, F)
BY DEF StoredIn, Dropped

\* A step that is followed by others keeps what is whole.
LEMMA WholeMoves ==
  ASSUME NEW t \in Seq(Plans), t # <<>>, NEW steps \in Seq(Plans), NEW u, u = steps \o Tail(t),
         NEW o, NEW w, w.ref = o.ref, NEW es, NEW es2, NEW r, NEW r2, NEW F, NEW G, NEW P, NEW Q,
         WholeOf(t, o, es, r, F, P), Shape(steps, o.ref),
         \/ \A k \in DOMAIN steps : steps[k].do \in Leading \cup {"init"}
         \/ \A k \in 2..Len(t) : t[k].do # "remove",
         \/ \A k \in DOMAIN steps : steps[k].do # "index"
         \/ \A k \in 2..Len(t) : t[k].do \in Rest \cup {"return"},
         \A k \in DOMAIN steps : steps[k].do \in {"append", "replace"} /\ steps[k].e.kind = "index" =>
           Pending(steps, Index(steps[k].e.dig), k),
         t[1].do = "rm" \/ F \subseteq G,
         t[1].do \in {"blob", "copy"} => t[1].d \in G \/ Pending(steps, t[1].d, Len(steps) + 1),
         \/ \A k \in DOMAIN steps : steps[k].do # "rm"
         \/ \A k \in 2..Len(t) : t[k].do \notin {"append", "replace"},
         \A d \in Q : u # <<>> /\ u[1].do = "copy" /\ u[1].d = d,
         r2 = Torn => u # <<>> /\ u[1].do = "data",
         u # <<>> /\ u[1].do \notin {"init", "trunc", "data", "clean"} => r2.is = "good",
         StoredIn(es2, u, G)
  PROVE  WholeOf(u, w, es2, r2, G, Q)
<1>1. Shape(t, o.ref) /\ PlannedIn(t, F)
  BY DEF WholeOf
<1>2. Shape(u, o.ref)
  BY <1>1, ShapeMoves
<1>3. \A k \in 2..Len(t) : t[k].do # "rm"
  BY <1>1, StepOrigins DEF Shape, DropsBoth
<1>4. PlannedIn(u, G)
  BY <1>1, <1>3, PlannedMoves
<1> QED BY <1>2, <1>4 DEF WholeOf

\* Steps that plan nothing new.
Light(steps) == \A k \in DOMAIN steps : steps[k].do \in {"copy", "trunc", "data"}

\* A head that makes way for steps that only write leaves files whole.
LEMMA WholeLight ==
  ASSUME NEW t \in Seq(Plans), t # <<>>, NEW steps \in Seq(Plans), Light(steps), NEW u, u = steps \o Tail(t),
         NEW o, NEW w, w.ref = o.ref, NEW es, NEW es2, NEW r, NEW r2, NEW F, NEW G, NEW P, NEW Q,
         WholeOf(t, o, es, r, F, P),
         t[1].do = "rm" \/ F \subseteq G,
         t[1].do \in {"blob", "copy"} => t[1].d \in G \/ Pending(steps, t[1].d, Len(steps) + 1),
         \A d \in Q : u # <<>> /\ u[1].do = "copy" /\ u[1].d = d,
         r2 = Torn => u # <<>> /\ u[1].do = "data",
         u # <<>> /\ u[1].do \notin {"init", "trunc", "data", "clean"} => r2.is = "good",
         StoredIn(es2, u, G)
  PROVE  WholeOf(u, w, es2, r2, G, Q)
<1>1. Shape(steps, o.ref)
  BY DEF Light, Shape, DropsEarly, DropsBoth, MergesLast
<1>2. /\ \A k \in DOMAIN steps : steps[k].do \in Leading \cup {"init"}
      /\ \A k \in DOMAIN steps : steps[k].do # "index"
      /\ \A k \in DOMAIN steps : steps[k].do # "rm"
      /\ \A k \in DOMAIN steps : steps[k].do \in {"append", "replace"} /\ steps[k].e.kind = "index" =>
           Pending(steps, Index(steps[k].e.dig), k)
  BY DEF Light, Leading
<1> QED BY <1>1, <1>2, WholeMoves, ZenonT(60)

\* Between the steps that write a file, nothing is half-written.
LEMMA WholeParts ==
  ASSUME NEW t, t # <<>>, NEW o, NEW es, NEW r, NEW F, NEW P, WholeOf(t, o, es, r, F, P)
  PROVE  /\ t[1].do # "copy" => P = {}
         /\ t[1].do # "data" => r # Torn
         /\ t[1].do \notin {"init", "trunc", "data", "clean"} => r.is = "good"
         /\ o.op # "clean" => StoredIn(es, t, F)
BY DEF WholeOf

\* A command that ends has nothing left to remove.
LEMMA WholeEnds ==
  ASSUME NEW t \in Seq(Plans), t # <<>>, NEW o, NEW w, NEW es, NEW r, NEW F, NEW P,
         WholeOf(t, o, es, r, F, P), o.op # "clean",
         t[1].do \notin Leading \cup {"init"}
  PROVE  WholeOf(<<>>, w, es, r, F, P)
<1>1. 1 \in DOMAIN t /\ DOMAIN t = 1..Len(t) /\ Len(t) \in Nat
  BY HeadIn
<1>2. \A x : ~Dropped(t, x)
  <2> SUFFICES ASSUME NEW k \in DOMAIN t, t[k].do = "remove" PROVE FALSE
    BY DEF Dropped
  <2>1. k # 1
    BY DEF Leading
  <2>2. 1 \in 1..(k - 1)
    BY <1>1, <2>1
  <2> QED BY <2>2 DEF WholeOf, Shape, DropsEarly
<1>3. StoredIn(es, t, F) /\ P = {} /\ r # Torn
  BY WholeParts DEF Leading
<1> DEFINE e == <<>>
<1>4. DOMAIN e = {} /\ e = <<>>
  OBVIOUS
<1> HIDE DEF e
<1>5. StoredIn(es, e, F)
  BY <1>2, <1>3 DEF StoredIn
<1>6. Shape(e, w.ref) /\ PlannedIn(e, F)
  BY <1>4 DEF Shape, DropsEarly, DropsBoth, MergesLast, PlannedIn
<1>7. WholeOf(e, w, es, r, F, P)
  BY <1>3, <1>4, <1>5, <1>6 DEF WholeOf
<1> QED BY <1>4, <1>7

\* What is stored stays so until the head removes an entry.
LEMMA StoredGrows ==
  ASSUME NEW t \in Seq(Plans), t # <<>>, NEW steps \in Seq(Plans), NEW u, u = steps \o Tail(t), NEW F, NEW G,
         NEW es, StoredIn(es, t, F), F \subseteq G, t[1].do # "remove"
  PROVE  StoredIn(es, u, G)
<1>1. \A r : Dropped(t, r) => Dropped(u, r)
  BY DroppedMoves
<1> QED BY <1>1 DEF StoredIn

\* A command that begins, or goes on from a step that is its last.
LEMMA WholeStarts ==
  ASSUME NEW o, NEW w, NEW es, NEW r, NEW F, NEW P, WholeOf(<<>>, o, es, r, F, P),
         NEW u, Shape(u, w.ref), PlannedIn(u, F),
         u # <<>> /\ u[1].do \notin {"init", "trunc", "data", "clean"} => r.is = "good"
  PROVE  WholeOf(u, w, es, r, F, P)
<1> DEFINE e == <<>>
<1>1. e = <<>>
  OBVIOUS
<1> HIDE DEF e
<1>2. WholeOf(e, o, es, r, F, P)
  BY <1>1
<1>3. P = {} /\ r # Torn /\ StoredIn(es, e, F)
  BY <1>1, <1>2 DEF WholeOf
<1>4. StoredIn(es, u, F)
  BY <1>1, <1>3, StoredFull
<1> QED BY <1>3, <1>4 DEF WholeOf

\* The head of a command gives way to steps that plan nothing new.
LEMMA WholeStep ==
  ASSUME Types, Types', NEW p \in Procs, WholeAt(p), Todo(p) # <<>>,
         NEW steps \in Seq(Plans), Light(steps), Todo(p)' = steps \o Tail(Todo(p)),
         job'[p].ref = job[p].ref,
         Todo(p)[1].do = "rm" \/ full \subseteq full',
         Todo(p)[1].do \in {"blob", "copy"} => Todo(p)[1].d \in full' \/ Pending(steps, Todo(p)[1].d, Len(steps) + 1),
         \A d \in part' : Todo(p)' # <<>> /\ Todo(p)'[1].do = "copy" /\ Todo(p)'[1].d = d,
         root' = Torn => Todo(p)' # <<>> /\ Todo(p)'[1].do = "data",
         Todo(p)' # <<>> /\ Todo(p)'[1].do \notin {"init", "trunc", "data", "clean"} => root'.is = "good",
         StoredIn(Coming(p)', Todo(p)', full')
  PROVE  WholeAt(p)'
<1>1. WholeOf(Todo(p), job[p], Coming(p), root, full, part)
  BY WholeIs
<1>2. Todo(p) \in Seq(Plans)
  BY TodoIs
<1>3. WholeOf(Todo(p)', job'[p], Coming(p)', root', full', part')
  BY <1>1, <1>2, WholeLight
<1> QED BY <1>3, WholeNext

\* The head of the steps of a command at a kind of step.
LEMMA HeadIs ==
  ASSUME Types, NEW p \in Procs, NEW what, At(p, what)
  PROVE  /\ Todo(p) # <<>> /\ Todo(p) \in Seq(Plans) /\ Todo(p)[1] = Now(p) /\ Todo(p)[1].do = what
         /\ what # "clean" => job[p].op # "clean" /\ job[p].ref \in Refs /\ job[p].ref[1] \in Names
                              /\ (job[p].op # "load" => job[p].ref = Ref(job[p].ref[1]))
<1>1. /\ Todo(p) # <<>> /\ Todo(p) \in Seq(Plans) /\ Now(p) = Todo(p)[1] /\ Now(p).do = what
      /\ what \in DoneBy(job[p].op)
  BY AtIs DEF Types
<1>2. what # "clean" => job[p].op # "clean"
  BY <1>1 DEF DoneBy
<1> QED BY <1>1, <1>2, RefAt DEF Types

\* A blob is created, then filled.
LEMMA WholeBlobs ==
  ASSUME Types, Types', NEW p \in Procs, WholeAt(p), WriteBlob(p) \/ CopyBlob(p)
  PROVE  WholeAt(p)'
<1>0. WholeOf(Todo(p), job[p], Coming(p), root, full, part)
  BY WholeIs
<1>1. CASE WriteBlob(p)
  <2> DEFINE d == Now(p).d
             steps == IF Present(d) THEN <<>> ELSE <<[do |-> "copy", d |-> d]>>
  <2>1. /\ Todo(p) # <<>> /\ Todo(p) \in Seq(Plans) /\ Todo(p)[1].do = "blob" /\ Todo(p)[1].d = d
        /\ job[p].op # "clean"
    BY <1>1, HeadIs DEF WriteBlob
  <2>2. /\ steps \in Seq(Plans) /\ Todo(p)' = steps \o Tail(Todo(p))
        /\ job'[p] = [job[p] EXCEPT !.todo = steps \o Tail(job[p].todo)]
    BY <1>1, Types_WriteBlob
  <2>3. part = {} /\ root # Torn /\ root.is = "good" /\ StoredIn(Coming(p), Todo(p), full)
    BY <1>0, <2>1, WholeParts
  <2>4. /\ root' = root /\ full' = full
        /\ Present(d) => part' = part /\ d \in full
        /\ ~Present(d) => part' = {d}
    BY <1>1, <2>3 DEF WriteBlob, Present, disk
  <2>5. job'[p].ref = job[p].ref
    BY <2>2, JobKeeps
  <2>6. /\ Present(d) => steps = <<>>
        /\ ~Present(d) => /\ Len(steps) = 1 /\ DOMAIN steps = {1}
                          /\ steps[1].do = "copy" /\ steps[1].d = d
    OBVIOUS
  <2>7. Light(steps) /\ \A k \in DOMAIN steps : steps[k].do \notin {"trunc", "data"}
    BY <2>6 DEF Light
  <2>8. ~Present(d) => Todo(p)' # <<>> /\ Todo(p)'[1].do = "copy" /\ Todo(p)'[1].d = d
    <3> HIDE DEF steps, d
    <3>1. SUFFICES ASSUME ~Present(d) PROVE Todo(p)' # <<>> /\ Todo(p)'[1] = steps[1]
      BY <2>6
    <3>2. 1 \in 1..Len(steps)
      BY <2>6, <3>1, SMTT(30)
    <3>3. 1 \in DOMAIN Todo(p)' /\ Todo(p)'[1] = steps[1]
      BY <2>1, <2>2, <3>2, StepOrigins
    <3> QED BY <3>3
  <2>9. d \in full' \/ Pending(steps, d, Len(steps) + 1)
    BY <2>4, <2>6 DEF Pending
  <2> HIDE DEF d, steps
  <2>10. Coming(p) = root.es
    BY <2>1, ComingIs
  <2>11. Coming(p)' = root'.es
    <3>1. Todo(p)' = <<>> \/ Todo(p)'[1].do \notin {"trunc", "data"}
      BY <2>1, <2>2, <2>7, NextQuiet DEF Types
    <3> QED BY <3>1, ComingNext
  <2>12. StoredIn(Coming(p)', Todo(p)', full')
    <3>1. full \subseteq full' /\ Coming(p)' = Coming(p)
      BY <2>4, <2>10, <2>11
    <3>2. StoredIn(Coming(p), Todo(p)', full')
      BY <2>1, <2>2, <2>3, <3>1, StoredGrows
    <3> QED BY <3>1, <3>2
  <2>13. \A x \in part' : Todo(p)' # <<>> /\ Todo(p)'[1].do = "copy" /\ Todo(p)'[1].d = x
    BY <2>3, <2>4, <2>8
  <2> QED BY <2>1, <2>2, <2>3, <2>4, <2>5, <2>7, <2>9, <2>12, <2>13, WholeStep
<1>2. CASE CopyBlob(p)
  <2> DEFINE d == Now(p).d
             steps == <<>>
  <2>1. /\ Todo(p) # <<>> /\ Todo(p) \in Seq(Plans) /\ Todo(p)[1].do = "copy" /\ Todo(p)[1].d = d
        /\ job[p].op # "clean"
    BY <1>2, HeadIs DEF CopyBlob
  <2>2. /\ steps \in Seq(Plans) /\ Todo(p)' = steps \o Tail(Todo(p))
        /\ job'[p] = [job[p] EXCEPT !.todo = steps \o Tail(job[p].todo)]
    BY <1>2, Types_CopyBlob, EmptyLists
  <2>3. root # Torn /\ root.is = "good" /\ StoredIn(Coming(p), Todo(p), full)
    BY <1>0, <2>1, WholeParts
  <2>4. root' = root /\ full' = full \cup {d} /\ part' = {}
    BY <1>0, <1>2, <2>1 DEF CopyBlob, WholeOf
  <2>5. job'[p].ref = job[p].ref
    BY <2>2, JobKeeps
  <2>6. Light(steps) /\ \A k \in DOMAIN steps : steps[k].do \notin {"trunc", "data"}
    BY DEF Light
  <2> HIDE DEF d, steps
  <2>7. Coming(p) = root.es
    BY <2>1, ComingIs
  <2>8. Coming(p)' = root'.es
    <3>1. Todo(p)' = <<>> \/ Todo(p)'[1].do \notin {"trunc", "data"}
      BY <2>1, <2>2, <2>6, NextQuiet DEF Types
    <3> QED BY <3>1, ComingNext
  <2>9. StoredIn(Coming(p)', Todo(p)', full')
    <3>1. full \subseteq full' /\ Coming(p)' = Coming(p)
      BY <2>4, <2>7, <2>8
    <3>2. StoredIn(Coming(p), Todo(p)', full')
      BY <2>1, <2>2, <2>3, <3>1, StoredGrows
    <3> QED BY <3>1, <3>2
  <2> QED BY <2>1, <2>2, <2>3, <2>4, <2>5, <2>6, <2>9, WholeStep
<1> QED BY <1>1, <1>2

\* An index blob belongs to one name: only that name's entry can be of it.
LEMMA IndexOfName ==
  ASSUME Types, NamesApart, NEW n \in Names, NEW d \in Blobs, d[2] # <<>>, Fits(d[2], n),
         NEW j \in DOMAIN root.es, root.es[j].kind = "index", Index(root.es[j].dig) = d
  PROVE  root.es[j].ref = Ref(n)
<1> DEFINE e == root.es[j]
<1>1. e \in Listing /\ EntryFits(e)
  <2>1. root.es \in Seq(Listing)
    BY RootEntries DEF Types
  <2> QED BY <2>1, ElementOfSeq DEF Types, RootFits
<1> HIDE DEF e
<1>2. e.ref \in Refs /\ e.dig \in Seq(Images) /\ e.kind = "index" /\ Index(e.dig) = d
  BY <1>1, ListingParts DEF e
<1>3. e.dig = d[2] /\ e.dig # <<>>
  BY <1>2 DEF Index
<1>4. PICK i \in ToSet(e.dig) : TRUE
  <2>1. 1 \in DOMAIN e.dig
    BY <1>2, <1>3, HeadIn
  <2> QED BY <2>1 DEF ToSet
<1>5. i \in ImagesOf(n) /\ i \in ImagesOf(e.ref[1]) /\ e.ref[1] \in Names /\ e.ref[2] = Plain
  BY <1>1, <1>2, <1>3, <1>4, RefsAre DEF EntryFits, Fits
<1>6. e.ref[1] = n
  BY <1>5 DEF NamesApart
<1>7. e.ref = <<e.ref[1], e.ref[2]>>
  BY <1>2, RefsAre
<1>8. e.ref = Ref(n)
  BY <1>5, <1>6, <1>7 DEF Ref
<1> QED BY <1>8 DEF e

\* The index blob of a name goes only after its entry, and no other name has it.
LEMMA WholeRemoves ==
  ASSUME NamesApart, Types, Types', NEW p \in Procs, WholeAt(p), RemoveBlob(p)
  PROVE  WholeAt(p)'
<1> DEFINE d == Now(p).d
           steps == <<>>
<1>0. WholeOf(Todo(p), job[p], Coming(p), root, full, part)
  BY WholeIs
<1>1. /\ Todo(p) # <<>> /\ Todo(p) \in Seq(Plans) /\ Todo(p)[1].do = "rm" /\ Todo(p)[1].d = d
      /\ job[p].op # "clean" /\ job[p].ref \in Refs /\ job[p].ref[1] \in Names
      /\ (job[p].op # "load" => job[p].ref = Ref(job[p].ref[1]))
  BY HeadIs DEF RemoveBlob
<1>2. /\ steps \in Seq(Plans) /\ Todo(p)' = steps \o Tail(Todo(p))
      /\ job'[p] = [job[p] EXCEPT !.todo = steps \o Tail(job[p].todo)]
  BY Types_RemoveBlob, EmptyLists
<1>3. root # Torn /\ root.is = "good" /\ StoredIn(Coming(p), Todo(p), full) /\ part = {}
  BY <1>0, <1>1, WholeParts
<1>4. root' = root /\ full' = full \ {d} /\ part' = {}
  BY <1>3 DEF RemoveBlob
<1>5. job'[p].ref = job[p].ref
  BY <1>2, JobKeeps
<1>6. Light(steps) /\ \A k \in DOMAIN steps : steps[k].do \notin {"trunc", "data"}
  BY DEF Light
<1>7. job[p].op # "load" /\ d \in Blobs /\ d[2] # <<>> /\ Fits(d[2], job[p].ref[1])
  <2>1. "rm" \in DoneBy(job[p].op) /\ StepFits(Now(p), job[p].ref[1]) /\ Now(p) \in Plans /\ Now(p).do = "rm"
    BY AtIs DEF RemoveBlob, Types
  <2>2. job[p].op # "load"
    BY <2>1 DEF DoneBy
  <2> QED BY <2>1, <2>2, PlanParts DEF StepFits
<1>8. Dropped(Todo(p), job[p].ref)
  <2>1. 1 \in DOMAIN Todo(p)
    BY <1>1, HeadIn
  <2> QED BY <1>0, <1>1, <2>1 DEF WholeOf, Shape, DropsBoth
<1> HIDE DEF d, steps
<1>9. Coming(p) = root.es
  BY <1>1, ComingIs
<1>10. Coming(p)' = root'.es
  <2>1. Todo(p)' = <<>> \/ Todo(p)'[1].do \notin {"trunc", "data"}
    BY <1>1, <1>2, <1>6, NextQuiet DEF Types
  <2> QED BY <2>1, ComingNext
<1>11. StoredIn(Coming(p)', Todo(p)', full')
  <2>1. \A r : Dropped(Todo(p), r) => Dropped(Todo(p)', r)
    BY <1>1, <1>2, DroppedMoves
  <2>2. SUFFICES ASSUME NEW j \in DOMAIN root.es, root.es[j].kind = "index"
                 PROVE  Index(root.es[j].dig) \in full' \/ Dropped(Todo(p)', root.es[j].ref)
    BY <1>4, <1>10 DEF StoredIn
  <2>3. Index(root.es[j].dig) \in full \/ Dropped(Todo(p), root.es[j].ref)
    BY <1>3, <1>9, <2>2 DEF StoredIn
  <2>4. CASE Index(root.es[j].dig) = d
    <3>1. root.es[j].ref = Ref(job[p].ref[1])
      BY <1>1, <1>7, <2>2, <2>4, IndexOfName
    <3> QED BY <1>1, <1>7, <1>8, <2>1, <3>1
  <2>5. CASE Index(root.es[j].dig) # d
    BY <1>4, <2>1, <2>3, <2>5
  <2> QED BY <2>4, <2>5
<1> QED BY <1>1, <1>2, <1>3, <1>4, <1>5, <1>6, <1>11, WholeStep

\* index.json is truncated and written.
LEMMA WholeWrites ==
  ASSUME Types, Types', NEW p \in Procs, WholeAt(p), Truncate(p) \/ WriteData(p)
  PROVE  WholeAt(p)'
<1> DEFINE steps == <<>>
<1>0. WholeOf(Todo(p), job[p], Coming(p), root, full, part)
  BY WholeIs
<1>1. /\ Todo(p) # <<>> /\ Todo(p) \in Seq(Plans) /\ Todo(p)[1].do \in {"trunc", "data"}
      /\ job[p].op # "clean"
      /\ Truncate(p) => Todo(p)[1].do = "trunc"
      /\ WriteData(p) => Todo(p)[1].do = "data"
  BY HeadIs DEF Truncate, WriteData
<1>2. /\ steps \in Seq(Plans) /\ Todo(p)' = steps \o Tail(Todo(p))
      /\ job'[p] = [job[p] EXCEPT !.todo = steps \o Tail(job[p].todo)]
  BY Types_Truncate, Types_WriteData, EmptyLists
<1>3. part = {} /\ StoredIn(Coming(p), Todo(p), full)
  BY <1>0, <1>1, WholeParts
<1>4. full' = full /\ part' = {}
  BY <1>3 DEF Truncate, WriteData
<1>5. job'[p].ref = job[p].ref
  BY <1>2, JobKeeps
<1>6. Light(steps) /\ \A k \in DOMAIN steps : steps[k].do \notin {"trunc", "data"}
  BY DEF Light
<1>7. Coming(p)' = Coming(p)
  BY ComingWrites
<1>8. StoredIn(Coming(p)', Todo(p)', full')
  <2>1. StoredIn(Coming(p), Todo(p)', full)
    BY <1>1, <1>2, <1>3, StoredGrows
  <2> QED BY <1>4, <1>7, <2>1
<1>9. /\ root' = Torn => Todo(p)' # <<>> /\ Todo(p)'[1].do = "data"
      /\ Todo(p)' # <<>> /\ Todo(p)'[1].do \notin {"init", "trunc", "data", "clean"} => root'.is = "good"
  <2>1. CASE Truncate(p)
    <3>1. /\ \A j \in DOMAIN Todo(p) : Todo(p)[j].do = "trunc" => Len(Todo(p)) > 1 /\ Todo(p)[2].do = "data"
      BY TodoIs DEF JobFits, Ordered
    <3>2. 1 \in DOMAIN Todo(p)
      BY <1>1, HeadIn
    <3>3. Len(Todo(p)) > 1 /\ Todo(p)[2].do = "data"
      BY <1>1, <2>1, <3>1, <3>2
    <3>4. Len(steps) = 0 /\ Len(Todo(p)) \in Nat
      BY <1>1, LenProperties
    <3> HIDE DEF steps
    <3>5. Len(steps) + 2 - 1 \in DOMAIN Todo(p)' /\ Todo(p)'[Len(steps) + 2 - 1] = Todo(p)[2]
      <4>1. 2 \in 2..Len(Todo(p))
        BY <3>3, <3>4
      <4> QED BY <1>1, <1>2, <4>1, StepOrigins
    <3>6. Len(steps) + 2 - 1 = 1
      BY <3>4
    <3>7. Todo(p)' # <<>> /\ Todo(p)'[1].do = "data"
      BY <3>3, <3>5, <3>6
    <3> QED BY <3>7
  <2>2. CASE WriteData(p)
    <3>1. root' = Good(job[p].buf)
      BY <2>2 DEF WriteData
    <3> QED BY <3>1 DEF Good, Torn
  <2> QED BY <2>1, <2>2
<1> HIDE DEF steps
<1> QED BY <1>1, <1>2, <1>4, <1>5, <1>6, <1>8, <1>9, WholeStep

\* A new list of entries is in memory.
LEMMA WholeWriteRoot ==
  ASSUME Types, Types', NEW p \in Procs, WholeAt(p), Todo(p) # <<>>, UNCHANGED disk,
         Todo(p)[1].do \notin {"rm", "blob", "copy", "data"},
         Todo(p)' = <<Do("trunc"), Do("data")>> \o Tail(Todo(p)), job'[p].ref = job[p].ref,
         StoredIn(job'[p].buf, Todo(p)', full)
  PROVE  WholeAt(p)'
<1> DEFINE steps == <<Do("trunc"), Do("data")>>
<1>0. WholeOf(Todo(p), job[p], Coming(p), root, full, part)
  BY WholeIs
<1>1. steps \in Seq(Plans) /\ Len(steps) = 2 /\ DOMAIN steps = 1..2 /\ steps[1].do = "trunc" /\ steps[2].do = "data"
  BY PlansAre DEF Do
<1>2. Light(steps)
  BY <1>1 DEF Light
<1>3. Todo(p) \in Seq(Plans) /\ Todo(p)' = steps \o Tail(Todo(p))
  BY TodoIs
<1> HIDE DEF steps
<1>4. part' = {} /\ root' # Torn /\ root' = root /\ full' = full
  BY <1>0, WholeParts DEF disk
<1>5. Todo(p)' # <<>> /\ Todo(p)'[1].do = "trunc"
  <2>1. 1 \in 1..Len(steps)
    BY <1>1
  <2>2. 1 \in DOMAIN Todo(p)' /\ Todo(p)'[1] = steps[1]
    BY <1>1, <1>3, <2>1, StepOrigins
  <2> QED BY <1>1, <2>2
<1>6. Coming(p)' = job'[p].buf
  BY <1>5, ComingNext
<1>7. StoredIn(Coming(p)', Todo(p)', full')
  BY <1>4, <1>6
<1> QED BY <1>1, <1>2, <1>3, <1>4, <1>5, <1>7, WholeStep

\* An entry added at the end of a list.
LEMMA AppendIs ==
  ASSUME NEW es \in Seq(Listing), NEW e \in Listing
  PROVE  /\ Append(es, e) \in Seq(Listing)
         /\ Len(Append(es, e)) = Len(es) + 1 /\ Append(es, e)[Len(es) + 1] = e
         /\ DOMAIN Append(es, e) = 1..(Len(es) + 1)
         /\ \A j \in DOMAIN es : j \in DOMAIN Append(es, e) /\ Append(es, e)[j] = es[j]
         /\ \A j \in DOMAIN Append(es, e) :
              (j = Len(es) + 1 /\ Append(es, e)[j] = e) \/ (j \in DOMAIN es /\ Append(es, e)[j] = es[j])
<1> DEFINE L == Listing
           a == Append(es, e)
           n == Len(es)
<1>1. es \in Seq(L) /\ e \in L
  OBVIOUS
<1> HIDE DEF L
<1>2. /\ n \in Nat /\ DOMAIN es = 1..n /\ DOMAIN a = 1..(n + 1) /\ a \in Seq(L) /\ Len(a) = n + 1
      /\ \A j \in 1..(n + 1) : IF j = n + 1 THEN a[j] = e ELSE j \in 1..n /\ a[j] = es[j]
      /\ a[n + 1] = e /\ \A j \in 1..n : a[j] = es[j]
  BY <1>1
<1> HIDE DEF a, n
<1>3. \A j \in DOMAIN a : (j = n + 1 /\ a[j] = e) \/ (j \in DOMAIN es /\ a[j] = es[j])
  BY <1>2
<1>4. \A j \in DOMAIN es : j \in DOMAIN a
  BY <1>2
<1> QED BY <1>2, <1>3, <1>4 DEF a, n, L

\* index.json is changed in memory only when it reads well.
LEMMA WholeEdits ==
  ASSUME Types, Types', NEW p \in Procs, WholeAt(p), InitRoot(p) \/ EditRoot(p)
  PROVE  WholeAt(p)'
<1>0. WholeOf(Todo(p), job[p], Coming(p), root, full, part) /\ UNCHANGED disk
  BY WholeIs DEF InitRoot, EditRoot
<1>1. CASE InitRoot(p)
  <2>1. Todo(p) # <<>> /\ Todo(p)[1].do = "init" /\ job[p] \in Jobs
    BY <1>1, AtIs DEF Types, InitRoot
  <2>2. /\ Todo(p)' = <<Do("trunc"), Do("data")>> \o Tail(Todo(p))
        /\ job'[p] = [job[p] EXCEPT !.todo = <<Do("trunc"), Do("data")>> \o Tail(job[p].todo), !.buf = <<>>]
    BY <1>1, Types_InitRoot
  <2>3. job'[p].buf = <<>>
    BY <2>1, <2>2 DEF Jobs
  <2>4. StoredIn(job'[p].buf, Todo(p)', full)
    BY <2>3 DEF StoredIn
  <2>5. job'[p].ref = job[p].ref
    BY <2>1, <2>2 DEF Jobs
  <2> QED BY <1>0, <2>1, <2>2, <2>4, <2>5, WholeWriteRoot
<1>2. CASE EditRoot(p)
  <2>1. At(p, "remove") \/ At(p, "append") \/ At(p, "replace")
    BY <1>2 DEF EditRoot
  <2>2. /\ Todo(p) # <<>> /\ Todo(p) \in Seq(Plans) /\ Todo(p)[1].do \in {"remove", "append", "replace"}
        /\ job[p] \in Jobs /\ Now(p) \in Plans /\ Now(p) = Todo(p)[1] /\ job[p].op # "clean"
        /\ 1 \in DOMAIN Todo(p)
    <3>1. CASE At(p, "remove")
      BY <3>1, AtIs, HeadIs, HeadIn DEF Types
    <3>2. CASE At(p, "append")
      BY <3>2, AtIs, HeadIs, HeadIn DEF Types
    <3>3. CASE At(p, "replace")
      BY <3>3, AtIs, HeadIs, HeadIn DEF Types
    <3> QED BY <2>1, <3>1, <3>2, <3>3
  <2>3. root.is = "good" /\ StoredIn(Coming(p), Todo(p), full)
    BY <1>0, <2>2, WholeParts
  <2>4. /\ Todo(p)' = <<Do("trunc"), Do("data")>> \o Tail(Todo(p))
        /\ job'[p] = [job[p] EXCEPT !.todo = <<Do("trunc"), Do("data")>> \o Tail(job[p].todo), !.buf = Edited(p)]
    BY <1>2, <2>3, Types_EditRoot DEF Readable
  <2>5. job'[p].buf = Edited(p) /\ job'[p].ref = job[p].ref
    BY <2>2, <2>4, JobKeeps DEF Jobs
  <2>6. Coming(p) = root.es
    BY <2>2, ComingIs
  <2>7. \A r : Dropped(Todo(p), r) => (Todo(p)[1].do = "remove" /\ Todo(p)[1].ref = r) \/ Dropped(Todo(p)', r)
    <3> DEFINE steps == <<Do("trunc"), Do("data")>>
    <3>1. steps \in Seq(Plans)
      BY PlansAre
    <3>2. Todo(p)' = steps \o Tail(Todo(p))
      BY <2>4
    <3> HIDE DEF steps
    <3> QED BY <2>2, <3>1, <3>2, DroppedMoves
  <2>8. \A j \in DOMAIN root.es : root.es[j].kind = "index" =>
          \/ Index(root.es[j].dig) \in full
          \/ Todo(p)[1].do = "remove" /\ Todo(p)[1].ref = root.es[j].ref
          \/ Dropped(Todo(p)', root.es[j].ref)
    BY <2>3, <2>6, <2>7 DEF StoredIn
  <2>9. Todo(p)[1].do \in {"append", "replace"} /\ Now(p).e.kind = "index" => Index(Now(p).e.dig) \in full
    <3>1. ~Pending(Todo(p), Index(Now(p).e.dig), 1)
      BY DEF Pending
    <3> QED BY <1>0, <2>2, <3>1 DEF WholeOf, PlannedIn
  <2>10. RootFits /\ root.es \in Seq(Listing)
    BY RootEntries DEF Types
  <2>11. StoredIn(Edited(p), Todo(p)', full)
    <3>1. CASE At(p, "remove")
      <4>1. Edited(p) = WithoutRef(Now(p).ref) /\ Todo(p)[1].do = "remove"
        BY <3>1, HeadIs DEF Edited
      <4>2. SUFFICES ASSUME NEW j \in DOMAIN WithoutRef(Now(p).ref), WithoutRef(Now(p).ref)[j].kind = "index"
                     PROVE  \/ Index(WithoutRef(Now(p).ref)[j].dig) \in full
                            \/ Dropped(Todo(p)', WithoutRef(Now(p).ref)[j].ref)
        BY <4>1 DEF StoredIn
      <4>3. WithoutRef(Now(p).ref)[j].ref # Now(p).ref /\ \E k \in DOMAIN root.es : WithoutRef(Now(p).ref)[j] = root.es[k]
        BY <2>10, WithoutRefIs
      <4> QED BY <2>2, <2>8, <4>2, <4>3
    <3>2. CASE At(p, "append")
      <4>1. Edited(p) = Append(root.es, Now(p).e) /\ Todo(p)[1].do = "append"
        <5>1. Todo(p)[1].do = "append"
          BY <3>2, HeadIs
        <5>2. ~At(p, "remove") /\ ~At(p, "replace")
          BY <5>1, AtHead DEF Types
        <5> QED BY <3>2, <5>1, <5>2 DEF Edited
      <4>2. Now(p).e \in Listing
        BY <2>2, <4>1, PlanParts
      <4>3. \A j \in DOMAIN Edited(p) : Edited(p)[j] = Now(p).e \/ (j \in DOMAIN root.es /\ Edited(p)[j] = root.es[j])
        BY <2>10, <4>1, <4>2, AppendIs
      <4> QED BY <2>8, <2>9, <4>1, <4>3 DEF StoredIn
    <3>3. CASE At(p, "replace")
      <4> DEFINE e == Now(p).e
                 rest == WithoutRef(e.ref)
      <4>1. Edited(p) = Append(rest, e) /\ Todo(p)[1].do = "replace"
        <5>1. Todo(p)[1].do = "replace"
          BY <3>3, HeadIs
        <5>2. ~At(p, "remove") /\ ~At(p, "append")
          BY <5>1, AtHead DEF Types
        <5> QED BY <3>3, <5>1, <5>2 DEF Edited
      <4>2. e \in Listing
        BY <2>2, <4>1, PlanParts
      <4>3. rest \in Seq(Listing) /\ \A j \in DOMAIN rest : \E k \in DOMAIN root.es : rest[j] = root.es[k]
        BY <2>10, WithoutRefIs
      <4>4. e.kind = "index" => Index(e.dig) \in full
        BY <2>9, <4>1
      <4> HIDE DEF e, rest
      <4>5. \A j \in DOMAIN Edited(p) : Edited(p)[j] = e \/ (j \in DOMAIN rest /\ Edited(p)[j] = rest[j])
        BY <4>1, <4>2, <4>3, AppendIs
      <4> QED BY <2>8, <4>1, <4>3, <4>4, <4>5 DEF StoredIn
    <3> QED BY <2>1, <3>1, <3>2, <3>3
  <2> QED BY <1>0, <2>2, <2>4, <2>5, <2>11, WholeWriteRoot
<1> QED BY <1>1, <1>2

\* A command that has no list of its own to write ends, or goes on with other steps.
LEMMA WholeAgain ==
  ASSUME Types, Types', NEW p \in Procs, WholeAt(p), Todo(p) # <<>>, UNCHANGED disk,
         Todo(p)[1].do \notin Leading \cup {"init", "clean"}, job[p].op # "clean",
         Shape(Todo(p)', job'[p].ref), PlannedIn(Todo(p)', full),
         Todo(p)' = <<>> \/ Todo(p)'[1].do \notin {"trunc", "data"}
  PROVE  WholeAt(p)'
<1>1. WholeOf(Todo(p), job[p], Coming(p), root, full, part)
  BY WholeIs
<1>2. Todo(p) \in Seq(Plans) /\ Todo(p)[1].do \notin Leading \cup {"init"}
  BY TodoIs
<1>3. WholeOf(<<>>, job[p], Coming(p), root, full, part)
  BY <1>1, <1>2, WholeEnds
<1>4. Coming(p) = root.es /\ Coming(p)' = root'.es /\ root' = root /\ full' = full /\ part' = part
  BY ComingIs, ComingNext DEF Leading, disk
<1>5. root.is = "good"
  BY <1>1, WholeParts DEF Leading
<1>6. WholeOf(Todo(p)', job'[p], Coming(p), root, full, part)
  BY <1>3, <1>5, WholeStarts
<1> QED BY <1>4, <1>6, WholeNext

\* Steps that neither remove nor merge nor list an index.
LEMMA PlainShape ==
  ASSUME NEW u, NEW r, NEW F, \A k \in DOMAIN u :
           u[k].do \notin {"remove", "rm", "index"} /\ (u[k].do \in {"append", "replace"} => u[k].e.kind = "image")
  PROVE  Shape(u, r) /\ PlannedIn(u, F)
BY DEF Shape, DropsEarly, DropsBoth, MergesLast, PlannedIn

\* A command that ends leaves files whole.
LEMMA WholeEnded ==
  ASSUME Types, Types', NEW p \in Procs, WholeAt(p), Todo(p) # <<>>, UNCHANGED disk,
         Todo(p)[1].do \notin Leading \cup {"init", "clean"}, job[p].op # "clean", Todo(p)' = <<>>
  PROVE  WholeAt(p)'
<1>1. DOMAIN Todo(p)' = {}
  OBVIOUS
<1>2. Shape(Todo(p)', job'[p].ref) /\ PlannedIn(Todo(p)', full)
  BY <1>1, PlainShape
<1> QED BY <1>2, WholeAgain

\* What a return sets.
LEMMA ReturnEnds ==
  ASSUME Types, NEW p \in Procs, NEW ok, Return(p, ok)
  PROVE  Todo(p)' = <<>> /\ job'[p].op = job[p].op /\ job'[p].ref = job[p].ref /\ job'[p].arch = job[p].arch
         /\ job'[p].got = job[p].got /\ job'[p].ok = ok
<1>1. job \in [Procs -> Jobs]
  BY DEF Types, JobsFit
<1> QED BY <1>1 DEF Return, Todo, Jobs

\* A pull that has been validated, or a write that is done, leaves files whole.
LEMMA WholeReturns ==
  ASSUME Types, Types', NEW p \in Procs, WholeAt(p), Validate(p) \/ Finish(p)
  PROVE  WholeAt(p)'
<1>1. Todo(p) # <<>> /\ Todo(p)[1].do \in {"validate", "return"} /\ job[p].op # "clean"
  <2>1. CASE At(p, "validate")
    BY <2>1, HeadIs
  <2>2. CASE At(p, "return")
    BY <2>2, HeadIs
  <2> QED BY <2>1, <2>2 DEF Validate, Finish
<1>2. Todo(p)' = <<>>
  BY ReturnEnds DEF Validate, Finish
<1> QED BY <1>1, <1>2, WholeEnded DEF Validate, Finish, Leading

\* The steps that put the new index in the place of the old one.
LEMMA PutsShape ==
  ASSUME Types, NEW p \in Procs, At(p, "index"), NEW s, NEW steps, Puts(p, job[p].ref, s, steps)
  PROVE  /\ Shape(steps, job[p].ref)
         /\ \A k \in DOMAIN steps : steps[k].do \in Leading \cup {"append"}
         /\ \A k \in DOMAIN steps : steps[k].do \in {"append", "replace"} =>
              k = Len(steps) /\ steps[k] = AppendTo(Entry(job[p].ref, IndexOf(s)))
         /\ Pending(steps, Index(s), Len(steps))
         /\ steps \in Seq(Plans) /\ Len(steps) \in DOMAIN steps
         /\ steps[Len(steps)] = AppendTo(Entry(job[p].ref, IndexOf(s)))
<1> DEFINE r == job[p].ref
<1>0. r \in Refs /\ r[2] = Plain /\ s \in Seq(Images) /\ s # <<>> /\ Fits(s, r[1])
  <2>1. r \in Refs /\ r = Ref(r[1]) /\ s \in Seq(Images) /\ s # <<>> /\ Fits(s, r[1])
    BY DEF Puts
  <2> QED BY <2>1, RefsAre
<1>1. PICK h \in {0, 1} :
        /\ Len(steps) = 3 + h /\ DOMAIN steps = 1..(3 + h)
        /\ h = 1 => LET old == root.es[First(OfKind(root.es, r, "index"))].dig IN
                    steps[1] = [do |-> "rm", d |-> Index(old)]
        /\ steps[h + 1] = Blob(Index(s)) /\ steps[h + 2] = Unlist(r)
        /\ steps[h + 3] = AppendTo(Entry(r, IndexOf(s)))
  BY PutsAre
<1>2. steps \in Seq(Plans)
  BY PutsAre
<1> HIDE DEF r
<1>3. /\ h = 1 => steps[1].do = "rm"
      /\ steps[h + 1].do = "blob" /\ steps[h + 1].d = Index(s)
      /\ steps[h + 2].do = "remove" /\ steps[h + 2].ref = r
      /\ steps[h + 3].do = "append"
  BY <1>1 DEF Blob, Unlist, AppendTo
<1>4. \A k \in DOMAIN steps : (h = 1 /\ k = 1) \/ k = h + 1 \/ k = h + 2 \/ k = h + 3
  BY <1>1
<1>5. h + 2 \in DOMAIN steps /\ h + 3 \in DOMAIN steps /\ h + 3 = Len(steps) /\ h + 1 \in 1..(Len(steps) - 1)
  BY <1>1
<1>6. Dropped(steps, r)
  BY <1>3, <1>5 DEF Dropped
<1>7. DropsEarly(steps)
  BY <1>1, <1>3, <1>4 DEF DropsEarly, Leading
<1>8. DropsBoth(steps, r) /\ MergesLast(steps)
  BY <1>3, <1>4, <1>6 DEF DropsBoth, MergesLast
<1>9. Pending(steps, Index(s), Len(steps))
  BY <1>3, <1>5 DEF Pending
<1>10. \A k \in DOMAIN steps : steps[k].do \in Leading \cup {"append"}
  BY <1>3, <1>4 DEF Leading
<1>11. \A k \in DOMAIN steps : steps[k].do \in {"append", "replace"} =>
         k = Len(steps) /\ steps[k] = AppendTo(Entry(r, IndexOf(s)))
  BY <1>1, <1>3, <1>4
<1> QED BY <1>1, <1>2, <1>5, <1>7, <1>8, <1>9, <1>10, <1>11 DEF Shape, r

\* A merge writes the index before the entry that names it.
LEMMA WholeIndex ==
  ASSUME Types, Types', NEW p \in Procs, WholeAt(p), IndexWrite(p)
  PROVE  WholeAt(p)'
<1>0. WholeOf(Todo(p), job[p], Coming(p), root, full, part) /\ UNCHANGED disk
  BY WholeIs DEF IndexWrite
<1>1. /\ At(p, "index") /\ Todo(p) # <<>> /\ Todo(p) \in Seq(Plans) /\ Todo(p)[1].do = "index"
      /\ job[p].op # "clean" /\ job[p].op # "load" /\ job[p].ref \in Refs
  <2>1. At(p, "index")
    BY DEF IndexWrite
  <2>2. "index" \in DoneBy(job[p].op)
    BY <2>1, AtIs DEF Types
  <2>3. job[p].op # "load"
    BY <2>2 DEF DoneBy
  <2> QED BY <2>1, <2>3, HeadIs
<1>2. CASE Fail(p)
  <2>1. Todo(p)' = <<>>
    BY <1>2, ReturnEnds DEF Fail
  <2> QED BY <1>0, <1>1, <2>1, WholeEnded DEF Leading
<1>3. CASE \E s, steps : Puts(p, job[p].ref, s, steps) /\ Then(p, steps)
  <2>1. PICK s, steps : Puts(p, job[p].ref, s, steps) /\ Then(p, steps)
    BY <1>3
  <2>2. /\ Shape(steps, job[p].ref)
        /\ \A k \in DOMAIN steps : steps[k].do \in Leading \cup {"append"}
        /\ \A k \in DOMAIN steps : steps[k].do \in {"append", "replace"} =>
             k = Len(steps) /\ steps[k] = AppendTo(Entry(job[p].ref, IndexOf(s)))
        /\ Pending(steps, Index(s), Len(steps))
        /\ steps \in Seq(Plans) /\ Fresh(steps, job[p])
    BY <1>1, <2>1, PutsShape, PutsAre, ZenonT(60)
  <2>3. /\ Todo(p)' = steps \o Tail(Todo(p))
        /\ job'[p] = [job[p] EXCEPT !.todo = steps \o Tail(job[p].todo)]
    BY <1>1, <2>1, <2>2, ThenFits DEF Types
  <2>4. job'[p].ref = job[p].ref
    BY <2>3, JobKeeps
  <2>5. \A k \in 2..Len(Todo(p)) : Todo(p)[k].do \in Rest \cup {"return"}
    <3>1. 1 \in DOMAIN Todo(p) /\ DOMAIN Todo(p) = 1..Len(Todo(p))
      BY <1>1, HeadIn
    <3>2. MergesLast(Todo(p))
      BY <1>0 DEF WholeOf, Shape
    <3>3. \A k \in 2..Len(Todo(p)) : k \in DOMAIN Todo(p) /\ 1 < k
      BY <3>1
    <3> QED BY <1>1, <3>1, <3>2, <3>3 DEF MergesLast
  <2>6. \A k \in 2..Len(Todo(p)) : Todo(p)[k].do # "remove" /\ Todo(p)[k].do \notin {"append", "replace"}
    BY <2>5 DEF Rest
  <2>7. \A k \in DOMAIN steps : steps[k].do \in {"append", "replace"} /\ steps[k].e.kind = "index" =>
          Pending(steps, Index(steps[k].e.dig), k)
    <3>1. AppendTo(Entry(job[p].ref, IndexOf(s))).e.dig = s
      BY DEF AppendTo, Entry, IndexOf
    <3> QED BY <2>2, <3>1
  <2>8. part = {} /\ root # Torn /\ root.is = "good" /\ StoredIn(Coming(p), Todo(p), full)
    BY <1>0, <1>1, WholeParts
  <2>9. root' = root /\ full' = full /\ part' = {}
    BY <1>0, <2>8 DEF disk
  <2>10. Coming(p)' = Coming(p)
    <3>1. \A k \in DOMAIN steps : steps[k].do \notin {"trunc", "data"}
      <4>1. \A k \in DOMAIN steps : steps[k].do \in {"rm", "blob", "remove", "append"}
        <5>1. \E h \in {0, 1} :
              /\ Len(steps) = 3 + h /\ DOMAIN steps = 1..(3 + h)
              /\ h = 1 => LET old == root.es[First(OfKind(root.es, job[p].ref, "index"))].dig IN
                          steps[1] = [do |-> "rm", d |-> Index(old)] /\ Index(old) \in full
              /\ steps[h + 1] = Blob(Index(s)) /\ steps[h + 2] = Unlist(job[p].ref)
              /\ steps[h + 3] = AppendTo(Entry(job[p].ref, IndexOf(s)))
          BY <1>1, <2>1, PutsAre
        <5> QED BY <5>1 DEF Blob, Unlist, AppendTo
      <4> QED BY <4>1
    <3>2. Todo(p)' = <<>> \/ Todo(p)'[1].do \notin {"trunc", "data"}
      BY <1>1, <2>2, <2>3, <3>1, NextQuiet DEF Types
    <3> QED BY <1>1, <2>9, <3>2, ComingIs, ComingNext
  <2>11. StoredIn(Coming(p)', Todo(p)', full')
    <3>1. StoredIn(Coming(p), Todo(p)', full)
      BY <1>1, <2>2, <2>3, <2>8, StoredGrows
    <3> QED BY <2>9, <2>10, <3>1
  <2>12. WholeOf(Todo(p)', job'[p], Coming(p)', root', full', part')
    <3> DEFINE F == full'
               r2 == root'
               Q == part'
               es2 == Coming(p)'
               u == Todo(p)'
               w == job'[p]
    <3>1. /\ F = full /\ r2 = root /\ Q = {} /\ StoredIn(es2, u, F)
          /\ u = steps \o Tail(Todo(p)) /\ w.ref = job[p].ref
      BY <2>3, <2>4, <2>9, <2>11
    <3> HIDE DEF F, r2, Q, es2, u, w
    <3>2. WholeOf(u, w, es2, r2, F, Q)
      <4>1. full \subseteq F
        BY <3>1
      <4>2. Todo(p)[1].do \notin {"blob", "copy", "rm"}
        BY <1>1
      <4>3. r2 # Torn /\ r2.is = "good"
        BY <2>8, <3>1
      <4>4. \A d \in Q : FALSE
        BY <3>1
      <4>5. \A k \in 2..Len(Todo(p)) : Todo(p)[k].do # "remove"
        BY <2>6
      <4>6. \A k \in 2..Len(Todo(p)) : Todo(p)[k].do \notin {"append", "replace"}
        BY <2>6
      <4> QED BY <1>0, <1>1, <2>2, <2>5, <2>7, <3>1, <4>1, <4>2, <4>3, <4>4, <4>5, <4>6, WholeMoves
    <3> QED BY <3>2 DEF F, r2, Q, es2, u, w
  <2> QED BY <2>12, WholeNext
<1> QED BY <1>2, <1>3, IndexWriteDoes

\* The steps that a command begins with remove early and merge last.
Settled(u) ==
  /\ DropsEarly(u) /\ MergesLast(u)
  /\ \A k \in DOMAIN u : u[k].do \notin {"rm", "trunc", "data", "replace"} /\ (u[k].do = "append" => u[k].e.kind = "image")

\* Steps that change no index are settled.
LEMMA SettledPlain ==
  ASSUME NEW u, \A k \in DOMAIN u : u[k].do \in {"fetch", "look", "push", "return"}
  PROVE  Settled(u)
BY DEF Settled, DropsEarly, MergesLast

\* Settled steps are in order.
LEMMA SettledShape ==
  ASSUME NEW u, Settled(u), NEW r, NEW F
  PROVE  Shape(u, r) /\ PlannedIn(u, F)
BY DEF Settled, Shape, DropsBoth, PlannedIn

\* With index.json created first where it is missing they stay so.
LEMMA SettledFirst ==
  ASSUME NEW steps \in Seq(Plans), Settled(steps)
  PROVE  Settled(FirstSteps(steps))
<1> DEFINE u == FirstSteps(steps)
           P == Plans
<1>1. CASE root # NoRoot
  BY <1>1, FirstStepsAre
<1>2. CASE root = NoRoot
  <2>1. /\ u \in Seq(P) /\ steps \in Seq(P) /\ Len(u) = Len(steps) + 1 /\ u[1] = Do("init")
        /\ \A k \in 1..Len(steps) : u[k + 1] = steps[k]
    BY <1>2, FirstStepsAre
  <2> HIDE DEF P, u
  <2>2. Len(steps) \in Nat /\ DOMAIN u = 1..(Len(steps) + 1) /\ DOMAIN steps = 1..Len(steps)
    BY <2>1
  <2>3. ASSUME NEW k \in DOMAIN u, k # 1
        PROVE  k - 1 \in DOMAIN steps /\ u[k] = steps[k - 1]
    <3>1. k - 1 \in 1..Len(steps) /\ (k - 1) + 1 = k
      BY <2>2, <2>3
    <3> QED BY <2>1, <2>2, <3>1
  <2>4. u[1].do = "init"
    BY <2>1 DEF Do
  <2>5. DropsEarly(u)
    <3>1. SUFFICES ASSUME NEW k \in DOMAIN u, u[k].do = "remove", NEW j \in 1..(k - 1), j # 1
                   PROVE  u[j].do \in Leading \cup {"init"}
      BY <2>4 DEF DropsEarly
    <3>2. k # 1 /\ j \in DOMAIN u
      BY <2>2, <2>4, <3>1
    <3>3. k - 1 \in DOMAIN steps /\ u[k] = steps[k - 1] /\ u[j] = steps[j - 1] /\ j - 1 \in 1..((k - 1) - 1)
      BY <2>2, <2>3, <3>1, <3>2
    <3>4. ASSUME NEW a \in DOMAIN steps, steps[a].do = "remove", NEW b \in 1..(a - 1)
          PROVE  steps[b].do \in Leading \cup {"init"}
      BY <3>4 DEF Settled, DropsEarly
    <3> QED BY <3>1, <3>3, <3>4
  <2>6. MergesLast(u)
    <3>1. SUFFICES ASSUME NEW j \in DOMAIN u, NEW k \in DOMAIN u, u[j].do = "index", j < k
                   PROVE  u[k].do \in Rest \cup {"return"}
      BY DEF MergesLast
    <3>2. j # 1 /\ k # 1
      BY <2>2, <2>4, <3>1
    <3>3. /\ j - 1 \in DOMAIN steps /\ u[j] = steps[j - 1] /\ k - 1 \in DOMAIN steps /\ u[k] = steps[k - 1]
          /\ j - 1 < k - 1
      BY <2>2, <2>3, <3>1, <3>2
    <3>4. ASSUME NEW a \in DOMAIN steps, NEW b \in DOMAIN steps, steps[a].do = "index", a < b
          PROVE  steps[b].do \in Rest \cup {"return"}
      BY <3>4 DEF Settled, MergesLast
    <3> QED BY <3>1, <3>3, <3>4
  <2>7. \A k \in DOMAIN u : u[k].do \notin {"rm", "trunc", "data", "replace"} /\ (u[k].do = "append" => u[k].e.kind = "image")
    <3>1. \A k \in DOMAIN steps : steps[k].do \notin {"rm", "trunc", "data", "replace"}
                                  /\ (steps[k].do = "append" => steps[k].e.kind = "image")
      BY DEF Settled
    <3> QED BY <2>3, <2>4, <3>1
  <2>8. Settled(u)
    BY <2>5, <2>6, <2>7 DEF Settled
  <2> QED BY <2>8 DEF u
<1> QED BY <1>1, <1>2

\* A command begins: it has pulled nothing yet.
LEMMA BeginsSettled ==
  ASSUME Types, NEW p \in Procs,
         BeginPull(p) \/ BeginLoad(p) \/ BeginIndexWrite(p) \/ BeginDescriptorWrite(p) \/ BeginPush(p)
  PROVE  /\ Todo(p) = <<>> /\ UNCHANGED <<disk, remote, faults>>
         /\ \E steps \in Seq(Plans) : Settled(steps) /\ Todo(p)' = FirstSteps(steps)
         /\ job'[p].got = Nothing /\ job'[p].ok = FALSE
<1>1. ASSUME NEW op, NEW r, NEW a, NEW steps, Begin(p, op, r, a, steps), steps \in Seq(Plans), Settled(steps)
      PROVE  /\ Todo(p) = <<>> /\ UNCHANGED <<disk, remote, faults>>
             /\ \E s \in Seq(Plans) : Settled(s) /\ Todo(p)' = FirstSteps(s)
             /\ job'[p].got = Nothing /\ job'[p].ok = FALSE
  <2>1. /\ Todo(p) = <<>> /\ Todo(p)' = FirstSteps(steps)
        /\ job'[p] = [Idle EXCEPT !.op = op, !.ref = r, !.arch = a, !.todo = FirstSteps(steps)]
        /\ \A q \in Procs : q # p => job'[q] = job[q]
        /\ UNCHANGED <<disk, remote, faults>>
    BY <1>1, BeginDoes
  <2>2. job'[p].got = Nothing /\ job'[p].ok = FALSE
    BY <2>1 DEF Idle
  <2> QED BY <1>1, <2>1, <2>2
<1>2. CASE BeginPull(p)
  <2>1. PICK n \in Names, a \in Arches, steps \in {<<Do("fetch")>>, <<Do("look"), Do("fetch")>>} :
              Begin(p, "pull", Ref(n), a, steps)
    BY <1>2, PullBegins
  <2>2. steps \in Seq(Plans) /\ \A k \in DOMAIN steps : steps[k] \in {Do("fetch"), Do("look")}
    <3>1. Do("fetch") \in Plans /\ Do("look") \in Plans
      BY PlansAre
    <3>2. CASE steps = <<Do("fetch")>>
      BY <3>1, <3>2, Tuples
    <3>3. CASE steps = <<Do("look"), Do("fetch")>>
      BY <3>1, <3>3, Tuples
    <3> QED BY <2>1, <3>2, <3>3
  <2>3. Settled(steps)
    <3>1. \A k \in DOMAIN steps : steps[k].do \in {"fetch", "look", "push", "return"}
      BY <2>2 DEF Do
    <3> QED BY <3>1, SettledPlain
  <2> QED BY <1>1, <2>1, <2>2, <2>3
<1>3. CASE BeginLoad(p)
  <2>0. PICK n \in Names : \E i \in Loads[n] : \E bs \in {WriteImage(i), Reverse(WriteImage(i))} :
              /\ PlatOf[i] # NoPlat
              /\ LET r == Tag(n, PlatOf[i].arch) IN
                 Begin(p, "load", r, PlatOf[i].arch,
                       bs \o <<Unlist(r), AppendTo(Entry(r, ImageOf(i))), Do("return")>>)
    BY <1>3, LoadBegins
  <2>1. PICK i \in Loads[n] : \E bs \in {WriteImage(i), Reverse(WriteImage(i))} :
              /\ PlatOf[i] # NoPlat
              /\ LET r == Tag(n, PlatOf[i].arch) IN
                 Begin(p, "load", r, PlatOf[i].arch,
                       bs \o <<Unlist(r), AppendTo(Entry(r, ImageOf(i))), Do("return")>>)
    BY <2>0
  <2> DEFINE r == Tag(n, PlatOf[i].arch)
             e == Entry(r, ImageOf(i))
             end == <<Unlist(r), AppendTo(e), Do("return")>>
  <2>2. PICK bs \in {WriteImage(i), Reverse(WriteImage(i))} :
          PlatOf[i] # NoPlat /\ Begin(p, "load", r, PlatOf[i].arch, bs \o end)
    BY <2>1
  <2>3. i \in Images /\ r \in Refs /\ r[2] # Plain
    BY <2>2, LoadsAre, RefsAre
  <2>4. e \in Listing /\ e.kind = "image"
    BY <2>3, ContentsAre, EntryIs DEF ImageOf
  <2>5. /\ end \in Seq(Plans) /\ DOMAIN end = 1..3 /\ Len(end) = 3
        /\ end[1].do = "remove" /\ end[2].do = "append" /\ end[2].e.kind = "image" /\ end[3].do = "return"
    <3> HIDE DEF e, r
    <3>1. Unlist(r) \in Plans /\ AppendTo(e) \in Plans /\ Do("return") \in Plans
      BY <2>3, <2>4, PlansAre
    <3>2. Unlist(r).do = "remove" /\ AppendTo(e).do = "append" /\ AppendTo(e).e = e /\ Do("return").do = "return"
      BY DEF Unlist, AppendTo, Do
    <3> QED BY <2>4, <3>1, <3>2, Tuples
  <2>6. bs \in Seq(Plans) /\ \A k \in DOMAIN bs : bs[k].do = "blob"
    <3>1. Blob(Manifest(i)) \in Plans /\ Blob(Layers(i)) \in Plans
      BY <2>3, PlansAre, BlobsAre
    <3>2. bs = <<Blob(Layers(i)), Blob(Manifest(i))>> \/ bs = <<Blob(Manifest(i)), Blob(Layers(i))>>
      BY <2>3, WriteImageIs DEF WriteImage
    <3>3. bs \in Seq(Plans) /\ \A k \in DOMAIN bs : bs[k] \in {Blob(Layers(i)), Blob(Manifest(i))}
      <4>1. CASE bs = <<Blob(Layers(i)), Blob(Manifest(i))>>
        BY <3>1, <4>1, Tuples
      <4>2. CASE bs = <<Blob(Manifest(i)), Blob(Layers(i))>>
        BY <3>1, <4>2, Tuples
      <4> QED BY <3>2, <4>1, <4>2
    <3> QED BY <3>3 DEF Blob
  <2> DEFINE P == Plans
             u == bs \o end
             l == Len(bs)
  <2>8. /\ u \in Seq(P) /\ DOMAIN u = 1..(l + 3) /\ l \in Nat
        /\ DOMAIN bs = 1..l
        /\ \A k \in 1..(l + 3) :
              IF k <= l THEN k \in 1..l /\ u[k] = bs[k]
              ELSE k - l \in 1..3 /\ u[k] = end[k - l]
    <3>1. bs \in Seq(P) /\ end \in Seq(P)
      BY <2>5, <2>6
    <3> HIDE DEF P, end
    <3>2. Len(bs) \in Nat
      BY <3>1
    <3>3. /\ u \in Seq(P) /\ DOMAIN u = 1..(Len(bs) + Len(end))
          /\ DOMAIN bs = 1..Len(bs) /\ DOMAIN end = 1..Len(end)
          /\ \A k \in 1..(Len(bs) + Len(end)) :
                IF k <= Len(bs) THEN k \in 1..Len(bs) /\ u[k] = bs[k]
                ELSE k - Len(bs) \in 1..Len(end) /\ u[k] = end[k - Len(bs)]
      BY <3>1, TwoLists
    <3>4. Len(end) = 3
      BY <2>5
    <3> HIDE DEF u
    <3> QED BY <3>2, <3>3, <3>4
  <2> HIDE DEF u, end, l
  <2>9. ASSUME NEW k \in DOMAIN u
        PROVE  u[k].do \in {"blob", "remove", "append", "return"}
               /\ (u[k].do = "append" => u[k].e.kind = "image") /\ (u[k].do = "remove" => k = l + 1)
    <3>1. CASE k <= l
      <4>1. u[k] = bs[k] /\ k \in DOMAIN bs
        BY <2>8, <3>1
      <4> QED BY <2>6, <4>1
    <3>2. CASE k > l
      <4>1. k - l \in 1..3 /\ u[k] = end[k - l]
        BY <2>8, <3>2
      <4>2. k - l = 1 \/ k - l = 2 \/ k - l = 3
        BY <4>1
      <4>3. k - l = 1 => k = l + 1
        BY <2>8
      <4> QED BY <2>5, <4>1, <4>2, <4>3
    <3> QED BY <2>8, <3>1, <3>2
  <2>10. DropsEarly(u)
    <3>1. SUFFICES ASSUME NEW k \in DOMAIN u, u[k].do = "remove", NEW j \in 1..(k - 1)
                   PROVE  u[j].do \in Leading \cup {"init"}
      BY DEF DropsEarly
    <3>2. k = l + 1
      BY <2>9, <3>1
    <3>3. u[j] = bs[j] /\ j \in DOMAIN bs
      BY <2>8, <3>2
    <3> QED BY <2>6, <3>3 DEF Leading
  <2>11. Settled(u)
    BY <2>9, <2>10 DEF Settled, MergesLast
  <2>12. u \in Seq(Plans) /\ Begin(p, "load", r, PlatOf[i].arch, u)
    BY <2>2, <2>8 DEF u
  <2> HIDE DEF r
  <2> QED BY <1>1, <2>11, <2>12
<1>4. CASE BeginIndexWrite(p)
  <2>0. PICK n \in Names : \E i \in Loads[n] :
              Begin(p, "index", Ref(n), Plain, <<[do |-> "index", add |-> <<i>>], Do("return")>>)
    BY <1>4, IndexWriteBegins
  <2> DEFINE first(i) == [do |-> "index", add |-> <<i>>]
  <2>1. PICK i \in Loads[n] : Begin(p, "index", Ref(n), Plain, <<first(i), Do("return")>>)
    BY <2>0
  <2>2. <<i>> \in Seq(Images)
    BY LoadsAre
  <2>3. first(i) \in Plans /\ first(i).do = "index" /\ Do("return") \in Plans /\ Do("return").do = "return"
    BY <2>2, PlansAre
  <2> HIDE DEF first
  <2> DEFINE u == <<first(i), Do("return")>>
  <2>4. u \in Seq(Plans) /\ DOMAIN u = 1..2 /\ u[1].do = "index" /\ u[2].do = "return"
    BY <2>3, Tuples
  <2> HIDE DEF u
  <2>5. \A k \in DOMAIN u : k = 1 \/ k = 2
    BY <2>4
  <2>6. \A k \in DOMAIN u : u[k].do \in {"index", "return"}
    BY <2>4, <2>5
  <2>7. MergesLast(u)
    BY <2>4, <2>5 DEF MergesLast
  <2>8. Settled(u)
    BY <2>6, <2>7 DEF Settled, DropsEarly
  <2> QED BY <1>1, <2>1, <2>4, <2>8 DEF u
<1>5. CASE BeginDescriptorWrite(p)
  <2>1. PICK n \in Names : \E i \in Loads[n] :
              Begin(p, "descriptor", Ref(n), Plain,
                    <<Unlist(Ref(n)), AppendTo(Entry(Ref(n), ImageOf(i))), Do("return")>>)
    BY <1>5, DescriptorWriteBegins
  <2>2. PICK i \in Loads[n] :
              Begin(p, "descriptor", Ref(n), Plain,
                    <<Unlist(Ref(n)), AppendTo(Entry(Ref(n), ImageOf(i))), Do("return")>>)
    BY <2>1
  <2> DEFINE r == Ref(n)
             e == Entry(r, ImageOf(i))
             u == <<Unlist(r), AppendTo(e), Do("return")>>
  <2>3. i \in Images /\ r \in Refs
    BY LoadsAre, RefsAre
  <2>4. e \in Listing /\ e.kind = "image"
    BY <2>3, ContentsAre, EntryIs DEF ImageOf
  <2>5. /\ u \in Seq(Plans) /\ DOMAIN u = 1..3
        /\ u[1].do = "remove" /\ u[2].do = "append" /\ u[2].e.kind = "image" /\ u[3].do = "return"
    <3> HIDE DEF e, r
    <3>1. Unlist(r) \in Plans /\ AppendTo(e) \in Plans /\ Do("return") \in Plans
      BY <2>3, <2>4, PlansAre
    <3>2. Unlist(r).do = "remove" /\ AppendTo(e).do = "append" /\ AppendTo(e).e = e /\ Do("return").do = "return"
      BY DEF Unlist, AppendTo, Do
    <3> QED BY <2>4, <3>1, <3>2, Tuples
  <2>6. Begin(p, "descriptor", r, Plain, u)
    BY <2>2
  <2> HIDE DEF u, e, r
  <2>7. \A k \in DOMAIN u : k = 1 \/ k = 2 \/ k = 3
    BY <2>5
  <2>8. DropsEarly(u)
    BY <2>5, <2>7 DEF DropsEarly
  <2>9. Settled(u)
    BY <2>5, <2>7, <2>8 DEF Settled, MergesLast
  <2> QED BY <1>1, <2>5, <2>6, <2>9
<1>6. CASE BeginPush(p)
  <2>1. PICK n \in Names : Begin(p, "push", Ref(n), Plain, <<Do("push")>>)
    BY <1>6, PushBegins
  <2> DEFINE u == <<Do("push")>>
  <2>2. u \in Seq(Plans) /\ DOMAIN u = 1..1 /\ u[1].do = "push"
    BY PlansAre, Tuples
  <2>3. Begin(p, "push", Ref(n), Plain, u)
    BY <2>1
  <2> HIDE DEF u
  <2>4. Settled(u)
    <3>1. \A k \in DOMAIN u : u[k].do \in {"fetch", "look", "push", "return"}
      BY <2>2
    <3> QED BY <3>1, SettledPlain
  <2> QED BY <1>1, <2>2, <2>3, <2>4
<1> QED BY <1>2, <1>3, <1>4, <1>5, <1>6

\* A command begins with files whole.
LEMMA WholeBegins ==
  ASSUME Types, Types', NEW p \in Procs, WholeAt(p),
         BeginPull(p) \/ BeginLoad(p) \/ BeginIndexWrite(p) \/ BeginDescriptorWrite(p) \/ BeginPush(p) \/ BeginClean(p)
  PROVE  WholeAt(p)'
<1> DEFINE u == Todo(p)'
           w == job'[p]
<1>1. /\ Todo(p) = <<>> /\ UNCHANGED disk
      /\ \A r : Shape(u, r) /\ PlannedIn(u, full)
      /\ u = <<>> \/ u[1].do \notin {"trunc", "data"}
      /\ root = NoRoot => u # <<>> /\ u[1].do \in {"init", "clean"}
  <2>1. CASE BeginClean(p)
    <3>1. Todo(p) = <<>> /\ u = <<Do("clean")>> /\ UNCHANGED disk
      BY <2>1, CleanBegins
    <3> HIDE DEF u
    <3>2. DOMAIN u = 1..1 /\ u[1].do = "clean" /\ u # <<>>
      BY <3>1, PlansAre, Tuples
    <3>3. \A k \in DOMAIN u : u[k].do = "clean"
      BY <3>2
    <3>4. \A r : Shape(u, r) /\ PlannedIn(u, full)
      BY <3>3, PlainShape
    <3> QED BY <3>1, <3>2, <3>4
  <2>2. CASE BeginPull(p) \/ BeginLoad(p) \/ BeginIndexWrite(p) \/ BeginDescriptorWrite(p) \/ BeginPush(p)
    <3>1. Todo(p) = <<>> /\ UNCHANGED disk
      BY <2>2, BeginsSettled
    <3>2. PICK steps \in Seq(Plans) : Settled(steps) /\ u = FirstSteps(steps)
      BY <2>2, BeginsSettled
    <3> HIDE DEF u
    <3>3. Settled(u)
      BY <3>2, SettledFirst
    <3>4. u \in Seq(Plans)
      BY <3>2, FirstStepsAre
    <3>5. u = <<>> \/ 1 \in DOMAIN u
      BY <3>4, HeadIn
    <3>6. u = <<>> \/ u[1].do \notin {"trunc", "data"}
      BY <3>3, <3>5 DEF Settled
    <3>7. root = NoRoot => u # <<>> /\ u[1].do = "init"
      <4> SUFFICES ASSUME root = NoRoot PROVE u # <<>> /\ u[1].do = "init"
        OBVIOUS
      <4>1. Len(u) = Len(steps) + 1 /\ u[1] = Do("init")
        BY <3>2, FirstStepsAre
      <4>2. Len(steps) \in Nat /\ Len(<<>>) = 0
        BY <3>2
      <4>3. u # <<>>
        BY <4>1, <4>2
      <4> QED BY <4>1, <4>3 DEF Do
    <3> QED BY <3>1, <3>3, <3>6, <3>7, SettledShape
  <2> QED BY <2>1, <2>2
<1>2. Coming(p) = root.es /\ Coming(p)' = root.es /\ root' = root /\ full' = full /\ part' = part
  BY <1>1, ComingIs, ComingNext DEF disk
<1>3. WholeOf(<<>>, job[p], root.es, root, full, part)
  BY <1>1, <1>2, WholeIs
<1> HIDE DEF u, w
<1>4. u # <<>> /\ u[1].do \notin {"init", "trunc", "data", "clean"} => root.is = "good"
  <2>1. root # Torn
    BY <1>3 DEF WholeOf
  <2>2. root = NoRoot \/ root.is = "good"
    BY <2>1 DEF Types, RootFits, Good
  <2> QED BY <1>1, <2>2
<1>5. WholeOf(u, w, root.es, root, full, part)
  BY <1>1, <1>3, <1>4, WholeStarts, Zenon
<1> QED BY <1>2, <1>5, WholeNext DEF u, w

\* What a pull plans to write writes each index before its entry.
LEMMA WholePulls ==
  ASSUME Types, Types', NEW p \in Procs, WholeAt(p), Look(p) \/ Fetch(p)
  PROVE  WholeAt(p)'
<1>0. UNCHANGED disk /\ WholeOf(Todo(p), job[p], Coming(p), root, full, part)
  BY WholeIs, Zenon DEF Look, Fetch
<1>1. CASE Look(p)
  <2>1. Todo(p) # <<>> /\ Todo(p) \in Seq(Plans) /\ Todo(p)[1].do = "look" /\ job[p].op # "clean"
    BY <1>1, HeadIs DEF Look
  <2>2. CASE Return(p, TRUE)
    BY <1>0, <2>1, <2>2, ReturnEnds, WholeEnded DEF Leading
  <2>3. CASE Then(p, <<>>)
    <3> DEFINE steps == <<>>
    <3>1. /\ Todo(p)' = steps \o Tail(Todo(p)) /\ steps \in Seq(Plans)
          /\ job'[p] = [job[p] EXCEPT !.todo = <<>> \o Tail(job[p].todo)]
      BY <2>1, <2>3, StepDone, EmptyLists DEF Types
    <3>2. job'[p].ref = job[p].ref
      BY <3>1, JobKeeps
    <3>3. Light(steps) /\ \A k \in DOMAIN steps : steps[k].do \notin {"trunc", "data"}
      BY DEF Light
    <3> HIDE DEF steps
    <3>4. part = {} /\ root # Torn /\ root.is = "good" /\ StoredIn(Coming(p), Todo(p), full)
      BY <1>0, <2>1, WholeParts
    <3>5. root' = root /\ full' = full /\ part' = {}
      BY <1>0, <3>4 DEF disk
    <3>6. Todo(p)' = <<>> \/ Todo(p)'[1].do \notin {"trunc", "data"}
      BY <2>1, <3>1, <3>3, NextQuiet DEF Types
    <3>7. Coming(p)' = Coming(p)
      BY <2>1, <3>5, <3>6, ComingIs, ComingNext
    <3>8. StoredIn(Coming(p)', Todo(p)', full')
      <4>1. StoredIn(Coming(p), Todo(p)', full)
        BY <2>1, <3>1, <3>4, StoredGrows
      <4> QED BY <3>5, <3>7, <4>1
    <3> QED BY <2>1, <3>1, <3>2, <3>3, <3>4, <3>5, <3>8, WholeStep
  <2> QED BY <1>1, <2>2, <2>3 DEF Look
<1>2. CASE Fetch(p)
  <2>1. Todo(p) # <<>> /\ Todo(p)[1].do = "fetch" /\ job[p].op # "clean"
    <3>1. At(p, "fetch")
      BY <1>2, Zenon DEF Fetch
    <3> QED BY <3>1, HeadIs
  <2>2. CASE Fail(p)
    BY <1>0, <2>1, <2>2, ReturnEnds, WholeEnded DEF Leading, Fail
  <2> DEFINE c == remote[job[p].ref]
             u == Answered(p, c)
  <2>3. CASE c \in Contents /\ ContentFits(c, job[p].ref[1]) /\ Todo(p)' = u
    <3>1. job[p].op = "pull" /\ job[p].ref \in Refs
      BY <1>2, FetchDoes
    <3> HIDE DEF c
    <3>2. u \in Seq(Plans) /\ \A k \in DOMAIN u : u[k].do \in {"index", "blob", "replace", "validate"}
      BY <2>3, <3>1, AnsweredAre
    <3>3. \A r : Shape(u, r) /\ PlannedIn(u, full)
      <4>1. CASE c.kind = "index"
        <5>1. c.dig \in Seq(Images) /\ c = IndexOf(c.dig) /\ Fits(c.dig, job[p].ref[1])
          BY <2>3, <4>1, ContentParts DEF ContentFits
        <5>2. IndexSteps(u, c.dig, job[p].arch, job[p].ref[1])
          BY <3>1, <5>1, AnsweredIndex
        <5> HIDE DEF u
        <5>3. ASSUME NEW k \in DOMAIN u, k # 1 PROVE u[k].do \in Rest
          <6>1. k \in 2..(Len(u) - 1) \/ k = Len(u)
            BY <5>2, <5>3 DEF IndexSteps
          <6>2. CASE k = Len(u)
            BY <5>2, <6>2 DEF IndexSteps, Rest, Do
          <6>3. CASE k \in 2..(Len(u) - 1)
            BY <5>2, <6>3 DEF IndexSteps, Rest, Blob
          <6> QED BY <6>1, <6>2, <6>3
        <5>4. u[1].do = "index"
          BY <5>2 DEF IndexSteps
        <5>5. MergesLast(u)
          <6>1. DOMAIN u = 1..Len(u) /\ Len(u) \in Nat
            BY <3>2 DEF u
          <6>2. SUFFICES ASSUME NEW j \in DOMAIN u, NEW k \in DOMAIN u, j < k PROVE u[k].do \in Rest
            BY DEF MergesLast
          <6>3. k # 1
            BY <6>1, <6>2
          <6> QED BY <5>3, <6>3
        <5>6. \A k \in DOMAIN u : u[k].do \in {"index", "blob", "validate"}
          BY <5>2 DEF IndexSteps
        <5> QED BY <5>5, <5>6 DEF Shape, DropsEarly, DropsBoth, PlannedIn
      <4>2. CASE c.kind = "image"
        <5>1. c.dig \in Images /\ c = ImageOf(c.dig) /\ c.dig \in ImagesOf(job[p].ref[1])
          BY <2>3, <4>2, ContentParts DEF ContentFits
        <5>2. u = Answered(p, ImageOf(c.dig))
          BY <5>1
        <5>3. /\ DOMAIN u = 1..4 /\ u[1].do = "blob" /\ u[2].do = "blob" /\ u[3].do = "replace" /\ u[4].do = "validate"
              /\ u[3] = Relist(Entry(job[p].ref, ImageOf(c.dig)))
              /\ \A k \in 1..4 : k = 1 \/ k = 2 \/ k = 3 \/ k = 4
          BY <3>1, <5>1, <5>2, AnsweredImage
        <5>4. u[3].e.kind = "image"
          BY <5>3 DEF Relist, Entry, ImageOf
        <5> HIDE DEF u
        <5>5. \A k \in DOMAIN u : u[k].do \notin {"remove", "rm", "index"}
                                  /\ (u[k].do \in {"append", "replace"} => u[k].e.kind = "image")
          BY <5>3, <5>4
        <5> QED BY <5>5, PlainShape
      <4> QED BY <2>3, <4>1, <4>2, ContentParts
    <3>4. u = <<>> \/ u[1].do \notin {"trunc", "data"}
      <4> HIDE DEF u
      <4>1. u = <<>> \/ 1 \in DOMAIN u
        BY <3>2, HeadIn
      <4> QED BY <3>2, <4>1
    <3> HIDE DEF u
    <3> QED BY <1>0, <2>1, <2>3, <3>3, <3>4, WholeAgain DEF Leading
  <2> QED BY <1>2, <2>2, <2>3, FetchDoes
<1> QED BY <1>1, <1>2

\* A push adds entries of images only.
LEMMA WholePushes ==
  ASSUME Types, Types', NEW p \in Procs, WholeAt(p), Push(p) \/ PushTag(p) \/ PushManifest(p)
  PROVE  WholeAt(p)'
<1>0. UNCHANGED disk /\ WholeOf(Todo(p), job[p], Coming(p), root, full, part)
  BY WholeIs DEF Push, PushTag, PushManifest
<1>1. /\ Todo(p) # <<>> /\ Todo(p) \in Seq(Plans) /\ Todo(p)[1].do \in {"push", "tag", "manifest"}
      /\ job[p].op # "clean"
  <2>1. CASE At(p, "push")
    BY <2>1, HeadIs
  <2>2. CASE At(p, "tag")
    BY <2>2, HeadIs
  <2>3. CASE At(p, "manifest")
    BY <2>3, HeadIs
  <2> QED BY <2>1, <2>2, <2>3 DEF Push, PushTag, PushManifest
<1>2. ASSUME Todo(p)' = <<>> PROVE WholeAt(p)'
  BY <1>0, <1>1, <1>2, WholeEnded DEF Leading
<1>3. CASE Push(p)
  <2> DEFINE c == FindRoot(job[p].ref)
             u == Sends(p) \o <<Do("manifest")>>
  <2>1. CASE c \in Contents /\ ContentFits(c, job[p].ref[1]) /\ Todo(p)' = u
    <3>0. At(p, "push")
      BY <1>3 DEF Push
    <3>1. /\ u \in Seq(Plans) /\ DOMAIN u = 1..(Len(Sends(p)) + 1) /\ Len(Sends(p)) \in Nat
          /\ u[Len(Sends(p)) + 1] = Do("manifest")
          /\ \A k \in 1..Len(Sends(p)) : u[k] = Sends(p)[k]
          /\ DOMAIN Sends(p) = DOMAIN Sent(p) /\ DOMAIN Sends(p) = 1..Len(Sends(p))
          /\ \A j \in DOMAIN Sent(p) : Sends(p)[j].do = "tag"
      BY <2>1, <3>0, SendsAre
    <3> HIDE DEF u, c
    <3>2. \A k \in DOMAIN u : u[k].do \in {"tag", "manifest"}
      <4>1. \A k \in DOMAIN u : k \in 1..Len(Sends(p)) \/ k = Len(Sends(p)) + 1
        BY <3>1
      <4> QED BY <3>1, <4>1 DEF Do
    <3>3. Shape(u, job'[p].ref) /\ PlannedIn(u, full)
      BY <3>2, PlainShape
    <3>4. u = <<>> \/ u[1].do \notin {"trunc", "data"}
      <4>1. u = <<>> \/ 1 \in DOMAIN u
        BY <3>1, HeadIn
      <4> QED BY <3>2, <4>1
    <3> QED BY <1>0, <1>1, <2>1, <3>3, <3>4, WholeAgain DEF Leading
  <2>2. CASE Fail(p)
    BY <1>2, <2>2, ReturnEnds DEF Fail
  <2>3. CASE Return(p, TRUE)
    BY <1>2, <2>3, ReturnEnds
  <2> QED BY <1>3, <2>1, <2>2, <2>3, PushDoes
<1>4. CASE PushTag(p)
  <2> DEFINE i == Now(p).i
             t == Tag(job[p].ref[1], PlatOf[i].arch)
             two == <<AppendTo(Entry(t, ImageOf(i))), [Now(p) EXCEPT !.again = TRUE]>>
  <2>0. Todo(p)[1].do = "tag" /\ Now(p) = Todo(p)[1] /\ Now(p) \in Plans
    <3>1. At(p, "tag")
      BY <1>4 DEF PushTag
    <3> QED BY <3>1, AtIs DEF Types
  <2>1. ASSUME NEW steps \in Seq(Plans), Todo(p)' = steps \o Tail(Todo(p)),
               job'[p] = [job[p] EXCEPT !.todo = steps \o Tail(job[p].todo)],
               \A k \in DOMAIN steps : steps[k].do \in {"append", "tag"} /\ (steps[k].do = "append" => steps[k].e.kind = "image")
        PROVE  WholeAt(p)'
    <3>1. job'[p].ref = job[p].ref
      BY <2>1, JobKeeps
    <3>2. \A k \in DOMAIN steps : steps[k].do \notin {"trunc", "data"}
      BY <2>1
    <3>3. Shape(steps, job[p].ref)
      BY <2>1, PlainShape
    <3>4. part = {} /\ root # Torn /\ root.is = "good" /\ StoredIn(Coming(p), Todo(p), full)
      BY <1>0, <1>1, WholeParts
    <3>5. root' = root /\ full' = full /\ part' = {}
      BY <1>0, <3>4 DEF disk
    <3>6. Todo(p)' = <<>> \/ Todo(p)'[1].do \notin {"trunc", "data"}
      BY <1>1, <2>1, <3>2, NextQuiet DEF Types
    <3>7. Coming(p)' = Coming(p)
      BY <1>1, <3>5, <3>6, ComingIs, ComingNext
    <3>8. StoredIn(Coming(p), Todo(p)', full)
      BY <1>1, <2>1, <3>4, StoredGrows
    <3>9. \A k \in 2..Len(Todo(p)) : Todo(p)[k].do # "remove"
      <4>1. DropsEarly(Todo(p))
        BY <1>0 DEF WholeOf, Shape
      <4>2. \A k \in 2..Len(Todo(p)) : k \in DOMAIN Todo(p) /\ 1 \in 1..(k - 1)
        BY <1>1
      <4>3. Todo(p)[1].do \notin Leading \cup {"init"}
        BY <1>1 DEF Leading
      <4> QED BY <4>1, <4>2, <4>3 DEF DropsEarly
    <3>10. WholeOf(Todo(p)', job'[p], Coming(p), root, full, {})
      <4> DEFINE u == Todo(p)'
                 w == job'[p]
      <4>1. u = steps \o Tail(Todo(p)) /\ w.ref = job[p].ref /\ StoredIn(Coming(p), u, full)
        BY <2>1, <3>1, <3>8
      <4> HIDE DEF u, w
      <4>2. WholeOf(u, w, Coming(p), root, full, {})
        <5>1. \A k \in DOMAIN steps : steps[k].do # "index"
          BY <2>1
        <5>2. \A k \in DOMAIN steps : steps[k].do # "rm"
          BY <2>1
        <5>3. \A k \in DOMAIN steps : steps[k].do \in {"append", "replace"} /\ steps[k].e.kind = "index" =>
                Pending(steps, Index(steps[k].e.dig), k)
          BY <2>1
        <5>4. Todo(p)[1].do \notin {"blob", "copy", "rm"} /\ full \subseteq full
          BY <1>1
        <5> QED BY <1>0, <1>1, <3>3, <3>4, <3>9, <4>1, <5>1, <5>2, <5>3, <5>4, WholeMoves
      <4> QED BY <4>2 DEF u, w
    <3> QED BY <3>5, <3>7, <3>10, WholeNext
  <2>2. CASE Fail(p)
    BY <1>2, <2>2, ReturnEnds DEF Fail
  <2>3. CASE /\ two \in Seq(Plans) /\ Todo(p)' = two \o Tail(Todo(p))
             /\ job'[p] = [job[p] EXCEPT !.todo = two \o Tail(job[p].todo)]
    <3>1. DOMAIN two = 1..2 /\ two[1].do = "append" /\ two[1].e.kind = "image" /\ two[2].do = "tag"
      <4>1. AppendTo(Entry(t, ImageOf(i))).do = "append" /\ AppendTo(Entry(t, ImageOf(i))).e.kind = "image"
        BY DEF AppendTo, Entry, ImageOf
      <4>2. [Now(p) EXCEPT !.again = TRUE].do = "tag"
        BY <2>0 DEF Plans
      <4> DEFINE a == AppendTo(Entry(t, ImageOf(i)))
                 b == [Now(p) EXCEPT !.again = TRUE]
      <4>3. two = <<a, b>> /\ a.do = "append" /\ a.e.kind = "image" /\ b.do = "tag"
        BY <4>1, <4>2
      <4> HIDE DEF a, b, two
      <4> QED BY <4>3
    <3> HIDE DEF two
    <3>2. \A k \in DOMAIN two : two[k].do \in {"append", "tag"} /\ (two[k].do = "append" => two[k].e.kind = "image")
      <4>1. \A k \in DOMAIN two : k = 1 \/ k = 2
        BY <3>1
      <4> QED BY <3>1, <4>1
    <3> QED BY <2>1, <2>3, <3>2
  <2>4. CASE Todo(p)' = <<>> \o Tail(Todo(p)) /\ job'[p] = [job[p] EXCEPT !.todo = <<>> \o Tail(job[p].todo)]
    <3> DEFINE none == <<>>
    <3>1. none \in Seq(Plans) /\ DOMAIN none = {}
      BY EmptyLists
    <3>2. Todo(p)' = none \o Tail(Todo(p)) /\ job'[p] = [job[p] EXCEPT !.todo = none \o Tail(job[p].todo)]
      BY <2>4
    <3> HIDE DEF none
    <3> QED BY <2>1, <3>1, <3>2
  <2> HIDE DEF two
  <2>5. \/ Fail(p)
        \/ /\ two \in Seq(Plans) /\ Todo(p)' = two \o Tail(Todo(p))
           /\ job'[p] = [job[p] EXCEPT !.todo = two \o Tail(job[p].todo)]
        \/ Todo(p)' = <<>> \o Tail(Todo(p)) /\ job'[p] = [job[p] EXCEPT !.todo = <<>> \o Tail(job[p].todo)]
    BY <1>4, PushTagDoes DEF two
  <2> QED BY <2>2, <2>3, <2>4, <2>5
<1>5. CASE PushManifest(p)
  BY <1>2, <1>5, PushManifestDoes
<1> QED BY <1>3, <1>4, <1>5

\* The files of the cache go one by one.
LEMMA WholeCleans ==
  ASSUME Types, Types', NEW p \in Procs, WholeAt(p), Clean(p)
  PROVE  WholeAt(p)'
<1>0. WholeOf(Todo(p), job[p], Coming(p), root, full, part)
  BY WholeIs
<1>1. Todo(p) # <<>> /\ Todo(p)[1].do = "clean" /\ job[p].op = "clean"
  <2>1. At(p, "clean")
    BY DEF Clean
  <2>2. Todo(p) # <<>> /\ Todo(p)[1].do = "clean" /\ "clean" \in DoneBy(job[p].op) /\ job[p].op \in Ops
    BY <2>1, AtIs DEF Types
  <2> QED BY <2>2 DEF DoneBy, Ops
<1>2. \A k \in DOMAIN Todo(p) : Todo(p)[k].do = "clean"
  <2>1. JobFits(job[p]) /\ Todo(p) = job[p].todo
    BY TodoIs
  <2> QED BY <1>1, <2>1 DEF JobFits, Ordered, DoneBy
<1>3. part = {} /\ root # Torn
  BY <1>0, <1>1, WholeParts
<1>4. part' = {} /\ root' # Torn
  <2>1. root' = NoRoot \/ root' = root
    BY DEF Clean, disk
  <2>2. part' = part \/ \E d : part' = part \ {d}
    BY DEF Clean, disk
  <2> QED BY <1>3, <2>1, <2>2 DEF NoRoot, Torn
<1>5. CASE UNCHANGED job
  <2>1. Todo(p)' = Todo(p) /\ job'[p] = job[p]
    BY <1>5 DEF Todo
  <2>2. Shape(Todo(p), job[p].ref) /\ PlannedIn(Todo(p), full')
    BY <1>2, PlainShape
  <2>3. WholeOf(Todo(p)', job'[p], Coming(p)', root', full', part')
    BY <1>1, <1>4, <2>1, <2>2 DEF WholeOf
  <2> QED BY <2>3, WholeNext
<1>6. CASE root = NoRoot /\ Return(p, TRUE) /\ UNCHANGED disk
  <2>1. Todo(p)' = <<>> /\ root'.es = <<>>
    BY <1>6, ReturnEnds DEF disk, NoRoot
  <2> DEFINE u == Todo(p)'
  <2>2. u = <<>> /\ DOMAIN u = {}
    BY <2>1
  <2>3. Coming(p)' = root'.es
    BY <2>1, ComingNext
  <2> HIDE DEF u
  <2>4. StoredIn(Coming(p)', u, full')
    BY <2>1, <2>3 DEF StoredIn
  <2>5. Shape(u, job'[p].ref) /\ PlannedIn(u, full')
    BY <2>2, PlainShape
  <2>6. WholeOf(u, job'[p], Coming(p)', root', full', part')
    BY <1>4, <2>2, <2>4, <2>5 DEF WholeOf
  <2> QED BY <2>6, WholeNext DEF u
<1> QED BY <1>5, <1>6 DEF Clean

(***************************************************************************)
(* What a pull has been offered it lists and stores                        *)
(***************************************************************************)
\* PromiseAt, of a job, steps, entries and blobs that stand for themselves.
PromiseOf(o, t, es, F) ==
  Offered(o) =>
    IF t = <<>> THEN o.ok \/ (o.got.kind = "index" /\ OfKind(es, o.ref, "image") # {})
    ELSE /\ t[Len(t)].do = "validate"
         /\ \A i \in Pieces(o) : \A d \in {Manifest(i), Layers(i)} : d \in F \/ Pending(t, d, Len(t))
         /\ Promises(o, t, es)

\* PromiseAt and its primed form are PromiseOf of what they read.
LEMMA PromiseIs ==
  ASSUME NEW p
  PROVE  PromiseAt(p) <=> PromiseOf(job[p], Todo(p), Coming(p), full)
<1>1. Todo(p) = <<>> => Coming(p) = root.es
  BY ComingIs
<1> QED BY <1>1 DEF PromiseAt, PromiseOf

LEMMA PromiseNext ==
  ASSUME NEW p
  PROVE  PromiseAt(p)' <=> PromiseOf(job'[p], Todo(p)', Coming(p)', full')
<1>1. Todo(p)' = <<>> => Coming(p)' = root'.es
  BY ComingNext
<1> QED BY <1>1 DEF PromiseAt, PromiseOf

\* Commands that are for the same.
Alike(o, w) == w.op = o.op /\ w.ref = o.ref /\ w.arch = o.arch /\ w.got = o.got

\* Commands that are for the same promise the same.
LEMMA AlikePromises ==
  ASSUME NEW o, NEW w, Alike(o, w)
  PROVE  /\ Offered(w) <=> Offered(o)
         /\ Pieces(w) = Pieces(o)
         /\ \A t, es : Promises(w, t, es) <=> Promises(o, t, es)
BY DEF Alike, Offered, Pieces, Promises, Replacing, Serving, Served, Serves

\* What comes first in a command that promises its images.
LEMMA PromiseHeads ==
  ASSUME NEW o, NEW t \in Seq(Plans), t # <<>>, NEW es, Promises(o, t, es)
  PROVE  \/ Replacing(o, t, 1) /\ t[1].do = "replace" /\ o.got.kind = "image"
         \/ t[1].do \in Rest /\ \E k \in DOMAIN t : k > 1 /\ Replacing(o, t, k)
         \/ Merging(t, o.got.dig) /\ t[1].do = "index" /\ o.got.kind = "index"
         \/ Serving(o, t, 1) /\ t[1].do = "append"
         \/ t[1].do \in Leading /\ \E k \in DOMAIN t : k > 1 /\ Serving(o, t, k)
         \/ Served(o, t, es) /\ t[1].do \in Rest \cup {"trunc", "data"}
<1>1. 1 \in DOMAIN t /\ DOMAIN t = 1..Len(t) /\ Len(t) \in Nat
  BY HeadIn
<1>2. ASSUME NEW k \in DOMAIN t, Replacing(o, t, k)
      PROVE  \/ Replacing(o, t, 1) /\ t[1].do = "replace" /\ o.got.kind = "image"
             \/ t[1].do \in Rest /\ k > 1
  <2>1. k = 1 \/ k > 1
    BY <1>1
  <2>2. Relist(Entry(o.ref, o.got)).do = "replace"
    BY DEF Relist
  <2> QED BY <1>1, <1>2, <2>1, <2>2 DEF Replacing
<1>3. ASSUME NEW k \in DOMAIN t, Serving(o, t, k)
      PROVE  (k = 1 /\ t[1].do = "append") \/ (k > 1 /\ t[1].do \in Leading)
  <2>1. k = 1 \/ k > 1
    BY <1>1
  <2> QED BY <1>1, <1>3, <2>1 DEF Serving
<1>4. Merging(t, o.got.dig) => t[1].do = "index"
  BY DEF Merging
<1>5. Served(o, t, es) => t[1].do \in Rest \cup {"trunc", "data"}
  BY <1>1 DEF Served
<1> QED BY <1>2, <1>3, <1>4, <1>5 DEF Promises

\* A command that has fetched has only such steps ahead.
LEMMA PromiseSteps ==
  ASSUME NEW o, NEW t \in Seq(Plans), t # <<>>, NEW es, NEW F, PromiseOf(o, t, es, F),
         t[1].do \in {"init", "look", "fetch", "return", "push", "tag", "manifest", "clean"}
  PROVE  ~Offered(o)
<1>1. Offered(o) => Promises(o, t, es)
  BY DEF PromiseOf
<1> QED BY <1>1, PromiseHeads DEF Rest, Leading

\* The steps behind the head, when it is replaced.
LEMMA ReplacingMoves ==
  ASSUME NEW t \in Seq(Plans), t # <<>>, NEW steps \in Seq(Plans), NEW u, u = steps \o Tail(t), NEW o,
         NEW k \in DOMAIN t, k > 1, Replacing(o, t, k), \A j \in DOMAIN steps : steps[j].do \in Rest
  PROVE  \E h \in DOMAIN u : Replacing(o, u, h)
<1> DEFINE l == Len(steps)
           h == l + k - 1
<1>0. /\ l \in Nat /\ Len(t) \in Nat \ {0} /\ DOMAIN t = 1..Len(t)
      /\ DOMAIN u = 1..Len(u) /\ Len(u) = l + Len(t) - 1
      /\ \A j \in 2..Len(t) : l + j - 1 \in DOMAIN u /\ u[l + j - 1] = t[j]
      /\ \A j \in DOMAIN u :
           \/ j \in DOMAIN steps /\ u[j] = steps[j]
           \/ j > l /\ j - l + 1 \in 2..Len(t) /\ u[j] = t[j - l + 1]
  BY StepOrigins
<1> HIDE DEF l
<1>1. k \in 2..Len(t) /\ h \in DOMAIN u /\ u[h] = t[k]
  <2>1. k \in 2..Len(t)
    BY <1>0
  <2> QED BY <1>0, <2>1
<1>2. ASSUME NEW j \in DOMAIN u, j # h PROVE u[j].do \in Rest
  <2>1. CASE j > l /\ j - l + 1 \in 2..Len(t) /\ u[j] = t[j - l + 1]
    <3>1. j - l + 1 \in DOMAIN t /\ j - l + 1 # k
      BY <1>0, <1>1, <1>2, <2>1, SMTT(30)
    <3> QED BY <2>1, <3>1 DEF Replacing
  <2> QED BY <1>0, <2>1
<1> HIDE DEF h
<1>3. Replacing(o, u, h)
  BY <1>1, <1>2 DEF Replacing
<1> QED BY <1>1, <1>3

\* An index to be appended behind the head is still to be appended.
LEMMA ServingMoves ==
  ASSUME NEW t \in Seq(Plans), t # <<>>, NEW steps \in Seq(Plans), NEW u, u = steps \o Tail(t), NEW o,
         NEW k \in DOMAIN t, k > 1, Serving(o, t, k), \A j \in DOMAIN steps : steps[j].do \in Leading
  PROVE  \E h \in DOMAIN u : Serving(o, u, h)
<1> DEFINE l == Len(steps)
           h == l + k - 1
<1>0. /\ l \in Nat /\ Len(t) \in Nat \ {0} /\ DOMAIN t = 1..Len(t) /\ DOMAIN steps = 1..l
      /\ DOMAIN u = 1..Len(u) /\ Len(u) = l + Len(t) - 1
      /\ \A j \in 2..Len(t) : l + j - 1 \in DOMAIN u /\ u[l + j - 1] = t[j]
      /\ \A j \in DOMAIN u :
           \/ j \in DOMAIN steps /\ u[j] = steps[j]
           \/ j > l /\ j - l + 1 \in 2..Len(t) /\ u[j] = t[j - l + 1]
  BY StepOrigins
<1> HIDE DEF l
<1>1. k \in 2..Len(t) /\ h \in DOMAIN u /\ u[h] = t[k] /\ h > l
  BY <1>0, SMTT(30)
<1>2. ASSUME NEW j \in DOMAIN u
      PROVE  (j < h => u[j].do \in Leading) /\ (j > h => u[j].do \in Rest)
  <2>1. CASE j > l /\ j - l + 1 \in 2..Len(t) /\ u[j] = t[j - l + 1]
    <3>0. j \in Nat /\ k \in Nat /\ l \in Nat
      <4>1. l \in Nat /\ Len(t) \in Nat /\ DOMAIN u = 1..(l + Len(t) - 1)
        BY <1>0
      <4>2. j \in 1..(l + Len(t) - 1)
        BY <4>1
      <4>3. k \in 2..Len(t)
        BY <1>1
      <4> QED BY <4>1, <4>2, <4>3
    <3>1. j - l + 1 \in DOMAIN t /\ (j < h => j - l + 1 < k) /\ (j > h => j - l + 1 > k)
      <4>1. j - l + 1 \in DOMAIN t
        BY <1>0, <2>1
      <4> QED BY <3>0, <4>1
    <3> QED BY <2>1, <3>1 DEF Serving
  <2>2. CASE j \in DOMAIN steps /\ u[j] = steps[j]
    <3>1. j < h
      BY <1>0, <1>1, <2>2
    <3>2. ~(j > h)
      BY <1>0, <1>1, <3>1
    <3> QED BY <2>2, <3>1, <3>2
  <2> QED BY <1>0, <2>1, <2>2
<1> HIDE DEF h
<1>3. Serving(o, u, h)
  BY <1>1, <1>2 DEF Serving
<1> QED BY <1>1, <1>3

\* What is listed stays so while the steps before the end are carried out.
LEMMA ServedMoves ==
  ASSUME NEW t \in Seq(Plans), t # <<>>, NEW steps \in Seq(Plans), NEW u, u = steps \o Tail(t), NEW o, NEW es,
         Served(o, t, es), \A j \in DOMAIN steps : steps[j].do \in Rest \cup {"trunc", "data"}
  PROVE  Served(o, u, es)
<1>1. \A j \in DOMAIN u :
        \/ j \in DOMAIN steps /\ u[j] = steps[j]
        \/ \E i \in DOMAIN t : u[j] = t[i]
  <2>1. DOMAIN t = 1..Len(t) /\ Len(t) \in Nat
    BY StepOrigins
  <2>2. \A i \in 2..Len(t) : i \in DOMAIN t
    BY <2>1
  <2> QED BY <2>2, StepOrigins
<1> QED BY <1>1 DEF Served

\* The images are still written, before the last step.
LEMMA PiecesMove ==
  ASSUME NEW t \in Seq(Plans), Len(t) > 1, t # <<>>, NEW steps \in Seq(Plans), NEW u, u = steps \o Tail(t),
         NEW F, NEW G, NEW d, d \in F \/ Pending(t, d, Len(t)), d \in F => d \in G,
         t[1].do \in {"blob", "copy"} => t[1].d \in G \/ Pending(steps, t[1].d, Len(steps) + 1)
  PROVE  d \in G \/ Pending(u, d, Len(u))
<1> DEFINE l == Len(steps)
           n == Len(t)
<1>0. l \in Nat /\ n \in Nat \ {0} /\ Len(u) = l + n - 1
  BY StepOrigins
<1>1. CASE Pending(t, d, n)
  <2>1. n \in 1..(n + 1)
    BY <1>0
  <2>2. (t[1].do \in {"blob", "copy"} /\ t[1].d = d) \/ Pending(u, d, l + n - 1)
    BY <1>1, <2>1, PendingMoves
  <2>3. CASE t[1].do \in {"blob", "copy"} /\ t[1].d = d /\ Pending(steps, d, l + 1)
    <3> DEFINE a == l + 1
               b == l + n - 1
    <3>1. a \in Nat /\ a > 0 /\ b \in Nat /\ a <= b /\ a <= Len(steps) + 1 /\ b = Len(u) /\ Pending(steps, d, a)
      BY <1>0, <2>3
    <3> HIDE DEF a, b
    <3>2. Pending(u, d, b)
      BY <3>1, PendingFirst
    <3> QED BY <3>1, <3>2
  <2> QED BY <1>0, <2>2, <2>3
<1> QED BY <1>1

\* The last step stays last.
LEMMA LastMoves ==
  ASSUME NEW t \in Seq(Plans), Len(t) > 1, t # <<>>, NEW steps \in Seq(Plans), NEW u, u = steps \o Tail(t)
  PROVE  u # <<>> /\ Len(u) \in DOMAIN u /\ u[Len(u)] = t[Len(t)]
<1> DEFINE l == Len(steps)
           n == Len(t)
<1>0. l \in Nat /\ n \in Nat \ {0} /\ Len(u) = l + n - 1 /\ DOMAIN u = 1..Len(u)
  BY StepOrigins
<1>1. n \in 2..n
  BY <1>0
<1>2. l + n - 1 \in DOMAIN u /\ u[l + n - 1] = t[n]
  BY <1>1, StepOrigins
<1>3. u # <<>>
  BY <1>2
<1> QED BY <1>0, <1>2, <1>3

\* The command goes on with what comes before the images are listed, or after.
GoesOn(o, t, steps, es, es2, F, G) ==
  /\ t[1].do \in Leading /\ \A j \in DOMAIN steps : steps[j].do \in Leading
  /\ t[1].do # "remove" => es2 = es
  /\ t[1].do \in Rest \cup {"trunc", "data"} => \A j \in DOMAIN steps : steps[j].do \in Rest
  /\ \A i \in Pieces(o) : \A d \in {Manifest(i), Layers(i)} : d \in F => d \in G
  /\ t[1].do \in {"blob", "copy"} => t[1].d \in G \/ Pending(steps, t[1].d, Len(steps) + 1)

\* The promise is kept by a step that keeps each of its parts.
LEMMA PromiseMoves ==
  ASSUME NEW o, NEW w, Alike(o, w), NEW t \in Seq(Plans), t # <<>>, NEW steps \in Seq(Plans), NEW u, u = steps \o Tail(t),
         NEW es, NEW es2, NEW F, NEW G, PromiseOf(o, t, es, F), GoesOn(o, t, steps, es, es2, F, G)
  PROVE  PromiseOf(w, u, es2, G)
<1>0. /\ t[1].do \in Leading /\ \A j \in DOMAIN steps : steps[j].do \in Leading
      /\ t[1].do # "remove" => es2 = es
      /\ t[1].do \in Rest \cup {"trunc", "data"} => \A j \in DOMAIN steps : steps[j].do \in Rest
      /\ \A i \in Pieces(o) : \A d \in {Manifest(i), Layers(i)} : d \in F => d \in G
      /\ t[1].do \in {"blob", "copy"} => t[1].d \in G \/ Pending(steps, t[1].d, Len(steps) + 1)
  BY DEF GoesOn
<1> SUFFICES ASSUME Offered(o)
             PROVE  /\ u # <<>> /\ u[Len(u)].do = "validate"
                    /\ \A i \in Pieces(o) : \A d \in {Manifest(i), Layers(i)} : d \in G \/ Pending(u, d, Len(u))
                    /\ Promises(o, u, es2)
  BY AlikePromises DEF PromiseOf
<1>1. /\ t[Len(t)].do = "validate"
      /\ \A i \in Pieces(o) : \A d \in {Manifest(i), Layers(i)} : d \in F \/ Pending(t, d, Len(t))
      /\ Promises(o, t, es)
  BY DEF PromiseOf
<1>2. Len(t) > 1
  <2>1. Len(t) \in Nat \ {0} /\ t[1].do # "validate"
    BY <1>0, HeadIn DEF Leading
  <2> DEFINE n == Len(t)
  <2>2. n \in Nat \ {0} /\ n # 1
    BY <1>1, <2>1
  <2> HIDE DEF n
  <2>3. n > 1
    BY <2>2
  <2> QED BY <2>3 DEF n
<1>3. u # <<>> /\ u[Len(u)].do = "validate"
  BY <1>1, <1>2, LastMoves
<1>4. \A i \in Pieces(o) : \A d \in {Manifest(i), Layers(i)} : d \in G \/ Pending(u, d, Len(u))
  BY <1>0, <1>1, <1>2, PiecesMove
<1>5. Promises(o, u, es2)
  <2>1. CASE t[1].do \in Rest /\ \E k \in DOMAIN t : k > 1 /\ Replacing(o, t, k)
    BY <1>0, <2>1, ReplacingMoves, ZenonT(60) DEF Promises
  <2>2. CASE \E k \in DOMAIN t : k > 1 /\ Serving(o, t, k)
    <3>1. PICK k \in DOMAIN t : k > 1 /\ Serving(o, t, k)
      BY <2>2
    <3>2. \A j \in DOMAIN steps : steps[j].do \in Leading
      BY <1>0
    <3>3. \E h \in DOMAIN u : Serving(o, u, h)
      BY <3>1, <3>2, ServingMoves
    <3> QED BY <3>3, Zenon DEF Promises
  <2>3. CASE Served(o, t, es) /\ t[1].do \in Rest \cup {"trunc", "data"}
    <3>1. es2 = es
      BY <1>0, <2>3 DEF Rest
    <3>2. \A j \in DOMAIN steps : steps[j].do \in Rest \cup {"trunc", "data"}
      BY <1>0, <2>3
    <3>3. Served(o, u, es)
      BY <2>3, <3>2, ServedMoves
    <3> QED BY <3>1, <3>3 DEF Promises
  <2>4. t[1].do \notin {"replace", "index", "append"}
    BY <1>0 DEF Leading
  <2> QED BY <1>1, <2>1, <2>2, <2>3, <2>4, PromiseHeads
<1> QED BY <1>3, <1>4, <1>5

\* A command that goes on is for the same.
LEMMA JobAlike ==
  ASSUME Types, NEW p \in Procs,
         \/ \E u : job'[p] = [job[p] EXCEPT !.todo = u]
         \/ \E u, ok : job'[p] = [job[p] EXCEPT !.todo = u, !.ok = ok]
         \/ \E u, b : job'[p] = [job[p] EXCEPT !.todo = u, !.buf = b]
  PROVE  Alike(job[p], job'[p])
<1>1. job[p] \in Jobs
  BY TodoIs
<1> QED BY <1>1 DEF Jobs, Alike

\* A command that is not a pull, or has not fetched yet, promises nothing.
LEMMA PromiseNone ==
  ASSUME NEW p, job'[p].got = Nothing \/ job'[p].op # "pull"
  PROVE  PromiseAt(p)'
BY PromiseNext DEF PromiseOf, Offered

\* A command that begins has fetched nothing.
LEMMA PromiseBegins ==
  ASSUME Types, NEW p \in Procs,
         BeginPull(p) \/ BeginLoad(p) \/ BeginIndexWrite(p) \/ BeginDescriptorWrite(p) \/ BeginPush(p) \/ BeginClean(p)
  PROVE  PromiseAt(p)'
<1>1. CASE BeginClean(p)
  <2>1. job'[p] = [Idle EXCEPT !.op = "clean", !.todo = <<Do("clean")>>]
    BY <1>1, CleanBegins
  <2>2. job'[p].got = Nothing
    BY <2>1 DEF Idle
  <2> QED BY <2>2, PromiseNone
<1>2. CASE BeginPull(p) \/ BeginLoad(p) \/ BeginIndexWrite(p) \/ BeginDescriptorWrite(p) \/ BeginPush(p)
  BY <1>2, BeginsSettled, PromiseNone
<1> QED BY <1>1, <1>2

\* Steps of a command that has not fetched.
LEMMA PromiseEarly ==
  ASSUME Types, NEW p \in Procs, PromiseAt(p), Todo(p) # <<>>,
         Todo(p)[1].do \in {"init", "look", "fetch", "return", "push", "tag", "manifest", "clean"},
         Alike(job[p], job'[p])
  PROVE  PromiseAt(p)'
<1>1. PromiseOf(job[p], Todo(p), Coming(p), full) /\ Todo(p) \in Seq(Plans)
  BY PromiseIs, TodoIs
<1>2. ~Offered(job[p])
  BY <1>1, PromiseSteps
<1>3. ~Offered(job'[p])
  BY <1>2, AlikePromises
<1> QED BY <1>3, PromiseNext DEF PromiseOf

\* Before the images are listed, or after.
LEMMA PromiseStep ==
  ASSUME Types, NEW p \in Procs, PromiseAt(p), Todo(p) # <<>>, Todo(p)[1].do \in Leading,
         NEW steps \in Seq(Plans), \A j \in DOMAIN steps : steps[j].do \in Leading,
         Todo(p)' = steps \o Tail(Todo(p)), Alike(job[p], job'[p]),
         Todo(p)[1].do # "remove" => Coming(p)' = Coming(p),
         Todo(p)[1].do \in Rest \cup {"trunc", "data"} => \A j \in DOMAIN steps : steps[j].do \in Rest,
         \A i : \A d \in {Manifest(i), Layers(i)} : d \in full => d \in full',
         Todo(p)[1].do \in {"blob", "copy"} => Todo(p)[1].d \in full' \/ Pending(steps, Todo(p)[1].d, Len(steps) + 1)
  PROVE  PromiseAt(p)'
<1> DEFINE G == full'
           u == Todo(p)'
           w == job'[p]
           es2 == Coming(p)'
           o == job[p]
           t == Todo(p)
           es == Coming(p)
<1>1. PromiseOf(o, t, es, full) /\ t \in Seq(Plans) /\ t # <<>> /\ t[1].do \in Leading
  BY PromiseIs, TodoIs
<1>2. /\ u = steps \o Tail(t) /\ Alike(o, w)
      /\ GoesOn(o, t, steps, es, es2, full, G)
  BY DEF GoesOn
<1> HIDE DEF G, u, w, es2, o, t, es
<1>3. PromiseOf(w, u, es2, G)
  BY <1>1, <1>2, PromiseMoves
<1> QED BY <1>3, PromiseNext DEF G, u, w, es2

\* A blob that is written is one less to be written.
LEMMA PromiseBlobs ==
  ASSUME Types, Types', NEW p \in Procs, WholeAt(p), PromiseAt(p), WriteBlob(p) \/ CopyBlob(p) \/ RemoveBlob(p)
  PROVE  PromiseAt(p)'
<1>0. WholeOf(Todo(p), job[p], Coming(p), root, full, part)
  BY WholeIs
<1>1. /\ Todo(p) # <<>> /\ Todo(p) \in Seq(Plans) /\ Todo(p)[1] = Now(p)
      /\ Todo(p)[1].do \in {"blob", "copy", "rm"} /\ root' = root
      /\ WriteBlob(p) => Todo(p)[1].do = "blob"
      /\ CopyBlob(p) => Todo(p)[1].do = "copy"
      /\ RemoveBlob(p) => Todo(p)[1].do = "rm"
  <2>1. CASE At(p, "blob")
    BY <2>1, HeadIs DEF WriteBlob, CopyBlob, RemoveBlob, disk
  <2>2. CASE At(p, "copy")
    BY <2>2, HeadIs DEF WriteBlob, CopyBlob, RemoveBlob, disk
  <2>3. CASE At(p, "rm")
    BY <2>3, HeadIs DEF WriteBlob, CopyBlob, RemoveBlob, disk
  <2> QED BY <2>1, <2>2, <2>3 DEF WriteBlob, CopyBlob, RemoveBlob
<1>2. PICK steps \in Seq(Plans) :
        /\ Todo(p)' = steps \o Tail(Todo(p))
        /\ job'[p] = [job[p] EXCEPT !.todo = steps \o Tail(job[p].todo)]
        /\ \A j \in DOMAIN steps : steps[j].do = "copy"
        /\ Todo(p)[1].do = "blob" => Todo(p)[1].d \in full' \/ Pending(steps, Todo(p)[1].d, Len(steps) + 1)
        /\ Todo(p)[1].do = "copy" => Todo(p)[1].d \in full'
  <2>1. CASE WriteBlob(p)
    <3> DEFINE d == Now(p).d
               steps == IF Present(d) THEN <<>> ELSE <<[do |-> "copy", d |-> d]>>
    <3>1. /\ steps \in Seq(Plans) /\ Todo(p)' = steps \o Tail(Todo(p))
          /\ job'[p] = [job[p] EXCEPT !.todo = steps \o Tail(job[p].todo)]
      BY <2>1, Types_WriteBlob
    <3>2. part = {}
      BY <1>0, <1>1, <2>1, WholeParts
    <3>3. full' = full /\ (Present(d) => d \in full)
      BY <2>1, <3>2 DEF WriteBlob, Present, disk
    <3>4. /\ Present(d) => steps = <<>>
          /\ ~Present(d) => Len(steps) = 1 /\ DOMAIN steps = {1} /\ steps[1].do = "copy" /\ steps[1].d = d
      OBVIOUS
    <3>5. \A j \in DOMAIN steps : steps[j].do = "copy"
      BY <3>4
    <3>6. Todo(p)[1].d \in full' \/ Pending(steps, Todo(p)[1].d, Len(steps) + 1)
      BY <1>1, <3>3, <3>4 DEF Pending
    <3> HIDE DEF steps
    <3> QED BY <1>1, <2>1, <3>1, <3>5, <3>6
  <2>2. CASE CopyBlob(p) \/ RemoveBlob(p)
    <3> DEFINE steps == <<>>
    <3>1. /\ steps \in Seq(Plans) /\ Todo(p)' = steps \o Tail(Todo(p))
          /\ job'[p] = [job[p] EXCEPT !.todo = steps \o Tail(job[p].todo)]
      BY <2>2, Types_CopyBlob, Types_RemoveBlob, EmptyLists
    <3>2. \A j \in DOMAIN steps : steps[j].do = "copy"
      OBVIOUS
    <3>3. Todo(p)[1].do = "copy" => Todo(p)[1].d \in full'
      BY <1>1, <2>2 DEF CopyBlob
    <3>4. Todo(p)[1].do # "blob"
      BY <1>1, <2>2
    <3> HIDE DEF steps
    <3> QED BY <3>1, <3>2, <3>3, <3>4
  <2> QED BY <2>1, <2>2
<1>3. Alike(job[p], job'[p])
  BY <1>2, JobAlike
<1>4. Coming(p)' = Coming(p)
  <2>1. \A j \in DOMAIN steps : steps[j].do \notin {"trunc", "data"}
    BY <1>2
  <2>2. Todo(p)' = <<>> \/ Todo(p)'[1].do \notin {"trunc", "data"}
    BY <1>1, <1>2, <2>1, NextQuiet DEF Types
  <2> QED BY <1>1, <2>2, ComingIs, ComingNext
<1>5. \A i : \A d \in {Manifest(i), Layers(i)} : d \in full => d \in full'
  <2>1. CASE WriteBlob(p) \/ CopyBlob(p)
    BY <2>1 DEF WriteBlob, CopyBlob, disk
  <2>2. CASE RemoveBlob(p)
    <3>1. full' = full \ {Now(p).d}
      BY <2>2 DEF RemoveBlob
    <3>2. Now(p).d[1] = "index"
      BY <2>2, AtIs DEF RemoveBlob, StepFits, Types
    <3> QED BY <3>1, <3>2 DEF Manifest, Layers
  <2> QED BY <2>1, <2>2
<1>6. \A j \in DOMAIN steps : steps[j].do \in Leading /\ steps[j].do \in Rest
  BY <1>2 DEF Leading, Rest
<1>7. Todo(p)[1].do \in Leading
  BY <1>1 DEF Leading
<1>8. Todo(p)[1].do \in {"blob", "copy"} => Todo(p)[1].d \in full' \/ Pending(steps, Todo(p)[1].d, Len(steps) + 1)
  BY <1>2
<1> QED BY <1>1, <1>2, <1>3, <1>4, <1>5, <1>6, <1>7, <1>8, PromiseStep

\* Writing index.json makes what was changed in memory what it lists.
LEMMA PromiseWrites ==
  ASSUME Types, Types', NEW p \in Procs, PromiseAt(p), Truncate(p) \/ WriteData(p)
  PROVE  PromiseAt(p)'
<1> DEFINE steps == <<>>
<1>1. /\ Todo(p) # <<>> /\ Todo(p)[1].do \in {"trunc", "data"}
  <2>1. CASE At(p, "trunc")
    BY <2>1, HeadIs
  <2>2. CASE At(p, "data")
    BY <2>2, HeadIs
  <2> QED BY <2>1, <2>2 DEF Truncate, WriteData
<1>2. /\ steps \in Seq(Plans) /\ Todo(p)' = steps \o Tail(Todo(p))
      /\ job'[p] = [job[p] EXCEPT !.todo = steps \o Tail(job[p].todo)]
  BY Types_Truncate, Types_WriteData, EmptyLists
<1>3. Alike(job[p], job'[p])
  BY <1>2, JobAlike
<1>4. \A j \in DOMAIN steps : steps[j].do \in Leading /\ steps[j].do \in Rest
  OBVIOUS
<1>5. full' = full /\ Coming(p)' = Coming(p)
  BY ComingWrites DEF Truncate, WriteData
<1> HIDE DEF steps
<1>6. Todo(p)[1].do \in Leading /\ Todo(p)[1].do \notin {"blob", "copy"}
  BY <1>1 DEF Leading
<1> QED BY <1>1, <1>2, <1>3, <1>4, <1>5, <1>6, PromiseStep

\* The entry that a command has planned is about to be written.
LEMMA PromiseEntry ==
  ASSUME NEW o \in Jobs, NEW w, Alike(o, w), NEW t \in Seq(Plans), t # <<>>, t[1].do \in {"append", "replace"},
         NEW steps \in Seq(Plans), \A j \in DOMAIN steps : steps[j].do \in {"trunc", "data"},
         NEW u, u = steps \o Tail(t), NEW es, NEW es2, \E j \in DOMAIN es2 : es2[j] = t[1].e,
         NEW F, PromiseOf(o, t, es, F)
  PROVE  PromiseOf(w, u, es2, F)
<1> SUFFICES ASSUME Offered(o)
             PROVE  /\ u # <<>> /\ u[Len(u)].do = "validate"
                    /\ \A i \in Pieces(o) : \A d \in {Manifest(i), Layers(i)} : d \in F \/ Pending(u, d, Len(u))
                    /\ Promises(o, u, es2)
  BY AlikePromises DEF PromiseOf
<1>1. /\ t[Len(t)].do = "validate"
      /\ \A i \in Pieces(o) : \A d \in {Manifest(i), Layers(i)} : d \in F \/ Pending(t, d, Len(t))
      /\ Promises(o, t, es)
  BY DEF PromiseOf
<1>2. Len(t) > 1
  <2>1. Len(t) \in Nat \ {0} /\ t[1].do # "validate"
    BY HeadIn
  <2> DEFINE n == Len(t)
  <2>2. n \in Nat \ {0} /\ n # 1
    BY <1>1, <2>1
  <2> HIDE DEF n
  <2>3. n > 1
    BY <2>2
  <2> QED BY <2>3 DEF n
<1>3. u # <<>> /\ u[Len(u)].do = "validate"
  BY <1>1, <1>2, LastMoves
<1>4. \A i \in Pieces(o) : \A d \in {Manifest(i), Layers(i)} : d \in F \/ Pending(u, d, Len(u))
  BY <1>1, <1>2, PiecesMove, ZenonT(60)
<1>5. Replacing(o, t, 1) \/ Serving(o, t, 1)
  BY <1>1, PromiseHeads DEF Rest, Leading
<1>6. \A j \in DOMAIN u : u[j].do \in Rest \cup {"trunc", "data"}
  <2>1. \A k \in 2..Len(t) : k \in DOMAIN t /\ k # 1 /\ k > 1
    BY HeadIn
  <2>2. \A k \in 2..Len(t) : t[k].do \in Rest
    BY <1>5, <2>1 DEF Replacing, Serving
  <2> QED BY <2>2, StepOrigins
<1>7. PICK j \in DOMAIN es2 : es2[j] = t[1].e
  OBVIOUS
<1>8. j \in Named(es2, o.ref) /\ (IF es2[j].kind = "image" THEN o.got = ImageOf(es2[j].dig) ELSE Serves(o, es2[j].dig))
  <2>1. CASE Serving(o, t, 1)
    BY <1>7, <2>1 DEF Serving, Named
  <2>2. CASE Replacing(o, t, 1)
    <3>1. t[1].e = Entry(o.ref, o.got) /\ o.got.kind = "image"
      BY <2>2 DEF Replacing, Relist
    <3>2. o.got \in Contents
      BY DEF Offered, Jobs
    <3>3. es2[j].ref = o.ref /\ es2[j].kind = "image" /\ es2[j].dig = o.got.dig
      BY <1>7, <3>1 DEF Entry
    <3>4. o.got = ImageOf(o.got.dig)
      BY <3>1, <3>2, ContentParts
    <3> QED BY <3>3, <3>4 DEF Named
  <2> QED BY <1>5, <2>1, <2>2
<1> QED BY <1>3, <1>4, <1>6, <1>8 DEF Promises, Served

\* An entry that is added or replaced serves the pull.
LEMMA PromiseEdits ==
  ASSUME Types, Types', NEW p \in Procs, WholeAt(p), PromiseAt(p), InitRoot(p) \/ EditRoot(p)
  PROVE  PromiseAt(p)'
<1>0. WholeOf(Todo(p), job[p], Coming(p), root, full, part) /\ UNCHANGED disk
  BY WholeIs DEF InitRoot, EditRoot
<1> DEFINE steps == <<Do("trunc"), Do("data")>>
<1>s. /\ steps \in Seq(Plans) /\ \A j \in DOMAIN steps : steps[j].do \in {"trunc", "data"}
      /\ Len(steps) = 2 /\ steps[1].do = "trunc"
  <2> DEFINE a == Do("trunc")
             b == Do("data")
  <2>1. a \in Plans /\ b \in Plans /\ a.do = "trunc" /\ b.do = "data"
    BY PlansAre
  <2> HIDE DEF a, b
  <2>2. /\ <<a, b>> \in Seq(Plans) /\ Len(<<a, b>>) = 2
        /\ <<a, b>>[1].do = "trunc"
        /\ \A j \in DOMAIN <<a, b>> : <<a, b>>[j].do \in {"trunc", "data"}
    BY <2>1
  <2> QED BY <2>2 DEF a, b
<1>1. CASE InitRoot(p)
  <2>1. Todo(p) # <<>> /\ Todo(p)[1].do = "init"
    BY <1>1, HeadIs DEF InitRoot
  <2>2. Alike(job[p], job'[p])
    BY <1>1, Types_InitRoot, JobAlike, ZenonT(60)
  <2> QED BY <2>1, <2>2, PromiseEarly
<1>2. CASE EditRoot(p)
  <2>1. At(p, "remove") \/ At(p, "append") \/ At(p, "replace")
    BY <1>2 DEF EditRoot
  <2>2. /\ Todo(p) # <<>> /\ Todo(p) \in Seq(Plans) /\ Todo(p)[1].do \in {"remove", "append", "replace"}
        /\ job[p] \in Jobs /\ Now(p) \in Plans /\ Now(p) = Todo(p)[1]
    <3>1. CASE At(p, "remove")
      BY <3>1, AtIs, HeadIs DEF Types
    <3>2. CASE At(p, "append")
      BY <3>2, AtIs, HeadIs DEF Types
    <3>3. CASE At(p, "replace")
      BY <3>3, AtIs, HeadIs DEF Types
    <3> QED BY <2>1, <3>1, <3>2, <3>3
  <2>3. root.is = "good"
    BY <1>0, <2>2, WholeParts
  <2>4. /\ Todo(p)' = steps \o Tail(Todo(p))
        /\ job'[p] = [job[p] EXCEPT !.todo = <<Do("trunc"), Do("data")>> \o Tail(job[p].todo), !.buf = Edited(p)]
    BY <1>2, <2>3, Types_EditRoot DEF Readable
  <2>5. job'[p].buf = Edited(p) /\ Alike(job[p], job'[p])
    <3>1. job'[p].buf = Edited(p)
      BY <2>2, <2>4 DEF Jobs
    <3>2. \E x, b : job'[p] = [job[p] EXCEPT !.todo = x, !.buf = b]
      BY <2>4
    <3>3. Alike(job[p], job'[p])
      BY <3>2, JobAlike
    <3> QED BY <3>1, <3>3
  <2> HIDE DEF steps
  <2>6. Todo(p)' # <<>> /\ Todo(p)'[1].do = "trunc"
    <3> DEFINE u == Todo(p)'
               t == Todo(p)
    <3>1. u = steps \o Tail(t) /\ t \in Seq(Plans) /\ t # <<>> /\ steps \in Seq(Plans)
      BY <1>s, <2>2, <2>4
    <3> HIDE DEF u, t
    <3>2. 1 \in 1..Len(steps)
      BY <1>s
    <3>3. 1 \in DOMAIN u /\ u[1] = steps[1]
      <4>1. \A k \in 1..Len(steps) : k \in DOMAIN u /\ u[k] = steps[k]
        BY <3>1, StepOrigins
      <4> QED BY <3>2, <4>1
    <3>4. u # <<>> /\ u[1].do = "trunc"
      BY <1>s, <3>3
    <3> QED BY <3>4 DEF u
  <2>7. Coming(p)' = Edited(p)
    BY <2>5, <2>6, ComingNext
  <2>8. full' = full
    BY <1>0 DEF disk
  <2>9. CASE At(p, "remove")
    <3>1. Todo(p)[1].do = "remove"
      BY <2>9, HeadIs
    <3>2. \A j \in DOMAIN steps : steps[j].do \in Leading
      BY <1>s DEF Leading
    <3>3. "remove" \in Leading /\ "remove" \notin Rest \cup {"trunc", "data"} /\ "remove" \notin {"blob", "copy"}
      BY DEF Leading, Rest
    <3> QED BY <1>s, <2>2, <2>4, <2>5, <2>8, <3>1, <3>2, <3>3, PromiseStep
  <2>10. CASE At(p, "append") \/ At(p, "replace")
    <3>1. Todo(p)[1].do \in {"append", "replace"}
      BY <2>10, HeadIs
    <3>2. \E j \in DOMAIN Edited(p) : Edited(p)[j] = Todo(p)[1].e
      <4>0. RootFits /\ root.es \in Seq(Listing) /\ Now(p).e \in Listing
        BY <2>2, <3>1, RootEntries, PlanParts DEF Types
      <4>1. \E es \in Seq(Listing) : Edited(p) = Append(es, Now(p).e)
        <5>1. CASE At(p, "append")
          <6>1. Todo(p)[1].do = "append"
            BY <5>1, HeadIs
          <6>2. ~At(p, "remove") /\ ~At(p, "replace")
            BY <6>1, AtHead DEF Types
          <6> QED BY <4>0, <5>1, <6>2 DEF Edited
        <5>2. CASE At(p, "replace")
          <6>1. Todo(p)[1].do = "replace"
            BY <5>2, HeadIs
          <6>2. ~At(p, "remove") /\ ~At(p, "append")
            BY <6>1, AtHead DEF Types
          <6>3. WithoutRef(Now(p).e.ref) \in Seq(Listing)
            BY <4>0, WithoutRefIs
          <6> QED BY <5>2, <6>2, <6>3 DEF Edited
        <5> QED BY <2>10, <5>1, <5>2
      <4>2. PICK es \in Seq(Listing) : Edited(p) = Append(es, Now(p).e)
        BY <4>1
      <4> DEFINE k == Len(es) + 1
      <4>3. k \in Nat /\ k \in 1..k
        OBVIOUS
      <4>4. k \in DOMAIN Edited(p) /\ Edited(p)[k] = Now(p).e
        BY <4>0, <4>2, <4>3, AppendIs
      <4> QED BY <2>2, <4>4
    <3> DEFINE G == full'
               u == Todo(p)'
               w == job'[p]
               es2 == Coming(p)'
    <3>3. /\ PromiseOf(job[p], Todo(p), Coming(p), full) /\ G = full /\ u = steps \o Tail(Todo(p)) /\ Alike(job[p], w)
          /\ \E j \in DOMAIN es2 : es2[j] = Todo(p)[1].e
      BY <2>4, <2>5, <2>7, <2>8, <3>2, PromiseIs
    <3> HIDE DEF G, u, w, es2
    <3>4. PromiseOf(w, u, es2, G)
      BY <1>s, <2>2, <3>1, <3>3, PromiseEntry
    <3> QED BY <3>4, PromiseNext DEF G, u, w, es2
  <2> QED BY <2>1, <2>9, <2>10
<1> QED BY <1>1, <1>2

\* The first image of an index for an architecture.
LEMMA ForArchIs ==
  ASSUME NEW s \in Seq(Images), NEW a, ForArch(s, a) # {}
  PROVE  /\ First(ForArch(s, a)) \in ForArch(s, a) /\ First(ForArch(s, a)) \in 1..Len(s)
         /\ PlatOf[s[First(ForArch(s, a))]] # NoPlat /\ PlatOf[s[First(ForArch(s, a))]].arch = a
         /\ \A h \in ForArch(s, a) : First(ForArch(s, a)) <= h
<1>1. ForArch(s, a) \in SUBSET Nat /\ ForArch(s, a) \subseteq 1..Len(s)
  BY DEF ForArch
<1>2. First(ForArch(s, a)) \in ForArch(s, a) /\ \A h \in ForArch(s, a) : First(ForArch(s, a)) <= h
  BY <1>1, FirstIs
<1> QED BY <1>1, <1>2 DEF ForArch

\* An index serves what is wanted of it.
LEMMA OwnServes ==
  ASSUME NEW s \in Seq(Images), NEW a, ForArch(s, a) # {}
  PROVE  s[First(ForArch(s, a))] \in ToSet(Wanted(s, a))
<1> DEFINE f == First(ForArch(s, a))
<1>1. f \in 1..Len(s) /\ PlatOf[s[f]].arch = a
  BY ForArchIs
<1>2. s[f] \in ToSet(s)
  BY <1>1 DEF ToSet
<1> QED BY <1>1, <1>2, WantedIs

\* So does an index into which it has been merged.
LEMMA MergedServes ==
  ASSUME NEW old \in Seq(Images), NEW add \in Seq(Images), \A i \in ToSet(add) : PlatOf[i] # NoPlat,
         NEW new \in Merged(old, add), NEW a, ForArch(add, a) # {}
  PROVE  ForArch(new, a) # {} /\ new[First(ForArch(new, a))] \in ToSet(Wanted(add, a))
<1>1. PICK ks : Merges(old, add, new, ks)
  BY MergedIs
<1>2. new \in Seq(Images) /\ Len(new) = Len(old) + Len(ks) /\ Len(old) \in Nat /\ Len(ks) \in Nat /\ DOMAIN new = 1..Len(new)
  <2>1. new \in Seq(Images)
    BY MergedIs
  <2>2. ks \in Seq(Left(old, add)) /\ Len(new) = Len(old) + Len(ks)
    BY <1>1 DEF Merges
  <2> QED BY <2>1, <2>2
<1>3. /\ \A j \in 1..Len(old) : j \in ForArch(new, a) <=> PlatOf[old[j]] # NoPlat /\ Key(old[j]) = a
      /\ \A j \in 1..Len(ks) : Len(old) + j \in ForArch(new, a) <=> ks[j] = a
  <2>1. \A j \in 1..Len(old) : j \in DOMAIN new
    BY <1>2
  <2>2. \A j \in 1..Len(ks) : Len(old) + j \in DOMAIN new
    BY <1>2
  <2> QED BY <1>1, <2>1, <2>2, MergedKeys DEF ForArch, Key
<1>4. a \in Keys(add)
  <2>1. PICK j \in DOMAIN add : PlatOf[add[j]].arch = a
    BY DEF ForArch
  <2> QED BY <2>1 DEF Keys, Key, ToSet
<1>5. NewFor(add, a) \in ToSet(Wanted(add, a))
  <2>1. PICK j \in DOMAIN add : NewFor(add, a) = add[j] /\ Key(add[j]) = a
    BY <1>4, NewForIs
  <2>2. add[j] \in ToSet(add) /\ PlatOf[add[j]].arch = a
    BY <2>1 DEF ToSet, Key
  <2> QED BY <2>1, <2>2, WantedIs
<1>6. ForArch(new, a) # {}
  <2>1. CASE \E j \in 1..Len(old) : PlatOf[old[j]] # NoPlat /\ Key(old[j]) = a
    BY <1>3, <2>1
  <2>2. CASE ~ \E j \in 1..Len(old) : PlatOf[old[j]] # NoPlat /\ Key(old[j]) = a
    <3>1. \A i \in ToSet(old) : \E j \in 1..Len(old) : i = old[j]
      BY DEF ToSet
    <3>2. a \in Left(old, add)
      BY <1>4, <2>2, <3>1 DEF Left
    <3>3. PICK j \in 1..Len(ks) : ks[j] = a
      BY <1>1, <3>2 DEF Merges
    <3> QED BY <1>3, <3>3
  <2> QED BY <2>1, <2>2
<1> DEFINE f == First(ForArch(new, a))
<1>7. f \in ForArch(new, a) /\ f \in 1..Len(new) /\ \A h \in ForArch(new, a) : f <= h
  BY <1>2, <1>6, ForArchIs
<1> HIDE DEF f
<1>8. CASE f \in 1..Len(old)
  <2>1. PlatOf[old[f]] # NoPlat /\ Key(old[f]) = a
    BY <1>3, <1>7, <1>8
  <2>2. ASSUME NEW h \in 1..(f - 1), PlatOf[old[h]] # NoPlat PROVE Key(old[h]) # a
    <3>1. h \in 1..Len(old) /\ ~(f <= h)
      BY <1>2, <1>8
    <3>2. h \notin ForArch(new, a)
      BY <1>7, <3>1
    <3> QED BY <1>3, <2>2, <3>1, <3>2
  <2>3. new[f] = Replaced(old, add)[f]
    BY <1>1, <1>8 DEF Merges
  <2>4. Replaced(old, add)[f] = NewFor(add, a)
    BY <1>4, <1>8, <2>1, <2>2, ReplacedIs
  <2> QED BY <1>5, <1>6, <2>3, <2>4 DEF f
<1>9. CASE f \notin 1..Len(old)
  <2> DEFINE j == f - Len(old)
  <2>1. j \in 1..Len(ks) /\ f = Len(old) + j
    BY <1>2, <1>7, <1>9
  <2> HIDE DEF j
  <2>2. ks[j] = a
    BY <1>3, <1>7, <2>1
  <2>3. new[f] = NewFor(add, a)
    BY <1>1, <2>1, <2>2 DEF Merges
  <2> QED BY <1>5, <1>6, <2>3 DEF f
<1> QED BY <1>8, <1>9

\* The merged index is about to be listed.
LEMMA PromiseMerged ==
  ASSUME NEW o, NEW w, Alike(o, w), NEW t \in Seq(Plans), t # <<>>, t[1].do = "index",
         NEW steps \in Seq(Plans), NEW k \in DOMAIN steps, k = Len(steps), steps[k].do = "append",
         steps[k].e.ref = o.ref, steps[k].e.kind = "index",
         Offered(o) /\ t[1].add = o.got.dig => Serves(o, steps[k].e.dig),
         \A j \in DOMAIN steps : j # k => steps[j].do \in Leading,
         NEW u, u = steps \o Tail(t), NEW es, NEW es2, NEW F, PromiseOf(o, t, es, F)
  PROVE  PromiseOf(w, u, es2, F)
<1> SUFFICES ASSUME Offered(o)
             PROVE  /\ u # <<>> /\ u[Len(u)].do = "validate"
                    /\ \A i \in Pieces(o) : \A d \in {Manifest(i), Layers(i)} : d \in F \/ Pending(u, d, Len(u))
                    /\ Promises(o, u, es2)
  BY AlikePromises DEF PromiseOf
<1>1. /\ t[Len(t)].do = "validate"
      /\ \A i \in Pieces(o) : \A d \in {Manifest(i), Layers(i)} : d \in F \/ Pending(t, d, Len(t))
      /\ Promises(o, t, es)
  BY DEF PromiseOf
<1>2. Len(t) > 1
  <2>1. Len(t) \in Nat \ {0} /\ t[1].do # "validate"
    BY HeadIn
  <2> DEFINE n == Len(t)
  <2>2. n \in Nat \ {0} /\ n # 1
    BY <1>1, <2>1
  <2> HIDE DEF n
  <2>3. n > 1
    BY <2>2
  <2> QED BY <2>3 DEF n
<1>3. u # <<>> /\ u[Len(u)].do = "validate"
  BY <1>1, <1>2, LastMoves
<1>4. \A i \in Pieces(o) : \A d \in {Manifest(i), Layers(i)} : d \in F \/ Pending(u, d, Len(u))
  BY <1>1, <1>2, PiecesMove
<1>5. Merging(t, o.got.dig)
  BY <1>1, PromiseHeads DEF Rest, Leading
<1>6. Serves(o, steps[k].e.dig)
  BY <1>5 DEF Merging
<1>7. \A j \in 2..Len(t) : t[j].do \in Rest
  <2>1. \A j \in 2..Len(t) : j \in DOMAIN t /\ j > 1
    BY HeadIn
  <2> QED BY <1>5, <2>1 DEF Merging
<1>8. k \in DOMAIN u /\ u[k] = steps[k] /\ k \in 1..Len(steps)
  BY StepOrigins
<1>9. \A j \in DOMAIN u : (j < k => u[j].do \in Leading) /\ (j > k => u[j].do \in Rest)
  <2>1. ASSUME NEW j \in DOMAIN u PROVE (j < k => u[j].do \in Leading) /\ (j > k => u[j].do \in Rest)
    <3>1. CASE j \in DOMAIN steps /\ u[j] = steps[j]
      <4>1. j \in 1..Len(steps)
        BY <3>1, StepOrigins
      <4>2. ~(j > k) /\ (j < k => j # k)
        BY <1>8, <4>1
      <4> QED BY <3>1, <4>2
    <3>2. CASE j > Len(steps) /\ j - Len(steps) + 1 \in 2..Len(t) /\ u[j] = t[j - Len(steps) + 1]
      <4>1. ~(j < k)
        BY <1>8, <3>2, <2>1, StepOrigins
      <4> QED BY <1>7, <3>2, <4>1
    <3> QED BY <3>1, <3>2, StepOrigins
  <2> QED BY <2>1
<1>10. Serving(o, u, k)
  BY <1>6, <1>8, <1>9 DEF Serving
<1> QED BY <1>3, <1>4, <1>8, <1>10 DEF Promises

\* IndexWrite refuses what a pull was offered only if there is an image in its place.
LEMMA IndexAccepts ==
  ASSUME Types, NEW p \in Procs, WholeAt(p), At(p, "index"), Offered(job[p]), Merging(Todo(p), job[p].got.dig),
         job[p].got.kind = "index", Refuses(p)
  PROVE  OfKind(root.es, job[p].ref, "image") # {}
<1> DEFINE r == job[p].ref
           ix == OfKind(root.es, r, "index")
<1>1. Todo(p) # <<>> /\ Todo(p) \in Seq(Plans) /\ Todo(p)[1] = Now(p) /\ Todo(p)[1].do = "index" /\ job[p].op # "clean"
  BY HeadIs
<1>2. WholeOf(Todo(p), job[p], Coming(p), root, full, part)
  BY WholeIs
<1>3. root.is = "good" /\ StoredIn(Coming(p), Todo(p), full)
  BY <1>1, <1>2, WholeParts
<1>4. Coming(p) = root.es
  BY <1>1, ComingIs
<1>5. \A x : ~Dropped(Todo(p), x)
  <2>1. \A k \in DOMAIN Todo(p) : k = 1 \/ k > 1
    BY <1>1, HeadIn
  <2>2. \A k \in DOMAIN Todo(p) : Todo(p)[k].do = "index" \/ Todo(p)[k].do \in Rest
    BY <1>1, <2>1 DEF Merging
  <2> QED BY <2>2 DEF Dropped, Rest
<1>6. \A j \in DOMAIN root.es : root.es[j].kind = "index" => Index(root.es[j].dig) \in full
  BY <1>3, <1>4, <1>5 DEF StoredIn
<1>7. IndexesReadable(r)
  BY <1>6 DEF IndexesReadable, OfKind, Named, Present
<1>8. Now(p).add = job[p].got.dig
  BY <1>1 DEF Merging
<1>9. Now(p).add # <<>>
  <2>1. ForArch(Now(p).add, job[p].arch) # {}
    BY <1>8 DEF Offered, Offers
  <2> QED BY <2>1 DEF ForArch
<1>10. \A i \in ToSet(Now(p).add) : PlatOf[i] # NoPlat
  BY <1>8 DEF Offered
<1>11. ix # {} => Index(root.es[First(ix)].dig) \in full
  <2>1. root.es \in Seq(Listing)
    BY RootEntries DEF Types
  <2> QED BY <1>6, <2>1, OfKindIs
<1> QED BY <1>3, <1>7, <1>9, <1>10, <1>11 DEF Refuses, Readable

\* A merge appends an index that serves the pull, or refuses where an image is listed.
LEMMA PromiseIndex ==
  ASSUME Types, Types', NEW p \in Procs, WholeAt(p), PromiseAt(p), IndexWrite(p)
  PROVE  PromiseAt(p)'
<1> DEFINE G == full'
           u == Todo(p)'
           w == job'[p]
           es2 == Coming(p)'
<1>0. PromiseOf(job[p], Todo(p), Coming(p), full) /\ UNCHANGED disk
  BY PromiseIs DEF IndexWrite
<1>1. /\ At(p, "index") /\ Todo(p) # <<>> /\ Todo(p) \in Seq(Plans) /\ Todo(p)[1] = Now(p) /\ Todo(p)[1].do = "index"
      /\ job[p] \in Jobs /\ job[p].ref \in Refs
  <2>1. At(p, "index")
    BY DEF IndexWrite
  <2> QED BY <2>1, HeadIs, TodoIs
<1>2. CASE Fail(p) /\ Refuses(p)
  <2>1. u = <<>> /\ Alike(job[p], w)
    BY <1>2, ReturnEnds DEF Fail, Alike
  <2>2. es2 = root.es
    BY <1>0, <2>1, ComingNext DEF disk
  <2>3. Offered(job[p]) => job[p].got.kind = "index" /\ OfKind(root.es, job[p].ref, "image") # {}
    <3> SUFFICES ASSUME Offered(job[p]) PROVE job[p].got.kind = "index" /\ OfKind(root.es, job[p].ref, "image") # {}
      OBVIOUS
    <3>1. Promises(job[p], Todo(p), Coming(p))
      BY <1>0, <1>1 DEF PromiseOf
    <3>2. Merging(Todo(p), job[p].got.dig) /\ job[p].got.kind = "index"
      <4> DEFINE t == Todo(p)
                 o == job[p]
                 es == Coming(p)
      <4>1. t \in Seq(Plans) /\ t # <<>> /\ t[1].do = "index" /\ Promises(o, t, es)
        BY <1>1, <3>1
      <4> HIDE DEF t, o, es
      <4>2. Merging(t, o.got.dig) /\ o.got.kind = "index"
        BY <4>1, PromiseHeads DEF Rest, Leading
      <4> QED BY <4>2 DEF t, o, es
    <3> QED BY <1>1, <1>2, <3>2, IndexAccepts
  <2> HIDE DEF G, u, w, es2
  <2>4. PromiseOf(w, u, es2, G)
    <3>1. w.ref = job[p].ref /\ w.got = job[p].got /\ (Offered(w) <=> Offered(job[p]))
      BY <2>1, AlikePromises DEF Alike
    <3> QED BY <2>1, <2>2, <2>3, <3>1 DEF PromiseOf
  <2> QED BY <2>4, PromiseNext DEF G, u, w, es2
<1>3. CASE \E s, steps : Puts(p, job[p].ref, s, steps) /\ Then(p, steps)
  <2>1. PICK s, steps : Puts(p, job[p].ref, s, steps) /\ Then(p, steps)
    BY <1>3
  <2> DEFINE k == Len(steps)
             e == Entry(job[p].ref, IndexOf(s))
  <2>2. /\ \A j \in DOMAIN steps : steps[j].do \in Leading \cup {"append"}
        /\ \A j \in DOMAIN steps : steps[j].do \in {"append", "replace"} => j = k
        /\ steps \in Seq(Plans) /\ Fresh(steps, job[p]) /\ k \in DOMAIN steps
        /\ steps[k] = AppendTo(e)
    <3>1. Puts(p, job[p].ref, s, steps)
      BY <2>1
    <3>2. steps \in Seq(Plans) /\ Fresh(steps, job[p])
      BY <1>1, <3>1, PutsAre
    <3>3. /\ \A j \in DOMAIN steps : steps[j].do \in Leading \cup {"append"}
          /\ \A j \in DOMAIN steps : steps[j].do \in {"append", "replace"} =>
               j = Len(steps) /\ steps[j] = AppendTo(Entry(job[p].ref, IndexOf(s)))
          /\ Len(steps) \in DOMAIN steps /\ steps[Len(steps)] = AppendTo(Entry(job[p].ref, IndexOf(s)))
      BY <1>1, <3>1, PutsShape, ZenonT(60)
    <3> QED BY <3>2, <3>3
  <2>3. u = steps \o Tail(Todo(p)) /\ Alike(job[p], w)
    <3>1. /\ Todo(p)' = steps \o Tail(Todo(p))
          /\ job'[p] = [job[p] EXCEPT !.todo = steps \o Tail(job[p].todo)]
      BY <1>1, <2>1, <2>2, ThenFits DEF Types
    <3> QED BY <3>1, JobAlike
  <2>4. steps[k].do = "append" /\ steps[k].e.ref = job[p].ref /\ steps[k].e.kind = "index" /\ steps[k].e.dig = s
    BY <2>2 DEF AppendTo, Entry, IndexOf
  <2>5. Offered(job[p]) /\ Todo(p)[1].add = job[p].got.dig => Serves(job[p], s)
    <3> SUFFICES ASSUME Offered(job[p]), Todo(p)[1].add = job[p].got.dig PROVE Serves(job[p], s)
      OBVIOUS
    <3> DEFINE add == Now(p).add
               a == job[p].arch
               old == root.es[First(OfKind(root.es, job[p].ref, "index"))].dig
    <3>1. add = job[p].got.dig /\ add \in Seq(Images)
      BY <1>1, AtIs, PlanParts DEF Types
    <3>2. job[p].got.kind = "index"
      <4>1. Promises(job[p], Todo(p), Coming(p))
        BY <1>0, <1>1 DEF PromiseOf
      <4> DEFINE t == Todo(p)
                 o == job[p]
                 es == Coming(p)
      <4>2. t \in Seq(Plans) /\ t # <<>> /\ t[1].do = "index" /\ Promises(o, t, es)
        BY <1>1, <4>1
      <4> HIDE DEF t, o, es
      <4>3. o.got.kind = "index"
        BY <4>2, PromiseHeads DEF Rest, Leading
      <4> QED BY <4>3 DEF o
    <3>3. ForArch(add, a) # {} /\ (\A i \in ToSet(add) : PlatOf[i] # NoPlat) /\ Pieces(job[p]) = ToSet(Wanted(add, a))
      BY <3>1, <3>2 DEF Offered, Offers, Pieces
    <3>4. \/ s = add
          \/ old \in Seq(Images) /\ s \in Merged(old, add)
      BY <2>1 DEF Puts
    <3> HIDE DEF old
    <3>5. ForArch(s, a) # {} /\ s[First(ForArch(s, a))] \in ToSet(Wanted(add, a))
      <4> HIDE DEF add, a
      <4>1. CASE s = add
        BY <3>1, <3>3, <4>1, OwnServes
      <4>2. CASE old \in Seq(Images) /\ s \in Merged(old, add)
        BY <3>1, <3>3, <4>2, MergedServes
      <4> QED BY <3>4, <4>1, <4>2
    <3> QED BY <3>3, <3>5 DEF Serves
  <2> HIDE DEF k
  <2>6. \A j \in DOMAIN steps : j # k => steps[j].do \in Leading
    BY <2>2
  <2>7. G = full
    BY <1>0 DEF disk
  <2> DEFINE o == job[p]
             t == Todo(p)
             es == Coming(p)
  <2>8. /\ Alike(o, w) /\ t \in Seq(Plans) /\ t # <<>> /\ t[1].do = "index" /\ steps[k].e.ref = o.ref
        /\ Offered(o) /\ t[1].add = o.got.dig => Serves(o, steps[k].e.dig)
        /\ u = steps \o Tail(t) /\ PromiseOf(o, t, es, full)
    BY <1>0, <1>1, <2>3, <2>4, <2>5
  <2> HIDE DEF G, u, w, es2, o, t, es
  <2>9. PromiseOf(w, u, es2, full)
    BY <2>2, <2>4, <2>6, <2>8, PromiseMerged DEF k
  <2> QED BY <2>7, <2>9, PromiseNext DEF G, u, w, es2
<1> QED BY <1>2, <1>3, IndexWriteDoes

\* The registry has answered: what comes next lists the images before it writes them, or after.
LEMMA PromiseAnswered ==
  ASSUME Types, NEW p \in Procs, job[p].op = "pull", job[p].ref \in Refs,
         NEW c \in Contents, ContentFits(c, job[p].ref[1]), NEW u, u = Answered(p, c),
         NEW w, w.ref = job[p].ref, w.arch = job[p].arch, w.got = c, NEW es, NEW F
  PROVE  PromiseOf(w, u, es, F)
<1>1. CASE c.kind = "image"
  <2> DEFINE i == c.dig
  <2>1. i \in Images /\ c = ImageOf(i) /\ i \in ImagesOf(job[p].ref[1])
    BY <1>1, ContentParts DEF ContentFits
  <2>2. /\ u \in Seq(Plans) /\ Len(u) = 4 /\ DOMAIN u = 1..4
        /\ u[1] = Blob(Layers(i)) /\ u[2] = Blob(Manifest(i))
        /\ u[3] = Relist(Entry(job[p].ref, ImageOf(i))) /\ u[4] = Do("validate")
        /\ u[1].do = "blob" /\ u[2].do = "blob" /\ u[3].do = "replace" /\ u[4].do = "validate"
        /\ \A k \in 1..4 : k = 1 \/ k = 2 \/ k = 3 \/ k = 4
    <3> HIDE DEF i
    <3>1. u = Answered(p, ImageOf(i))
      BY <2>1
    <3> QED BY <2>1, <3>1, AnsweredImage
  <2>3. Pieces(w) = {i}
    BY <1>1 DEF Pieces
  <2> HIDE DEF i
  <2>4. Pending(u, Layers(i), 4) /\ Pending(u, Manifest(i), 4)
    <3>1. u[1].d = Layers(i) /\ u[2].d = Manifest(i)
      BY <2>2 DEF Blob
    <3>2. 1 \in 1..(4 - 1) /\ 2 \in 1..(4 - 1)
      OBVIOUS
    <3> QED BY <2>2, <3>1, <3>2 DEF Pending
  <2>5. Replacing(w, u, 3)
    <3>1. u[3] = Relist(Entry(w.ref, w.got)) /\ w.got.kind = "image"
      BY <1>1, <2>1, <2>2
    <3>2. \A j \in DOMAIN u : j # 3 => u[j].do \in Rest
      BY <2>2 DEF Rest
    <3> QED BY <3>1, <3>2 DEF Replacing
  <2>6. u # <<>> /\ 3 \in DOMAIN u
    <3>1. DOMAIN u = 1..4
      BY <2>2
    <3> QED BY <3>1, SMTT(30)
  <2> QED BY <2>2, <2>3, <2>4, <2>5, <2>6 DEF PromiseOf, Promises
<1>2. CASE c.kind = "index"
  <2> DEFINE s == c.dig
             n == Len(u)
  <2>1. s \in Seq(Images) /\ c = IndexOf(s) /\ Fits(s, job[p].ref[1])
    BY <1>2, ContentParts DEF ContentFits
  <2>2. IndexSteps(u, s, job[p].arch, job[p].ref[1])
    <3> HIDE DEF s
    <3>1. u = Answered(p, IndexOf(s))
      BY <2>1
    <3> QED BY <2>1, <3>1, AnsweredIndex
  <2>3. Pieces(w) = ToSet(Wanted(s, job[p].arch))
    BY <1>2 DEF Pieces
  <2>4. /\ u \in Seq(Plans) /\ n > 1 /\ DOMAIN u = 1..n /\ n \in Nat
        /\ u[1] = [do |-> "index", add |-> s] /\ u[n] = Do("validate")
        /\ \A k \in 2..(n - 1) : u[k].do = "blob"
    <3>1. \A k \in 2..(n - 1) : u[k].do = "blob"
      BY <2>2 DEF IndexSteps, Blob
    <3> QED BY <2>2, <3>1 DEF IndexSteps
  <2>5. ASSUME NEW i \in Pieces(w) PROVE Pending(u, Layers(i), n) /\ Pending(u, Manifest(i), n)
    <3>1. PICK j, k \in 2..(n - 1) : u[j] = Blob(Layers(i)) /\ u[k] = Blob(Manifest(i))
      BY <2>2, <2>3, <2>5 DEF IndexSteps
    <3> HIDE DEF n
    <3>2. j \in 1..(n - 1) /\ k \in 1..(n - 1)
      BY <2>4
    <3> QED BY <3>1, <3>2 DEF Pending, Blob
  <2> HIDE DEF n, s
  <2>6. Merging(u, s)
    <3>1. \A j \in DOMAIN u : j > 1 => j = n \/ j \in 2..(n - 1)
      BY <2>4
    <3>2. \A j \in DOMAIN u : j > 1 => u[j].do \in Rest
      BY <2>4, <3>1 DEF Rest, Do
    <3>3. u # <<>>
      BY <2>4 DEF n
    <3> QED BY <2>4, <3>2, <3>3 DEF Merging
  <2>7. w.got.kind = "index" /\ w.got.dig = s
    BY <1>2 DEF s
  <2>8. u # <<>> /\ u[n].do = "validate"
    BY <2>4, <2>6 DEF Merging, Do
  <2> QED BY <2>5, <2>6, <2>7, <2>8 DEF PromiseOf, Promises, n
<1> QED BY <1>1, <1>2, ContentParts

\* What is about to be validated is there.
LEMMA PromiseHolds ==
  ASSUME Types, UniqueInv, NEW p \in Procs, WholeAt(p), PromiseAt(p), At(p, "validate"), Offered(job[p])
  PROVE  Valid(job[p].ref, job[p].arch)
<1> DEFINE r == job[p].ref
           a == job[p].arch
           images == OfKind(root.es, r, "image")
           indexes == OfKind(root.es, r, "index")
<1>1. /\ Todo(p) # <<>> /\ Todo(p) \in Seq(Plans) /\ Todo(p)[1].do = "validate" /\ job[p].op # "clean"
      /\ JobFits(job[p]) /\ Todo(p) = job[p].todo
  BY HeadIs, TodoIs
<1>2. Len(Todo(p)) = 1
  <2>1. 1 \in DOMAIN Todo(p)
    BY <1>1, HeadIn
  <2> QED BY <1>1, <2>1 DEF JobFits, Ordered, Closing
<1>3. WholeOf(Todo(p), job[p], Coming(p), root, full, part) /\ PromiseOf(job[p], Todo(p), Coming(p), full)
  BY WholeIs, PromiseIs
<1>4. Readable /\ StoredIn(Coming(p), Todo(p), full)
  BY <1>1, <1>3, WholeParts DEF Readable
<1>5. Coming(p) = root.es /\ root.es \in Seq(Listing)
  BY <1>1, ComingIs, RootEntries DEF Types
<1>6. \A j \in DOMAIN root.es : root.es[j].kind = "index" => Index(root.es[j].dig) \in full
  <2>1. \A k \in DOMAIN Todo(p) : k = 1
    BY <1>1, <1>2, HeadIn
  <2>2. \A x : ~Dropped(Todo(p), x)
    BY <1>1, <2>1 DEF Dropped
  <2> QED BY <1>4, <1>5, <2>2 DEF StoredIn
<1>7. \A i \in Pieces(job[p]) : Complete(i)
  <2>1. \A d : ~Pending(Todo(p), d, 1)
    BY DEF Pending
  <2>2. \A i \in Pieces(job[p]) : \A d \in {Manifest(i), Layers(i)} : d \in full
    BY <1>1, <1>2, <1>3, <2>1 DEF PromiseOf
  <2> QED BY <2>2 DEF Complete
<1>8. Served(job[p], Todo(p), root.es)
  <2> DEFINE t == Todo(p)
             o == job[p]
             es == root.es
  <2>1. t \in Seq(Plans) /\ t # <<>> /\ t[1].do = "validate" /\ Promises(o, t, es) /\ Len(t) = 1
    BY <1>1, <1>2, <1>3, <1>5 DEF PromiseOf
  <2> HIDE DEF t, o, es
  <2>2. \A k \in DOMAIN t : ~(k > 1)
    BY <2>1, HeadIn
  <2>3. Served(o, t, es)
    BY <2>1, <2>2, PromiseHeads DEF Leading
  <2> QED BY <2>3 DEF t, o, es
<1>9. PICK j \in Named(root.es, r) :
        IF root.es[j].kind = "image" THEN job[p].got = ImageOf(root.es[j].dig) ELSE Serves(job[p], root.es[j].dig)
  BY <1>8 DEF Served
<1>10. \A k \in Named(root.es, r) : k = j
  <2>1. PICK n \in Names : r = Ref(n)
    BY <1>1 DEF JobFits, Ordered, Offered
  <2> HIDE DEF r
  <2> QED BY <1>9, <2>1 DEF UniqueInv, Unique
<1>11. j \in DOMAIN root.es /\ root.es[j].kind \in {"image", "index"}
  <2>1. j \in DOMAIN root.es
    BY <1>9 DEF Named
  <2> QED BY <1>5, <2>1, ListingParts
<1>12. CASE root.es[j].kind = "image"
  <2>1. images # {} /\ images \in SUBSET Nat /\ images \subseteq Named(root.es, r)
    BY <1>5, <1>9, <1>12, OfKindIs DEF OfKind
  <2>2. First(images) = j
    BY <1>10, <2>1, FirstIs
  <2>3. FindRoot(r) = ImageOf(root.es[j].dig)
    BY <1>4, <2>1, <2>2 DEF FindRoot
  <2>4. Pieces(job[p]) = {root.es[j].dig}
    BY <1>9, <1>12 DEF Pieces, ImageOf
  <2> QED BY <1>7, <2>3, <2>4 DEF Valid, ImageOf
<1>13. CASE root.es[j].kind = "index"
  <2> DEFINE s == root.es[j].dig
  <2>1. images = {}
    <3>1. \A k \in images : k \in Named(root.es, r) /\ root.es[k].kind = "image"
      BY DEF OfKind
    <3> QED BY <1>10, <1>13, <3>1
  <2>2. indexes # {} /\ indexes \in SUBSET Nat /\ indexes \subseteq Named(root.es, r)
    BY <1>5, <1>9, <1>13, OfKindIs, ZenonT(60) DEF OfKind
  <2>3. First(indexes) = j
    BY <1>10, <2>2, FirstIs
  <2>4. IndexesReadable(r)
    BY <1>6 DEF IndexesReadable, OfKind, Named, Present
  <2>5. FindRoot(r) = IndexOf(s)
    BY <1>4, <2>1, <2>2, <2>3, <2>4 DEF FindRoot
  <2>6. Index(s) \in full /\ ForArch(s, a) # {} /\ s[First(ForArch(s, a))] \in Pieces(job[p])
    BY <1>6, <1>9, <1>11, <1>13 DEF Serves
  <2>7. Complete(s[First(ForArch(s, a))])
    BY <1>7, <2>6
  <2> HIDE DEF s, a, r
  <2> QED BY <2>5, <2>6, <2>7 DEF Valid, IndexOf, r, a
<1> QED BY <1>11, <1>12, <1>13

\* A fetch makes the promise, and a validation finds it kept.
LEMMA PromisePulls ==
  ASSUME Types, Types', UniqueInv, NEW p \in Procs, WholeAt(p), PromiseAt(p),
         Look(p) \/ Fetch(p) \/ Validate(p) \/ Finish(p)
  PROVE  PromiseAt(p)'
<1>1. CASE Look(p)
  <2>1. Todo(p) # <<>> /\ Todo(p)[1].do = "look"
    BY <1>1, HeadIs DEF Look
  <2>2. Alike(job[p], job'[p])
    <3>1. CASE Return(p, TRUE)
      BY <3>1, ReturnEnds DEF Alike
    <3>2. CASE Then(p, <<>>)
      BY <2>1, <3>2, StepDone, JobAlike DEF Types
    <3> QED BY <1>1, <3>1, <3>2 DEF Look
  <2> QED BY <2>1, <2>2, PromiseEarly
<1>2. CASE Finish(p)
  <2>1. Todo(p) # <<>> /\ Todo(p)[1].do = "return"
    BY <1>2, HeadIs DEF Finish
  <2>2. Alike(job[p], job'[p])
    BY <1>2, ReturnEnds DEF Finish, Alike
  <2> QED BY <2>1, <2>2, PromiseEarly
<1>3. CASE Fetch(p)
  <2>1. Todo(p) # <<>> /\ Todo(p)[1].do = "fetch"
    BY <1>3, HeadIs, Zenon DEF Fetch
  <2>2. CASE Fail(p)
    <3>1. Alike(job[p], job'[p])
      BY <2>2, ReturnEnds DEF Fail, Alike
    <3> QED BY <2>1, <3>1, PromiseEarly
  <2> DEFINE c == remote[job[p].ref]
             u == Todo(p)'
             w == job'[p]
             es2 == Coming(p)'
             G == full'
  <2>3. CASE c \in Contents /\ ContentFits(c, job[p].ref[1]) /\ u = Answered(p, c)
             /\ w = [job[p] EXCEPT !.todo = Answered(p, c), !.got = c]
    <3>1. job[p] \in Jobs /\ job[p].op = "pull" /\ job[p].ref \in Refs
      BY <1>3, TodoIs, FetchDoes
    <3>2. w.ref = job[p].ref /\ w.arch = job[p].arch /\ w.got = c
      BY <2>3, <3>1 DEF Jobs
    <3> HIDE DEF c, u, w, es2, G
    <3>3. PromiseOf(w, u, es2, G)
      BY <2>3, <3>1, <3>2, PromiseAnswered
    <3> QED BY <3>3, PromiseNext DEF u, w, es2, G
  <2> QED BY <1>3, <2>2, <2>3, FetchDoes
<1>4. CASE Validate(p)
  <2>1. At(p, "validate") /\ Return(p, Valid(job[p].ref, job[p].arch))
    BY <1>4 DEF Validate
  <2>2. Todo(p)' = <<>> /\ Alike(job[p], job'[p]) /\ job'[p].ok = Valid(job[p].ref, job[p].arch)
    BY <2>1, ReturnEnds DEF Alike
  <2>3. Offered(job[p]) => Valid(job[p].ref, job[p].arch)
    BY <2>1, PromiseHolds
  <2>4. Offered(job'[p]) <=> Offered(job[p])
    BY <2>2, AlikePromises
  <2> QED BY <2>2, <2>3, <2>4, PromiseNext DEF PromiseOf
<1> QED BY <1>1, <1>2, <1>3, <1>4

\* A push and a clean have fetched nothing.
LEMMA PromisePushes ==
  ASSUME Types, NEW p \in Procs, PromiseAt(p), Push(p) \/ PushTag(p) \/ PushManifest(p)
  PROVE  PromiseAt(p)'
<1>1. Todo(p) # <<>> /\ Todo(p)[1].do \in {"push", "tag", "manifest"}
  <2>1. CASE At(p, "push")
    BY <2>1, HeadIs
  <2>2. CASE At(p, "tag")
    BY <2>2, HeadIs
  <2>3. CASE At(p, "manifest")
    BY <2>3, HeadIs
  <2> QED BY <2>1, <2>2, <2>3 DEF Push, PushTag, PushManifest
<1>2. Fail(p) \/ Return(p, TRUE) => Alike(job[p], job'[p])
  BY ReturnEnds DEF Fail, Alike
<1>3. (\E x : job'[p] = [job[p] EXCEPT !.todo = x]) => Alike(job[p], job'[p])
  BY JobAlike
<1>4. Alike(job[p], job'[p])
  <2>1. CASE Push(p)
    <3> DEFINE x == Sends(p) \o <<Do("manifest")>>
    <3>1. Fail(p) \/ Return(p, TRUE) \/ job'[p] = [job[p] EXCEPT !.todo = x]
      BY <2>1, PushDoes
    <3> HIDE DEF x
    <3> QED BY <1>2, <1>3, <3>1
  <2>2. CASE PushTag(p)
    <3> DEFINE two == <<AppendTo(Entry(Tag(job[p].ref[1], PlatOf[Now(p).i].arch), ImageOf(Now(p).i))),
                        [Now(p) EXCEPT !.again = TRUE]>>
               x == two \o Tail(job[p].todo)
               y == <<>> \o Tail(job[p].todo)
    <3>1. Fail(p) \/ job'[p] = [job[p] EXCEPT !.todo = x] \/ job'[p] = [job[p] EXCEPT !.todo = y]
      BY <2>2, PushTagDoes
    <3> HIDE DEF x, y
    <3> QED BY <1>2, <1>3, <3>1
  <2>3. CASE PushManifest(p)
    BY <1>2, <2>3, PushManifestDoes
  <2> QED BY <2>1, <2>2, <2>3
<1> QED BY <1>1, <1>4, PromiseEarly

LEMMA PromiseCleans ==
  ASSUME Types, NEW p \in Procs, PromiseAt(p), Clean(p)
  PROVE  PromiseAt(p)'
<1>1. Todo(p) # <<>> /\ Todo(p)[1].do = "clean"
  BY HeadIs DEF Clean
<1>2. CASE UNCHANGED job
  BY <1>1, <1>2, PromiseEarly DEF Alike
<1>3. CASE Return(p, TRUE)
  <2>1. Alike(job[p], job'[p])
    BY <1>3, ReturnEnds DEF Alike
  <2> QED BY <1>1, <2>1, PromiseEarly
<1> QED BY <1>2, <1>3 DEF Clean

(***************************************************************************)
(* A pull succeeds                                                         *)
(***************************************************************************)
\* An empty cache is whole.
LEMMA FlawlessInit == Init => FlawlessInv
<1> SUFFICES ASSUME Init, NEW p \in Procs PROVE WholeAt(p) /\ PromiseAt(p)
  BY DEF FlawlessInv
<1>1. root = NoRoot /\ part = {} /\ job[p] = Idle /\ Todo(p) = <<>>
  BY DEF Init, Todo, Idle
<1>2. PromiseAt(p)
  BY <1>1 DEF PromiseAt, Offered, Idle
<1>3. Coming(p) = root.es
  BY <1>1, ComingIs
<1>4. WholeAt(p)
  <2> DEFINE u == Todo(p)
  <2>1. u = <<>> /\ DOMAIN u = {}
    BY <1>1
  <2>2. Types
    BY TypesInit
  <2> HIDE DEF u
  <2>3. Shape(u, job[p].ref) /\ PlannedIn(u, full)
    BY <2>1, PlainShape
  <2>4. StoredIn(Coming(p), u, full)
    <3>1. Coming(p) = <<>>
      BY <1>1, <1>3 DEF NoRoot
    <3> QED BY <3>1 DEF StoredIn
  <2>5. root # Torn
    BY <1>1 DEF NoRoot, Torn
  <2>6. WholeOf(u, job[p], Coming(p), root, full, part)
    BY <1>1, <2>1, <2>3, <2>4, <2>5 DEF WholeOf
  <2> QED BY <2>2, <2>6, WholeIs DEF u
<1> QED BY <1>2, <1>4

\* Steps that touch neither the cache nor a command.
LEMMA FlawlessStill ==
  ASSUME Types, Types', NEW p \in Procs, WholeAt(p), PromiseAt(p), UNCHANGED <<disk, job>>
  PROVE  WholeAt(p)' /\ PromiseAt(p)'
<1>1. UNCHANGED <<root, full, part, job>>
  BY DEF disk
<1>2. Todo(p)' = Todo(p) /\ Coming(p)' = Coming(p)
  BY <1>1 DEF Todo, Coming, Writing
<1>3. WholeAt(p)'
  <2>1. WholeOf(Todo(p), job[p], Coming(p), root, full, part)
    BY WholeIs
  <2>2. WholeOf(Todo(p)', job'[p], Coming(p)', root', full', part')
    BY <1>1, <1>2, <2>1
  <2> QED BY <2>2, WholeNext
<1>4. PromiseAt(p)'
  <2>1. PromiseOf(job[p], Todo(p), Coming(p), full)
    BY PromiseIs
  <2>2. PromiseOf(job'[p], Todo(p)', Coming(p)', full')
    BY <1>1, <1>2, <2>1
  <2> QED BY <2>2, PromiseNext
<1> QED BY <1>3, <1>4

\* Until a command fails half-way, files stay whole and what is promised is kept.
LEMMA FlawlessNext ==
  ASSUME OneProcess, NamesApart, Types, Types', UniqueInv, FlawlessInv, [Next]_vars
  PROVE  FlawlessInv'
<1>1. CASE UNCHANGED <<disk, job, faults>>
  BY <1>1, FlawlessStill DEF FlawlessInv
<1>2. CASE UNCHANGED vars
  <2>1. UNCHANGED <<disk, job, faults>>
    BY <1>2 DEF vars, disk
  <2> QED BY <1>1, <2>1
<1>3. CASE Publish
  BY <1>1, <1>3, Types_Publish
<1>4. ASSUME NEW p \in Procs, Step(p) PROVE FlawlessInv'
  <2>1. CASE Abort(p)
    <3>1. faults \in Nat /\ faults' = faults + 1
      BY <2>1 DEF Types, CountsFit, Abort
    <3>2. faults' # 0
      BY <3>1
    <3> QED BY <3>2 DEF FlawlessInv
  <2>2. CASE /\ ~Abort(p)
             /\ faults' = 0
    <3>1. faults = 0
      BY <1>4, <2>2, Zenon DEF Step, BeginPull, BeginLoad, BeginIndexWrite, BeginDescriptorWrite, BeginPush, BeginClean,
           Begin, Clean, InitRoot, EditRoot, Truncate, WriteData, WriteBlob, CopyBlob, RemoveBlob, IndexWrite,
           Look, Fetch, Validate, Finish, Push, PushTag, PushManifest
    <3>2. WholeAt(p) /\ PromiseAt(p)
      BY <3>1 DEF FlawlessInv
    <3>3. WholeAt(p)'
      BY <1>4, <2>2, <3>2, WholeBegins, WholeCleans, WholeEdits, WholeWrites, WholeBlobs, WholeRemoves, WholeIndex,
         WholePulls, WholeReturns, WholePushes DEF Step
    <3>4. PromiseAt(p)'
      BY <1>4, <2>2, <3>2, PromiseBegins, PromiseCleans, PromiseEdits, PromiseWrites, PromiseBlobs, PromiseIndex,
         PromisePulls, PromisePushes DEF Step
    <3>5. \A q \in Procs : q = p
      BY DEF OneProcess
    <3> QED BY <3>3, <3>4, <3>5 DEF FlawlessInv
  <2>3. CASE faults' # 0
    BY <2>3 DEF FlawlessInv
  <2> QED BY <2>1, <2>2, <2>3
<1> QED BY <1>2, <1>3, <1>4 DEF Next

\* Until a command fails half-way, a pull that is offered an image for its architecture
\* succeeds: what the cache wrote for it is what Validate reads back.  The names of the
\* commands share no index blob, and one oskit works on the cache at a time.
THEOREM PullsSucceed ==
  ASSUME OneProcess, NamesApart
  PROVE  Spec => []PullSucceeds
<1> DEFINE Inv == Types /\ UniqueInv /\ FlawlessInv
<1>1. Init => Inv
  BY TypesInit, UniqueInit, FlawlessInit
<1>2. Inv /\ [Next]_vars => Inv'
  <2> SUFFICES ASSUME Inv, [Next]_vars PROVE Inv'
    OBVIOUS
  <2>1. Types'
    BY TypesStep
  <2>2. UniqueInv'
    BY UniqueStep
  <2> QED BY <2>1, <2>2, FlawlessNext
<1>3. Inv => PullSucceeds
  <2> SUFFICES ASSUME Inv, NEW p \in Procs, Pulled(p), faults = 0, Offers(job[p].got, job[p].arch),
                      job[p].got.kind = "index" =>
                        /\ OfKind(root.es, job[p].ref, "image") = {}
                        /\ \A i \in ToSet(job[p].got.dig) : PlatOf[i] # NoPlat
               PROVE  job[p].ok
    BY DEF PullSucceeds
  <2>1. Offered(job[p]) /\ Todo(p) = <<>>
    BY DEF Offered, Pulled
  <2>2. PromiseAt(p)
    BY DEF FlawlessInv
  <2> QED BY <2>1, <2>2 DEF PromiseAt
<1> QED BY <1>1, <1>2, <1>3, PTL DEF Spec
===============================================================================
