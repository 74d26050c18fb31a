------------------------------ MODULE OciCacheInv ------------------------------
(***************************************************************************)
(* The inductive invariants behind the properties of the image cache, in   *)
(* the order in which they rest on each other: the types and what belongs  *)
(* to which name hold of any processes; the others hold of one process at  *)
(* a time, which is what the code is written for.                          *)
(***************************************************************************)
EXTENDS OciCacheProps

\* One oskit works on the cache directory, names share no image, and an index has
\* at most one manifest for an architecture.
OneProcess == \A p, q \in Procs : p = q

ContentImages(c) == IF c.kind = "image" THEN {c.dig} ELSE ToSet(c.dig)
ImagesOf(n) == Loads[n] \cup UNION {ContentImages(c) : c \in Published[n]}
NamesApart  == \A m, n \in Names : m # n => ImagesOf(m) \cap ImagesOf(n) = {}

OneEach(s) ==
  \A i, j \in DOMAIN s :
    PlatOf[s[i]] # NoPlat /\ PlatOf[s[j]] # NoPlat /\ Key(s[i]) = Key(s[j]) => i = j
OneVariant == \A n \in Names : \A c \in Published[n] : c.kind = "index" => OneEach(c.dig)
------------------------------------------------------------------------------
Contents == [kind : {"image"}, dig : Images] \cup [kind : {"index"}, dig : Seq(Images)]
Listing  == [ref : Refs, kind : {"image"}, dig : Images]
              \cup [ref : Refs, kind : {"index"}, dig : Seq(Images)]
Blobs    == ({"manifest", "layers"} \X Images) \cup ({"index"} \X Seq(Images))
Plans    == [do : {"init", "look", "fetch", "validate", "return", "push", "manifest",
                   "clean", "trunc", "data"}]
              \cup [do : {"blob", "copy", "rm"}, d : Blobs]
              \cup [do : {"remove"}, ref : Refs]
              \cup [do : {"append", "replace"}, e : Listing]
              \cup [do : {"index"}, add : Seq(Images)]
              \cup [do : {"tag"}, i : Images, again : BOOLEAN]
Ops      == {"idle", "pull", "load", "index", "descriptor", "push", "clean"}
Jobs     == [op : Ops, ref : Refs \cup {<<>>}, arch : Arches \cup {Plain}, todo : Seq(Plans),
             buf : Seq(Listing), got : Contents \cup {Nothing}, ok : BOOLEAN]

OciType ==
  /\ root \in {NoRoot, Torn} \/ (root.es \in Seq(Listing) /\ root = Good(root.es))
  /\ \A d \in full \cup part : d \in Blobs
  /\ full \cap part = {}
  /\ remote \in [Refs -> Contents \cup {Nothing}]
  /\ job \in [Procs -> Jobs]
  /\ ops \in 0..MaxOps
  /\ faults \in 0..MaxFaults

\* The steps of each command.
DoneBy(op) ==
  CASE op = "pull" -> {"init", "look", "fetch", "index", "blob", "copy", "rm", "remove", "append",
                       "replace", "trunc", "data", "validate"}
    [] op = "load" -> {"init", "blob", "copy", "remove", "append", "trunc", "data", "return"}
    [] op = "index" -> {"init", "index", "blob", "copy", "rm", "remove", "append", "trunc", "data", "return"}
    [] op = "descriptor" -> {"init", "remove", "append", "trunc", "data", "return"}
    [] op = "push" -> {"init", "push", "tag", "manifest", "append", "trunc", "data"}
    [] op = "clean" -> {"clean"}
    [] op = "idle" -> {}

\* In a command at work on o.ref, what is written comes first, and in pairs; some
\* steps end a command.
Closing == {"fetch", "validate", "return", "push", "manifest", "clean"}
Ordered(o) ==
  LET t == o.todo IN
  /\ \A j \in DOMAIN t :
       /\ t[j].do \in DoneBy(o.op)
       /\ t[j].do \in {"init", "copy", "trunc"} => j = 1
       /\ t[j].do = "trunc" => Len(t) > 1 /\ t[2].do = "data"
       /\ t[j].do = "data" => j = 1 \/ (j = 2 /\ t[1].do = "trunc")
       /\ t[j].do \in Closing => j = Len(t)
  /\ o.op \in {"pull", "index", "descriptor", "push"} => \E n \in Names : o.ref = Ref(n)
  /\ o.op = "load" => o.ref \in Refs
  /\ o.op = "pull" => o.arch \in Arches
  /\ t # <<>> => ~o.ok

\* What is stored under a name is made of that name's images; only plain names
\* stand for an index.
Fits(s, n) == ToSet(s) \subseteq ImagesOf(n)
EntryFits(e) ==
  /\ e.kind = "image" => e.dig \in ImagesOf(e.ref[1])
  /\ e.kind = "index" => e.dig # <<>> /\ Fits(e.dig, e.ref[1]) /\ e.ref[2] = Plain
ContentFits(c, n) ==
  /\ c.kind = "image" => c.dig \in ImagesOf(n)
  /\ c.kind = "index" => Fits(c.dig, n)

StepFits(x, n) ==
  /\ x.do \in {"blob", "copy", "rm"} /\ x.d[1] = "index" => x.d[2] # <<>> /\ Fits(x.d[2], n)
  /\ x.do = "rm" => x.d[1] = "index"
  /\ x.do = "remove" => x.ref[1] = n
  /\ x.do \in {"append", "replace"} => x.e.ref[1] = n /\ EntryFits(x.e)
  /\ x.do = "index" => Fits(x.add, n)
  /\ x.do = "tag" => x.i \in ImagesOf(n) /\ PlatOf[x.i] # NoPlat

JobFits(o) ==
  /\ Ordered(o)
  /\ \A j \in DOMAIN o.buf : EntryFits(o.buf[j])
  /\ \A j \in DOMAIN o.todo : StepFits(o.todo[j], o.ref[1])
  /\ o.op = "pull" => ContentFits(o.got, o.ref[1])

OwnInv ==
  /\ \A j \in DOMAIN root.es : EntryFits(root.es[j])
  /\ \A r \in Refs :
       /\ ContentFits(remote[r], r[1])
       /\ r[2] # Plain /\ remote[r] # Nothing =>
            /\ remote[r].kind = "image"
            /\ PlatOf[remote[r].dig] # NoPlat /\ PlatOf[remote[r].dig].arch = r[2]
  /\ \A p \in Procs : JobFits(job[p])
------------------------------------------------------------------------------
\* The list of entries that index.json has, or is about to have.
Writing(p) == Todo(p) # <<>> /\ Todo(p)[1].do \in {"trunc", "data"}
Coming(p)  == IF Writing(p) THEN job[p].buf ELSE root.es

Unique(es) == \A n \in Names : \A i, j \in Named(es, Ref(n)) : i = j

\* An entry of a plain name is appended right after the old one has been removed.
Replaces(p, j) ==
  LET t == Todo(p) IN
  \/ j > 1 /\ t[j - 1].do = "remove" /\ t[j - 1].ref = t[j].e.ref
  \/ (\A i \in 1..(j - 1) : t[i].do \in {"trunc", "data"}) /\ Named(Coming(p), t[j].e.ref) = {}

UniqueInv ==
  /\ Unique(root.es)
  /\ \A p \in Procs :
       /\ Unique(Coming(p))
       /\ \A j \in DOMAIN Todo(p) :
            Todo(p)[j].do = "append" /\ Todo(p)[j].e.ref[2] = Plain => Replaces(p, j)

\* What is about to be written differs from what is there in the command's own name.
KeepsOthers(p) ==
  At(p, "trunc") =>
    \A r \in Refs : r[1] # job[p].ref[1] => FirstOf(job[p].buf, r) = FirstOf(root.es, r)
------------------------------------------------------------------------------
\* Indexes with at most one manifest for an architecture.
EachEntry(es) == \A j \in DOMAIN es : es[j].kind = "index" => OneEach(es[j].dig)
EachStep(t) ==
  \A j \in DOMAIN t :
    /\ t[j].do = "index" => OneEach(t[j].add)
    /\ t[j].do \in {"append", "replace"} /\ t[j].e.kind = "index" => OneEach(t[j].e.dig)
EachContent(c) == c.kind = "index" => OneEach(c.dig)

EachInv ==
  /\ EachEntry(root.es)
  /\ \A r \in Refs : EachContent(remote[r])
  /\ \A p \in Procs : EachContent(job[p].got) /\ EachEntry(job[p].buf) /\ EachStep(job[p].todo)

\* A pull of the index s of reference r is about to merge it, to append what it has merged,
\* or has done so.
Lists(es, r, s) == \E j \in Named(es, r) : es[j].kind = "index" /\ ToSet(s) \subseteq ToSet(es[j].dig)
Leading == {"rm", "blob", "copy", "remove", "trunc", "data"}
Rest    == {"blob", "copy", "validate"}

Merging(t, s) ==
  /\ t # <<>> /\ t[1].do = "index" /\ t[1].add = s
  /\ \A j \in DOMAIN t : j > 1 => t[j].do \in Rest
Appending(t, r, s, k) ==
  /\ t[k].do = "append" /\ t[k].e.ref = r /\ t[k].e.kind = "index"
  /\ ToSet(s) \subseteq ToSet(t[k].e.dig)
  /\ \A j \in DOMAIN t : (j < k => t[j].do \in Leading) /\ (j > k => t[j].do \in Rest)
Appended(t, es, r, s) ==
  /\ Lists(es, r, s)
  /\ \A j \in DOMAIN t : t[j].do \in Rest \cup {"trunc", "data"}

Pulling(p) ==
  LET t == Todo(p)
      r == job[p].ref
      s == job[p].got.dig
  IN \/ Merging(t, s)
     \/ \E k \in DOMAIN t : Appending(t, r, s, k)
     \/ Appended(t, Coming(p), r, s)
     \/ t = <<>> /\ ~job[p].ok

ListedInv ==
  \A p \in Procs : job[p].op = "pull" /\ job[p].got.kind = "index" => Pulling(p)
------------------------------------------------------------------------------
\* A push has published what it has passed, or will come to it.
Tagged(p, i)    == remote[Tag(job[p].ref[1], PlatOf[i].arch)] = ImageOf(i)
TagAhead(t, i)  == \E j \in DOMAIN t : t[j].do = "tag" /\ t[j].i = i
Manifested(t)   == \E j \in DOMAIN t : t[j].do = "manifest"

Covering(p) ==
  \A h \in Named(Coming(p), job[p].ref) :
    LET s == Coming(p)[h].dig IN
    Coming(p)[h].kind = "index" =>
      /\ \A i \in ToSet(s) : PlatOf[i] # NoPlat /\ Complete(i) => Tagged(p, i) \/ TagAhead(Todo(p), i)
      /\ \A i \in Images : TagAhead(Todo(p), i) => i \in ToSet(s)

PushedInv ==
  \A p \in Procs : job[p].op = "push" =>
    /\ \A j \in DOMAIN Todo(p) : Todo(p)[j].do = "append" => Todo(p)[j].e.kind = "image"
    /\ Manifested(Todo(p)) => Covering(p)
------------------------------------------------------------------------------
\* Before anything has failed: files are whole between steps, the index blob of an entry
\* is there or the entry about to be removed, and what is missing is still to be written.
Pending(t, d, k) == \E i \in 1..(k - 1) : t[i].do \in {"blob", "copy"} /\ t[i].d = d
Dropped(t, r)    == \E k \in DOMAIN t : t[k].do = "remove" /\ t[k].ref = r
Stored(es, t)    ==
  \A j \in DOMAIN es : es[j].kind = "index" => Index(es[j].dig) \in full \/ Dropped(t, es[j].ref)

\* An entry is removed early in a command, and the index blob of a name only together
\* with its entry; nothing that is planned with it follows a merge; an index is written
\* before its entry.
DropsEarly(t) ==
  \A k \in DOMAIN t : t[k].do = "remove" => \A j \in 1..(k - 1) : t[j].do \in Leading \cup {"init"}
DropsBoth(t, r) == \A j \in DOMAIN t : t[j].do = "rm" => j = 1 /\ Dropped(t, r)
MergesLast(t) ==
  \A j, k \in DOMAIN t : t[j].do = "index" /\ j < k => t[k].do \in Rest \cup {"return"}
Planned(t) ==
  \A k \in DOMAIN t : t[k].do \in {"append", "replace"} /\ t[k].e.kind = "index" =>
    \/ Pending(t, Index(t[k].e.dig), k)
    \/ Index(t[k].e.dig) \in full /\ t[1].do # "rm"

WholeAt(p) ==
  LET t == Todo(p) IN
  /\ \A d \in part : At(p, "copy") /\ t[1].d = d
  /\ root = Torn => At(p, "data")
  /\ t # <<>> /\ t[1].do \notin {"init", "trunc", "data", "clean"} => Readable
  /\ DropsEarly(t) /\ DropsBoth(t, job[p].ref) /\ MergesLast(t) /\ Planned(t)
  /\ job[p].op # "clean" \/ t = <<>> => Stored(Coming(p), t)

\* The images that the pull o writes; an index has one of them first for its architecture.
Pieces(o) == IF o.got.kind = "image" THEN {o.got.dig} ELSE ToSet(Wanted(o.got.dig, o.arch))
Serves(o, s) == LET at == ForArch(s, o.arch) IN at # {} /\ s[First(at)] \in Pieces(o)

Offered(o) ==
  /\ o.op = "pull" /\ o.got # Nothing
  /\ Offers(o.got, o.arch)
  /\ o.got.kind = "index" => \A i \in ToSet(o.got.dig) : PlatOf[i] # NoPlat

\* Such a pull replaces the entry of its name by an image, or merges an index, or appends
\* what it has merged, or has done so, before it writes and validates the images.
Replacing(o, t, k) ==
  /\ t[k] = Relist(Entry(o.ref, o.got)) /\ o.got.kind = "image"
  /\ \A j \in DOMAIN t : j # k => t[j].do \in Rest
Serving(o, t, k) ==
  /\ t[k].do = "append" /\ t[k].e.ref = o.ref /\ t[k].e.kind = "index" /\ Serves(o, t[k].e.dig)
  /\ \A j \in DOMAIN t : (j < k => t[j].do \in Leading) /\ (j > k => t[j].do \in Rest)
Served(o, t, es) ==
  /\ \E j \in Named(es, o.ref) :
       IF es[j].kind = "image" THEN o.got = ImageOf(es[j].dig) ELSE Serves(o, es[j].dig)
  /\ \A j \in DOMAIN t : t[j].do \in Rest \cup {"trunc", "data"}

Promises(o, t, es) ==
  \/ \E k \in DOMAIN t : Replacing(o, t, k)
  \/ o.got.kind = "index" /\ Merging(t, o.got.dig)
  \/ \E k \in DOMAIN t : Serving(o, t, k)
  \/ Served(o, t, es)

PromiseAt(p) ==
  LET o == job[p]
      t == Todo(p)
  IN Offered(o) =>
       IF t = <<>> THEN o.ok \/ (o.got.kind = "index" /\ OfKind(root.es, o.ref, "image") # {})
       ELSE /\ t[Len(t)].do = "validate"
            /\ \A i \in Pieces(o) : \A d \in {Manifest(i), Layers(i)} : d \in full \/ Pending(t, d, Len(t))
            /\ Promises(o, t, Coming(p))

FlawlessInv == faults = 0 => \A p \in Procs : WholeAt(p) /\ PromiseAt(p)
===============================================================================
