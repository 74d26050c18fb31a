----------------------------- MODULE OciCacheProps -----------------------------
(***************************************************************************)
(* What the image cache is to guarantee, and the mapping under which it    *)
(* implements NameStore.                                                   *)
(***************************************************************************)
EXTENDS OciCache

Digests == {Manifest(i) : i \in Images} \cup {Layers(i) : i \in Images}

\* State of the right types: index.json is absent, torn or a list of entries, and a
\* blob is not both complete and partial.
TypeOK ==
  /\ root.is \in {"none", "torn", "good"}
  /\ \A e \in ToSet(root.es) : e.ref \in Refs /\ e.kind \in {"image", "index"}
  /\ full \cap part = {}
  /\ \A d \in full \cup part : d \in Digests \/ (d[1] = "index" /\ ToSet(d[2]) \subseteq Images)
  /\ \A p \in Procs : job[p].ok \in BOOLEAN
  /\ ops \in 0..MaxOps
  /\ faults \in 0..MaxFaults

\* index.json never has two entries for one plain name, also after commands that failed
\* between RemoveDescriptors and AppendDescriptor and were run again.
NameUnique == Readable => \A n \in Names : \A i, j \in Named(root.es, Ref(n)) : i = j

\* A finished pull for which the registry had an answer.
Pulled(p) == job[p].op = "pull" /\ Todo(p) = <<>> /\ job[p].got # Nothing

Offers(c, a) == c.kind = "image" \/ ForArch(c.dig, a) # {}

\* As long as no command has failed half-way, a pull that gets an image for the wanted
\* architecture from the registry succeeds.  Two cases are left out, which IndexWrite
\* refuses: the name is an image here and an index there, or a manifest has no platform.
PullSucceeds ==
  \A p \in Procs :
    /\ Pulled(p)
    /\ faults = 0
    /\ Offers(job[p].got, job[p].arch)
    /\ job[p].got.kind = "index" =>
         /\ OfKind(root.es, job[p].ref, "image") = {}
         /\ \A i \in ToSet(job[p].got.dig) : PlatOf[i] # NoPlat
    => job[p].ok

\* A pull of an index leaves an index that lists every image of the one pulled.
PulledIsListed ==
  \A p \in Procs :
    LET here == FindRoot(job[p].ref) IN
    Pulled(p) /\ job[p].ok /\ job[p].got.kind = "index" /\ here.kind = "index"
      => ToSet(job[p].got.dig) \subseteq ToSet(here.dig)

\* When Push ends, the index in the registry lists every image of the local index that
\* is complete here, and what other machines have pushed for the other architectures.
PushCovers ==
  [][\A p \in Procs :
       At(p, "manifest") /\ job'[p].ok =>
         LET n    == job[p].ref[1]
             here == FindRoot(job[p].ref)
             there == ToSet(remote'[job[p].ref].dig)
         IN /\ here.kind = "index" =>
                 \A i \in ToSet(here.dig) : PlatOf[i] # NoPlat /\ Complete(i) => i \in there
            /\ \A a \in Arches :
                 remote[Tag(n, a)].kind = "image" => remote[Tag(n, a)].dig \in there]_vars

\* NameStore: what a reference stands for.  A command that has truncated index.json has
\* the new content in memory.
Entries == IF \E p \in Procs : At(p, "data")
           THEN job[CHOOSE p \in Procs : At(p, "data")].buf ELSE root.es
FirstOf(es, r) ==
  IF \E j \in DOMAIN es : es[j].ref = r
  THEN LET e == es[CHOOSE j \in DOMAIN es : es[j].ref = r /\ \A h \in 1..(j - 1) : es[h].ref # r]
       IN [kind |-> e.kind, dig |-> e.dig]
  ELSE Nothing

Target(r) ==
  LET es    == Entries
      first == FirstOf(es, r)
  IN IF first.kind = "index" /\ Index(first.dig) \notin full THEN Nothing ELSE first

Store == INSTANCE NameStore WITH
  target   <- [r \in Refs |-> Target(r)],
  busy     <- {job[p].ref[1] : p \in {q \in Procs : Todo(q) # <<>> /\ job[q].ref # <<>>}},
  cleaning <- \E p \in Procs : job[p].op = "clean"

\* The cache implements NameStore: no command on one name changes another.
ImplementsStore == Store!Spec
===============================================================================
