------------------------------- MODULE OciCache -------------------------------
(***************************************************************************)
(* The image cache of oskit: an OCI image layout in a directory, that is   *)
(* an index.json with one entry per image reference and a directory of     *)
(* blobs named by the hash of their content.                               *)
(*                                                                         *)
(*   cache/write.go   ImagePull, ImageLoad, IndexWrite, DescriptorWrite    *)
(*   cache/pull.go    ValidateImage           cache/push.go   Push         *)
(*   cache/find.go    matchPlatformsOSArch                                 *)
(*   cache/open.go    Get                     cache_clean.go  cacheClean   *)
(*                                                                         *)
(* A process works off a list of steps, each of which touches the disk or  *)
(* the registry once; a command decides its next steps from what it reads. *)
(* A step may fail and a process may be killed between any two steps: both *)
(* drop the rest of the list, since no caller cleans up after an error.    *)
(*                                                                         *)
(* An image stands for its manifest and for its layers and config; the     *)
(* platform of its descriptor is PlatOf.  An index is the sequence of the  *)
(* images it lists, and is its own hash.  Definitions commented as mutants *)
(* are changed copies of the definition that follows.                      *)
(***************************************************************************)
EXTENDS Lists, SequencesExt

CONSTANTS
  Procs,     \* oskit processes that share the cache directory
  Names,     \* image references
  Arches,    \* architectures
  Images,    \* single-architecture images
  PlatOf,    \* [Images -> platforms of their descriptors, or NoPlat]
  Published, \* [Names -> contents the registry may come to hold under the name]
  Loads,     \* [Names -> images that a build may hand to ImageLoad]
  Pushers,   \* names that are pushed
  MaxOps,    \* bound: commands that are run
  MaxFaults, \* bound: failing steps and killed processes
  NoPlat

\* The key by which IndexWrite tells manifests apart: OS, architecture and OS
\* version.  All images are for Linux, which has no OS version.
Key(i) == PlatOf[i].arch

\* References: a name, and for each architecture the name with a suffix.
Plain == "plain"
Tag(n, a) == <<n, a>>
Ref(n)    == <<n, Plain>>
Refs      == Names \X (Arches \cup {Plain})

ImageOf(i) == [kind |-> "image", dig |-> i]
IndexOf(s) == [kind |-> "index", dig |-> s]
Nothing    == [kind |-> "nothing", dig |-> NoPlat]

ASSUME PlatAssumption ==
  /\ \A i \in Images : PlatOf[i] = NoPlat \/ PlatOf[i].arch \in Arches
  /\ Plain \notin Arches
  /\ IsFiniteSet(Arches)

ASSUME InputAssumption ==
  /\ Published \in [Names -> SUBSET ([kind : {"image"}, dig : Images] \cup [kind : {"index"}, dig : Seq(Images)])]
  /\ Loads \in [Names -> SUBSET Images]
  /\ Pushers \subseteq Names
  /\ MaxOps \in Nat
  /\ MaxFaults \in Nat

\* index.json: absent, truncated, or with entries es.
NoRoot   == [is |-> "none", es |-> <<>>]
Torn     == [is |-> "torn", es |-> <<>>]
Good(es) == [is |-> "good", es |-> es]

\* Blobs: the manifest of an image, its layers and config, or an index.
Manifest(i) == <<"manifest", i>>
Layers(i)   == <<"layers", i>>
Index(s)    == <<"index", s>>

VARIABLES
  root,    \* index.json: "none" (no file), "torn" (truncated) or "good", and its entries
  full,    \* complete blobs
  part,    \* blobs that were created and not written to the end
  remote,  \* the registry: what it holds under each reference
  job,     \* per process: command, steps to do, the new index.json in memory
  ops,     \* commands begun so far
  faults   \* failures so far

disk == <<root, full, part>>
vars == <<disk, remote, job, ops, faults>>

Idle == [op |-> "idle", ref |-> <<>>, arch |-> Plain, todo |-> <<>>, buf |-> <<>>,
         got |-> Nothing, ok |-> FALSE]

Init ==
  /\ root = NoRoot
  /\ full = {}
  /\ part = {}
  /\ remote = [r \in Refs |-> Nothing]
  /\ job = [p \in Procs |-> Idle]
  /\ ops = 0
  /\ faults = 0

(***************************************************************************)
(* Reading the cache                                                       *)
(***************************************************************************)
Readable == root.is = "good"

\* Positions in a list of entries, and the first of some positions.
Named(es, r)     == {j \in DOMAIN es : es[j].ref = r}
OfKind(es, r, k) == {j \in Named(es, r) : es[j].kind = k}
First(at)        == CHOOSE j \in at : \A h \in at : j <= h

\* An index blob is read when it is looked up, an image's manifest only later.
Present(d) == d \in full \cup part
IndexesReadable(r) == \A j \in OfKind(root.es, r, "index") : Present(Index(root.es[j].dig))

\* FindRoot: the first image of that name, else its first index.
FindRoot(r) ==
  LET images  == OfKind(root.es, r, "image")
      indexes == OfKind(root.es, r, "index")
  IN IF ~Readable THEN Nothing
     ELSE IF images # {} THEN ImageOf(root.es[First(images)].dig)
     ELSE IF indexes # {} /\ IndexesReadable(r) THEN IndexOf(root.es[First(indexes)].dig)
     ELSE Nothing

\* matchPlatformsOSArch, over the manifests of an index.
ForArch(s, a) == {j \in DOMAIN s : PlatOf[s[j]] # NoPlat /\ PlatOf[s[j]].arch = a}

\* validate.Image: all its blobs are there and have the content they are named for.
Complete(i) == {Manifest(i), Layers(i)} \subseteq full

\* ValidateImage.
Valid(r, a) ==
  LET found == FindRoot(r) IN
  CASE found.kind = "image" -> Complete(found.dig)
    [] found.kind = "index" ->
         /\ Index(found.dig) \in full
         /\ ForArch(found.dig, a) # {}
         /\ Complete(found.dig[First(ForArch(found.dig, a))])
    [] OTHER -> FALSE

(***************************************************************************)
(* Steps                                                                   *)
(***************************************************************************)
Entry(r, c) == [ref |-> r, kind |-> c.kind, dig |-> c.dig]

\* Steps of the layout library.  WriteImage: layers and config first, then the manifest.
Blob(d)       == [do |-> "blob", d |-> d]
WriteImage(i) == <<Blob(Layers(i)), Blob(Manifest(i))>>
WriteImages(s) == [j \in 1..(2 * Len(s)) |-> WriteImage(s[(j + 1) \div 2])[2 - (j % 2)]]
Unlist(r)     == [do |-> "remove", ref |-> r]
AppendTo(e)   == [do |-> "append", e |-> e]
Relist(e)     == [do |-> "replace", e |-> e]
Do(what)      == [do |-> what]

Todo(p) == job[p].todo
At(p, what) == Todo(p) # <<>> /\ Head(Todo(p)).do = what
Now(p)  == Head(Todo(p))

\* The step is done; these come next, before the rest of the list.
Then(p, steps)  == job' = [job EXCEPT ![p].todo = steps \o Tail(@)]
Return(p, ok)   == job' = [job EXCEPT ![p].todo = <<>>, ![p].ok = ok]
Fail(p)         == Return(p, FALSE)

\* A command starts; NewProvider writes an empty index.json if there is none.
Begin(p, op, r, a, steps) ==
  /\ Todo(p) = <<>>
  /\ ops < MaxOps
  /\ ops' = ops + 1
  /\ job' = [job EXCEPT ![p] =
       [Idle EXCEPT !.op = op, !.ref = r, !.arch = a,
                    !.todo = IF root = NoRoot THEN <<Do("init")>> \o steps ELSE steps]]
  /\ UNCHANGED <<disk, remote, faults>>

BeginPull(p) ==
  \E n \in Names, a \in Arches, always \in BOOLEAN :
    Begin(p, "pull", Ref(n), a, IF always THEN <<Do("fetch")>> ELSE <<Do("look"), Do("fetch")>>)

\* The tar stream may carry the blobs in either order, and the index.json last or first.
BeginLoad(p) ==
  \E n \in Names : \E i \in Loads[n] : \E bs \in {WriteImage(i), Reverse(WriteImage(i))} :
    /\ PlatOf[i] # NoPlat
    /\ LET r == Tag(n, PlatOf[i].arch) IN
       Begin(p, "load", r, PlatOf[i].arch,
             bs \o <<Unlist(r), AppendTo(Entry(r, ImageOf(i))), Do("return")>>)

\* A build that has loaded an image lists it in the index of the plain name.
BeginIndexWrite(p) ==
  \E n \in Names : \E i \in Loads[n] :
    Begin(p, "index", Ref(n), Plain, <<[do |-> "index", add |-> <<i>>], Do("return")>>)

BeginDescriptorWrite(p) ==
  \E n \in Names : \E i \in Loads[n] :
    Begin(p, "descriptor", Ref(n), Plain,
          <<Unlist(Ref(n)), AppendTo(Entry(Ref(n), ImageOf(i))), Do("return")>>)

BeginPush(p) == \E n \in Pushers : Begin(p, "push", Ref(n), Plain, <<Do("push")>>)

\* os.RemoveAll: the files go one at a time, in no particular order.
BeginClean(p) ==
  /\ Todo(p) = <<>>
  /\ ops < MaxOps
  /\ ops' = ops + 1
  /\ job' = [job EXCEPT ![p] = [Idle EXCEPT !.op = "clean", !.todo = <<Do("clean")>>]]
  /\ UNCHANGED <<disk, remote, faults>>

Clean(p) ==
  /\ At(p, "clean")
  /\ \/ /\ root # NoRoot
        /\ root' = NoRoot
        /\ UNCHANGED <<full, part, job>>
     \/ \E d \in full \cup part :
          /\ full' = full \ {d}
          /\ part' = part \ {d}
          /\ UNCHANGED <<root, job>>
     \/ /\ root = NoRoot /\ full \cup part = {}
        /\ Return(p, TRUE)
        /\ UNCHANGED disk
  /\ UNCHANGED <<remote, ops, faults>>

(***************************************************************************)
(* index.json: read, changed in memory, truncated and written              *)
(***************************************************************************)
WriteRoot(p, new) ==
  job' = [job EXCEPT ![p].todo = <<Do("trunc"), Do("data")>> \o Tail(@), ![p].buf = new]

\* layout.Write of an empty index.
InitRoot(p) ==
  /\ At(p, "init")
  /\ WriteRoot(p, <<>>)
  /\ UNCHANGED <<disk, remote, ops, faults>>

\* Mutant: every suffixed reference matches every plain one.
WithoutRefSuffix(r) == Matching(root.es, {e \in ToSet(root.es) : e.ref[2] # r[2]})

WithoutRef(r) == Matching(root.es, {e \in ToSet(root.es) : e.ref # r})

\* Mutant: replacing an entry only adds the new one.
EditRootAdds(p) ==
  /\ At(p, "remove") \/ At(p, "append") \/ At(p, "replace")
  /\ IF ~Readable THEN Fail(p)
     ELSE WriteRoot(p, IF At(p, "remove") THEN WithoutRef(Now(p).ref) ELSE Append(root.es, Now(p).e))
  /\ UNCHANGED <<disk, remote, ops, faults>>

\* RemoveDescriptors, AppendDescriptor and replaceDescriptor.
EditRoot(p) ==
  /\ At(p, "remove") \/ At(p, "append") \/ At(p, "replace")
  /\ IF ~Readable THEN Fail(p)
     ELSE WriteRoot(p, CASE At(p, "remove")  -> WithoutRef(Now(p).ref)
                         [] At(p, "append")  -> Append(root.es, Now(p).e)
                         [] At(p, "replace") -> Append(WithoutRef(Now(p).e.ref), Now(p).e))
  /\ UNCHANGED <<disk, remote, ops, faults>>

Truncate(p) ==
  /\ At(p, "trunc")
  /\ root' = Torn
  /\ Then(p, <<>>)
  /\ UNCHANGED <<full, part, remote, ops, faults>>

WriteData(p) ==
  /\ At(p, "data")
  /\ root' = Good(job[p].buf)
  /\ Then(p, <<>>)
  /\ UNCHANGED <<full, part, remote, ops, faults>>

(***************************************************************************)
(* Blobs                                                                   *)
(***************************************************************************)

\* Mutant: a blob is created again although it is there.
WriteBlobAgain(p) ==
  /\ At(p, "blob")
  /\ part' = part \cup {Now(p).d}
  /\ Then(p, <<[do |-> "copy", d |-> Now(p).d]>>)
  /\ UNCHANGED <<root, full, remote, ops, faults>>

\* WriteBlob: a file that exists is taken to be complete.
WriteBlob(p) ==
  /\ At(p, "blob")
  /\ LET d == Now(p).d IN
     IF Present(d)
     THEN Then(p, <<>>) /\ UNCHANGED disk
     ELSE /\ part' = part \cup {d}
          /\ Then(p, <<[do |-> "copy", d |-> d]>>)
          /\ UNCHANGED <<root, full>>
  /\ UNCHANGED <<remote, ops, faults>>

CopyBlob(p) ==
  /\ At(p, "copy")
  /\ part' = part \ {Now(p).d}
  /\ full' = full \cup {Now(p).d}
  /\ Then(p, <<>>)
  /\ UNCHANGED <<root, remote, ops, faults>>

RemoveBlob(p) ==
  /\ At(p, "rm")
  /\ part' = part \ {Now(p).d}
  /\ full' = full \ {Now(p).d}
  /\ Then(p, <<>>)
  /\ UNCHANGED <<root, remote, ops, faults>>

(***************************************************************************)
(* IndexWrite                                                              *)
(***************************************************************************)

\* descReplace: for each key the last of the new images.
NewFor(add, k) ==
  add[CHOOSE j \in DOMAIN add : Key(add[j]) = k /\ \A h \in DOMAIN add : h > j => Key(add[h]) # k]
Keys(add)      == {Key(i) : i \in ToSet(add)}

\* The old manifests, the first of each key in add replaced.
Replaced(old, add) ==
  [j \in DOMAIN old |->
     IF /\ PlatOf[old[j]] # NoPlat
        /\ Key(old[j]) \in Keys(add)
        /\ \A h \in 1..(j - 1) : PlatOf[old[h]] # NoPlat => Key(old[h]) # Key(old[j])
     THEN NewFor(add, Key(old[j])) ELSE old[j]]

\* Keys that the old index did not have; a Go map yields them in any order.
Left(old, add) == {k \in Keys(add) : \A i \in ToSet(old) : PlatOf[i] = NoPlat \/ Key(i) # k}
Merged(old, add) ==
  {Replaced(old, add) \o [j \in DOMAIN ks |-> NewFor(add, ks[j])] : ks \in SetToSeqs(Left(old, add))}

\* Writes the new index, then its entry in index.json.
PutIndex(r, s) ==
  <<Blob(Index(s)), Unlist(r), AppendTo(Entry(r, IndexOf(s)))>>

\* Mutant: an entry that exists is left as it is.
IndexWriteKeepsEntry(p) ==
  /\ At(p, "index")
  /\ LET r == job[p].ref
         add == Now(p).add
     IN IF \/ ~Readable
           \/ OfKind(root.es, r, "image") # {}
           \/ ~IndexesReadable(r)
        THEN Fail(p)
        ELSE IF OfKind(root.es, r, "index") = {} THEN Then(p, PutIndex(r, add))
        ELSE Then(p, <<>>)
  /\ UNCHANGED <<disk, remote, ops, faults>>

\* Mutant: the old index blob is removed last; it may be the new one.
IndexWriteRemovesLast(p) ==
  /\ At(p, "index")
  /\ LET r == job[p].ref
         add == Now(p).add
         old == root.es[First(OfKind(root.es, r, "index"))].dig
     IN IF ~Readable \/ OfKind(root.es, r, "image") # {} \/ ~IndexesReadable(r) THEN Fail(p)
        ELSE IF OfKind(root.es, r, "index") = {} THEN Then(p, PutIndex(r, add))
        ELSE IF Index(old) \notin full \/ \E i \in ToSet(add) : PlatOf[i] = NoPlat THEN Fail(p)
        ELSE \E new \in Merged(old, add) : Then(p, PutIndex(r, new) \o <<[do |-> "rm", d |-> Index(old)]>>)
  /\ UNCHANGED <<disk, remote, ops, faults>>

IndexWrite(p) ==
  /\ At(p, "index")
  /\ LET r == job[p].ref
         add == Now(p).add
     IN IF \/ add = <<>>
           \/ ~Readable
           \/ OfKind(root.es, r, "image") # {}
           \/ ~IndexesReadable(r)
        THEN Fail(p)
        ELSE IF OfKind(root.es, r, "index") = {} THEN Then(p, PutIndex(r, add))
        ELSE LET old == root.es[First(OfKind(root.es, r, "index"))].dig IN
             \* a descriptor without a platform is a nil dereference here
             IF Index(old) \notin full \/ \E i \in ToSet(add) : PlatOf[i] = NoPlat
             THEN Fail(p)
             ELSE \E new \in Merged(old, add) :
                    Then(p, <<[do |-> "rm", d |-> Index(old)]>> \o PutIndex(r, new))
  /\ UNCHANGED <<disk, remote, ops, faults>>

(***************************************************************************)
(* ImagePull                                                               *)
(***************************************************************************)

\* Unless the pull is forced: is it there, for this architecture, and complete?
Look(p) ==
  /\ At(p, "look")
  /\ IF Valid(job[p].ref, job[p].arch) THEN Return(p, TRUE) ELSE Then(p, <<>>)
  /\ UNCHANGED <<disk, remote, ops, faults>>

\* The images of an index that a pull for architecture a writes.
Wanted(s, a) == Matching(s, {i \in Images : PlatOf[i] = NoPlat \/ PlatOf[i].arch = a})

\* remote.Get; an index is listed before its images are written.
Fetch(p) ==
  /\ At(p, "fetch")
  /\ LET c == remote[job[p].ref]
         steps == CASE c.kind = "index" ->
                         <<[do |-> "index", add |-> c.dig]>> \o WriteImages(Wanted(c.dig, job[p].arch))
                    [] c.kind = "image" ->
                         WriteImage(c.dig) \o <<Relist(Entry(job[p].ref, c))>>
                    [] OTHER -> <<>>
     IN IF c.kind = "nothing" THEN Fail(p)
        ELSE job' = [job EXCEPT ![p].todo = steps \o <<Do("validate")>> \o Tail(@), ![p].got = c]
  /\ UNCHANGED <<disk, remote, ops, faults>>

Validate(p) ==
  /\ At(p, "validate")
  /\ Return(p, Valid(job[p].ref, job[p].arch))
  /\ UNCHANGED <<disk, remote, ops, faults>>

Finish(p) ==
  /\ At(p, "return")
  /\ Return(p, TRUE)
  /\ UNCHANGED <<disk, remote, ops, faults>>

(***************************************************************************)
(* Push                                                                    *)
(***************************************************************************)
Put(r, c) == remote' = [remote EXCEPT ![r] = c]

\* Mutant: only the first architecture of an index follows it.
PushFirst(p) ==
  /\ At(p, "push")
  /\ LET r == job[p].ref
         found == FindRoot(r)
     IN CASE found.kind = "nothing" -> Fail(p) /\ UNCHANGED remote
          [] found.kind = "index" /\ Index(found.dig) \notin full -> Fail(p) /\ UNCHANGED remote
          [] remote[r] = found -> Return(p, TRUE) /\ UNCHANGED remote
          [] OTHER ->
               /\ Put(r, found)
               /\ Then(p, (IF found.kind = "image" THEN <<>>
                           ELSE <<[do |-> "tag", i |-> found.dig[1], again |-> FALSE]>>) \o <<Do("manifest")>>)
  /\ UNCHANGED <<disk, ops, faults>>

\* The image or index goes to the registry, unless it is there; for an index its
\* architectures follow one by one.
Push(p) ==
  /\ At(p, "push")
  /\ LET r == job[p].ref
         found == FindRoot(r)
     IN CASE found.kind = "nothing" -> Fail(p) /\ UNCHANGED remote
          [] found.kind = "index" /\ Index(found.dig) \notin full -> Fail(p) /\ UNCHANGED remote
          [] remote[r] = found -> Return(p, TRUE) /\ UNCHANGED remote
          [] OTHER ->
               /\ Put(r, found)
               /\ LET ms == IF found.kind = "image" THEN <<>>
                            ELSE Matching(found.dig, {i \in Images : PlatOf[i] # NoPlat})
                  IN Then(p, [j \in DOMAIN ms |-> [do |-> "tag", i |-> ms[j], again |-> FALSE]]
                               \o <<Do("manifest")>>)
  /\ UNCHANGED <<disk, ops, faults>>

\* Path.Image looks for an image with that digest among the entries of index.json.
Listed(i) == Readable /\ \E e \in ToSet(root.es) : e.kind = "image" /\ e.dig = i

\* One architecture: an image that index.json does not list gets an entry of its
\* own; an image that is not complete here is skipped.
PushTag(p) ==
  /\ At(p, "tag")
  /\ LET i == Now(p).i
         t == Tag(job[p].ref[1], PlatOf[i].arch)
     IN CASE ~Listed(i) /\ Now(p).again -> Fail(p) /\ UNCHANGED remote
          [] ~Listed(i) ->
               /\ Then(p, <<AppendTo(Entry(t, ImageOf(i))), [Now(p) EXCEPT !.again = TRUE]>>)
               /\ UNCHANGED remote
          [] Listed(i) /\ ~Complete(i) -> Then(p, <<>>) /\ UNCHANGED remote
          [] OTHER -> Then(p, <<>>) /\ Put(t, ImageOf(i))
  /\ UNCHANGED <<disk, ops, faults>>

\* PushManifest: the name becomes the index of all architectures that the registry
\* has a tag for; platformsToSearchForIndex is a fixed order of Arches.
TaggedIn(n) ==
  LET as == SetToSeq({a \in Arches : remote[Tag(n, a)].kind = "image"})
  IN [j \in DOMAIN as |-> remote[Tag(n, as[j])].dig]

PushManifest(p) ==
  /\ At(p, "manifest")
  /\ LET s == TaggedIn(job[p].ref[1]) IN
     IF s = <<>> THEN Fail(p) /\ UNCHANGED remote
     ELSE Put(job[p].ref, IndexOf(s)) /\ Return(p, TRUE)
  /\ UNCHANGED <<disk, ops, faults>>

(***************************************************************************)
(* Environment                                                             *)
(***************************************************************************)

\* Somebody else publishes to the registry.
Publish ==
  /\ \E n \in Names : \E c \in Published[n] : c # remote[Ref(n)] /\ Put(Ref(n), c)
  /\ UNCHANGED <<disk, job, ops, faults>>

\* A step fails, or the process is killed.
Abort(p) ==
  /\ Todo(p) # <<>>
  /\ faults < MaxFaults
  /\ faults' = faults + 1
  /\ Fail(p)
  /\ UNCHANGED <<disk, remote, ops>>

Step(p) ==
  \/ BeginPull(p) \/ BeginLoad(p) \/ BeginIndexWrite(p) \/ BeginDescriptorWrite(p)
  \/ BeginPush(p) \/ BeginClean(p) \/ Clean(p)
  \/ InitRoot(p) \/ EditRoot(p) \/ Truncate(p) \/ WriteData(p)
  \/ WriteBlob(p) \/ CopyBlob(p) \/ RemoveBlob(p)
  \/ IndexWrite(p) \/ Look(p) \/ Fetch(p) \/ Validate(p) \/ Finish(p)
  \/ Push(p) \/ PushTag(p) \/ PushManifest(p)
  \/ Abort(p)

Next == Publish \/ \E p \in Procs : Step(p)

Spec == Init /\ [][Next]_vars
===============================================================================
