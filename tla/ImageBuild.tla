------------------------------ MODULE ImageBuild ------------------------------
(***************************************************************************)
(* oskit build: a configuration becomes one tar stream, and the stream the *)
(* output formats.                                                         *)
(*                                                                         *)
(*   moby/build.go     Build, kernelFilter, outputImage, filesystem        *)
(*   moby/image.go     ImageTar, ImageBundle, tarPrefix                    *)
(*   moby/output.go    Formats          moby/linuxkit.go                   *)
(*   initrd/initrd.go  CopySplitTar, typeconv                              *)
(*                                                                         *)
(* A build is a list of things to do; what an item adds to the stream may  *)
(* put more items before the rest.  Each file of an image is an item, and  *)
(* so is each file that an output format writes.  An item may fail, which  *)
(* ends the build, and oskit may be killed.                                *)
(*                                                                         *)
(* A path is the sequence of its components; a trailing slash is an empty  *)
(* last component; a prefix is a directory.  A tar entry is its header and *)
(* the content that follows, which is a tuple of names; a dir, link or     *)
(* device has none.                                                        *)
(***************************************************************************)
EXTENDS OciConfig, Lists

CONSTANTS
  Configs,   \* configurations that may be built: sequences of files to be merged
  Tars,      \* [images -> the entries of the unpacked image]
  Labels,    \* [images -> the configuration in the image's label]
  KernelTar, \* [contents of kernel.tar files -> the entries of the archive]
  Unzip,     \* [kernels -> the decompressed kernel, or None]
  FormatLists, \* sequences of output formats that may be asked for
  MaxBuilds, \* bound: builds, one after the other
  MaxFaults  \* bound: failed items and killed builds

None == <<>>
Streamable == {"docker", "tar"}
IsList(s) == s \in Seq(ToSet(s))

HeaderOnly == {"dir", "symlink", "link", "char"}
Reg(name, body)     == [name |-> name, type |-> "reg", link |-> None, body |-> body, uid |-> 0]
Dir(name)           == [name |-> name, type |-> "dir", link |-> None, body |-> None, uid |-> 0]
Symlink(name, link) == [name |-> name, type |-> "symlink", link |-> link, body |-> None, uid |-> 0]
Char(name)          == [name |-> name, type |-> "char", link |-> None, body |-> None, uid |-> 0]

\* An entry that a tar reader returns: there is no content after some headers.
IsEntry(e) ==
  /\ e \in [name : {e.name}, type : HeaderOnly \cup {"reg"}, link : {e.link}, body : {e.body}, uid : {e.uid}]
  /\ e.type \in HeaderOnly => e.body = None
IsArchive(es) == IsList(es) /\ \A i \in DOMAIN es : IsEntry(es[i])

\* A configuration names images that can be fetched; its files have paths.
HasImages(cs) == IsList(cs) /\ \A i \in DOMAIN cs : cs[i].image \in DOMAIN Tars
IsConfig(c) ==
  /\ c \in [kimage : {c.kimage}, cmdline : {c.cmdline}, binary : {c.binary}, tar : {c.tar}, ucode : {c.ucode},
           unzip : {c.unzip}, init : {c.init}, onboot : {c.onboot}, onshutdown : {c.onshutdown},
           services : {c.services}, files : {c.files}, valid : {c.valid}]
  /\ c.kimage # None => c.kimage[1] \in DOMAIN Tars
  /\ IsList(c.init) /\ \A i \in DOMAIN c.init : c.init[i] \in DOMAIN Tars
  /\ HasImages(c.onboot) /\ HasImages(c.onshutdown) /\ HasImages(c.services)
  /\ IsList(c.files) /\ \A i \in DOMAIN c.files : IsList(c.files[i].path) /\ c.files[i].path # <<>>

ASSUME ArchivesAssumption ==
  /\ \A image \in DOMAIN Tars : IsArchive(Tars[image])
  /\ \A body \in DOMAIN KernelTar : IsArchive(KernelTar[body])
ASSUME ConfigsAssumption ==
  \A files \in Configs : IsList(files) /\ \A i \in DOMAIN files : IsConfig(files[i])
\* A format that is streamed is the only one.
ASSUME FormatsAssumption ==
  \A fs \in FormatLists :
    IsList(fs) /\ fs # <<>> /\ \A i \in DOMAIN fs : fs[i] \in Streamable => Len(fs) = 1
ASSUME BoundsAssumption  == MaxBuilds \in Nat /\ MaxFaults \in Nat

VARIABLES
  cfg,     \* the configuration being built
  formats, \* the output formats asked for
  todo,    \* items to do
  out,     \* the tar stream
  added,   \* addedFiles: what filesystem has put on the stream
  kf,      \* the kernel filter between the kernel image and the stream
  seen,    \* touchFound: which of the touched files the current image had
  dup,     \* dupMap: where an image has been unpacked
  bundles, \* what ConfigToOCI made of each container, by its path
  split,   \* kernel, initrd, cmdline and ucode, as CopySplitTar splits the stream
  disk,    \* files of the output formats: name, and what was written there by which format
  mkimage, \* the three files of the mkimage tool: "none", "torn" or "good"
  status,  \* "idle", "building", "done" or "failed"
  builds, faults

vars == <<cfg, formats, todo, out, added, kf, seen, dup, bundles, split, disk, mkimage, status, builds, faults>>

(***************************************************************************)
(* Files that every image gets                                             *)
(***************************************************************************)
EtcHosts   == <<"etc", "hosts">>
ResolvConf == <<"etc", "resolv.conf">>
Exclude == {<<".dockerenv">>, <<"Dockerfile">>, <<"dev", "console">>, <<"dev", "pts">>,
            <<"dev", "shm">>, <<"etc", "hostname">>}
Replace == {EtcHosts, ResolvConf}
Default(name) == <<"default">> \o name

\* touch, in the order in which its keys are sorted; a directory's key ends in a slash.
Touch ==
  << Dir(<<"dev">>), Char(<<"dev", "console">>), Dir(<<"dev", "pts">>), Dir(<<"dev", "shm">>),
     Dir(<<"etc">>), Reg(EtcHosts, None), Symlink(<<"etc", "mtab">>, <<"", "proc", "mounts">>),
     Reg(ResolvConf, None), Dir(<<"proc">>), Dir(<<"sys">>) >>
Key(e) == IF e.type = "dir" THEN Append(e.name, "") ELSE e.name
TouchKeys == {Key(Touch[i]) : i \in DOMAIN Touch}

(***************************************************************************)
(* The kernel filter                                                       *)
(***************************************************************************)
\* newKernelFilter: the names to look for.
KernelName(c) == IF c.binary = None THEN <<"kernel">> ELSE c.binary
TarName(c)    == CASE c.tar = None -> <<"kernel.tar">>
                   [] c.tar = <<"none">> -> None
                   [] OTHER -> c.tar

NoHdr  == Reg(None, None)
Filter == [hdr |-> NoHdr, open |-> FALSE, buf |-> None, kernel |-> FALSE, tar |-> FALSE,
           ucode |-> FALSE, out |-> <<>>, failed |-> FALSE]

\* Mutant: what is still buffered is dropped.
FinishTarDrops(k) == [k EXCEPT !.open = FALSE, !.hdr = NoHdr]

\* decompressKernel: nothing, if the kernel is not one that can be decompressed.
Unzipped(body) == IF body \in DOMAIN Unzip THEN Unzip[body] ELSE None

\* finishTar: the buffered kernel or archive goes to the stream.
FinishTar(k) ==
  CASE ~k.open -> k
    [] k.open /\ k.hdr # NoHdr ->
         IF cfg.unzip /\ Unzipped(k.buf) = None THEN [k EXCEPT !.failed = TRUE]
         ELSE [k EXCEPT !.out = Append(@, [k.hdr EXCEPT !.body = IF cfg.unzip THEN Unzipped(k.buf) ELSE k.buf]),
                        !.hdr = NoHdr, !.open = FALSE]
    [] k.open /\ k.hdr = NoHdr ->
         IF k.buf \notin DOMAIN KernelTar THEN [k EXCEPT !.failed = TRUE]
         ELSE [k EXCEPT !.out = @ \o KernelTar[k.buf], !.open = FALSE]

\* An entry of the kernel image: the header, and its content to buffer, stream or nowhere.
BootDir(k, there) == IF there THEN <<>> ELSE <<Dir(<<"boot">>)>>

KernelEntry(k0, e) ==
  LET k == FinishTar(k0) IN
  CASE k.failed -> k
    [] ~k.failed /\ e.name = KernelName(cfg) /\ k.kernel -> [k EXCEPT !.failed = TRUE]
    [] ~k.failed /\ e.name = KernelName(cfg) /\ ~k.kernel ->
         [k EXCEPT !.kernel = TRUE, !.open = TRUE, !.buf = e.body, !.hdr = Reg(<<"boot", "kernel">>, None),
                   !.out = @ \o BootDir(k, k.ucode) \o <<Reg(<<"boot", "cmdline">>, cfg.cmdline)>>]
    [] ~k.failed /\ e.name # KernelName(cfg) /\ e.name = TarName(cfg) ->
         [k EXCEPT !.tar = TRUE, !.open = TRUE, !.buf = e.body]
    [] ~k.failed /\ e.name # KernelName(cfg) /\ e.name # TarName(cfg) /\ e.name = cfg.ucode ->
         [k EXCEPT !.ucode = TRUE,
                   !.out = @ \o BootDir(k, k.kernel) \o <<Reg(<<"boot", "ucode.cpio">>, e.body)>>]
    [] OTHER -> k

Through(es) ==
  LET after[n \in 0..Len(es)] ==
        IF n = 0 THEN [kf EXCEPT !.out = out] ELSE KernelEntry(after[n - 1], es[n])
  IN after[Len(es)]

(***************************************************************************)
(* Items                                                                   *)
(***************************************************************************)
Do(what) == [do |-> what, to |-> "tar"]
At(what) == status = "building" /\ todo # <<>> /\ Head(todo).do = what
Now      == Head(todo)
Then(items) == todo' = items \o Tail(todo)

Fail == status' = "failed" /\ todo' = <<>>

\* The item adds entries to the stream, or to the kernel filter in front of it.
Emit(es, items) ==
  IF Now.to = "kernel"
  THEN LET k == Through(es) IN
       /\ kf' = [k EXCEPT !.out = <<>>]
       /\ out' = k.out
       /\ IF k.failed THEN Fail ELSE Then(items) /\ status' = status
  ELSE /\ out' = out \o es
       /\ Then(items)
       /\ UNCHANGED <<kf, status>>

(***************************************************************************)
(* ImageTar                                                                *)
(***************************************************************************)

\* Mutant: only the last directory of the prefix.
TarPrefixLast(prefix) ==
  IF prefix = None THEN <<>> ELSE <<Dir(prefix)>>

\* tarPrefix: the directories of a prefix.
TarPrefix(prefix) == [i \in DOMAIN prefix |-> Dir(SubSeq(prefix, 1, i))]

ImageTar(image, prefix, to, resolv) ==
  [do |-> "image", image |-> image, prefix |-> prefix, to |-> to, resolv |-> resolv]

OpenImage ==
  /\ At("image")
  /\ seen' = {}
  /\ Emit(TarPrefix(Now.prefix),
          [i \in DOMAIN Tars[Now.image] |->
             [do |-> "entry", e |-> Tars[Now.image][i], prefix |-> Now.prefix, to |-> Now.to, resolv |-> Now.resolv]]
            \o <<[do |-> "touch", prefix |-> Now.prefix, to |-> Now.to, resolv |-> Now.resolv]>>)
  /\ UNCHANGED <<cfg, formats, added, dup, bundles, split, disk, mkimage, builds, faults>>

\* Mutant: the error of the write is not looked at.
WriteFailsNever(e, to) == FALSE

\* Content after a header that has none: the tar writer says "write too long".
WriteFails(e, to) == e.type \in HeaderOnly /\ to = "tar"

\* One entry of the image: left out, replaced, or moved below the prefix.
ImageEntry ==
  /\ At("entry")
  /\ LET e     == Now.e
         moved == [e EXCEPT !.name = Now.prefix \o @,
                            !.link = IF e.type = "link" THEN Now.prefix \o @ ELSE @]
     IN CASE e.name \in Exclude -> Emit(<<>>, <<>>) /\ seen' = seen
          [] e.name \in Replace /\ e.name = ResolvConf /\ Now.resolv # None ->
               Emit(<<Symlink(moved.name, Now.resolv)>>, <<>>) /\ seen' = seen
          [] e.name \in Replace /\ (e.name # ResolvConf \/ Now.resolv = None) ->
               IF WriteFails(e, Now.to) THEN Fail /\ UNCHANGED <<out, kf, seen>>
               ELSE Emit(<<[moved EXCEPT !.body = Default(e.name)]>>, <<>>) /\ seen' = seen
          [] OTHER ->
               /\ Emit(<<moved>>, <<>>)
               /\ seen' = seen \cup ({e.name} \cap TouchKeys)
  /\ UNCHANGED <<cfg, formats, added, dup, bundles, split, disk, mkimage, builds, faults>>

\* A touched file, with oskit's content if it has one.
Made(e, resolv) ==
  CASE e.name = ResolvConf /\ resolv # None -> Symlink(e.name, resolv)
    [] e.name \in Replace /\ ~(e.name = ResolvConf /\ resolv # None) -> Reg(e.name, Default(e.name))
    [] OTHER -> e

\* The touched files that the image did not have.
Touched(prefix, resolv) ==
  LET missing == Matching(Touch, {e \in ToSet(Touch) : Key(e) \notin seen})
  IN [i \in DOMAIN missing |-> [Made(missing[i], resolv) EXCEPT !.name = prefix \o @]]

TouchFiles ==
  /\ At("touch")
  /\ Emit(Touched(Now.prefix, Now.resolv), <<>>)
  /\ UNCHANGED <<cfg, formats, added, seen, dup, bundles, split, disk, mkimage, builds, faults>>

\* kernelFilter.Close, which also wants the archive unless there is to be none.
CloseKernel ==
  /\ At("close")
  /\ LET k == FinishTar([kf EXCEPT !.out = out]) IN
     IF ~kf.kernel \/ (~kf.tar /\ TarName(cfg) # None) \/ k.failed
     THEN Fail /\ UNCHANGED out
     ELSE out' = k.out /\ Then(<<>>) /\ status' = status
  /\ kf' = Filter
  /\ UNCHANGED <<cfg, formats, added, seen, dup, bundles, split, disk, mkimage, builds, faults>>

(***************************************************************************)
(* Containers                                                              *)
(***************************************************************************)

\* idMap: the containers in order, from 100; of two with one name the last counts.
Containers(c) == c.onboot \o c.onshutdown \o c.services
Ids(c) ==
  LET cs == Containers(c)
      at(n) == CHOOSE i \in DOMAIN cs : cs[i].name = n /\ \A j \in DOMAIN cs : j > i => cs[j].name # n
  IN [n \in {cs[i].name : i \in DOMAIN cs} |-> 99 + at(n)]

Container(c, section, dir) ==
  [do |-> "container", to |-> "tar", image |-> c.image, yaml |-> c.yaml,
   path |-> <<"containers", section, dir>>]

\* Mutant: an image found elsewhere is taken to be below this container.
RootHere(path, image, readonly) == Append(path, IF readonly THEN "rootfs" ELSE "lower")

\* Where the container's root file system is, or will be unpacked.
RootOf(path, image, readonly) ==
  IF image \in DOMAIN dup THEN dup[image] ELSE Append(path, IF readonly THEN "rootfs" ELSE "lower")

\* outputImage, and the first half of ImageBundle: unpack the image unless it has been.
OutputImage ==
  /\ At("container")
  /\ LET spec  == ConfigToOCI(Labels[Now.image], Now.yaml, Ids(cfg))
         found == Now.image \in DOMAIN dup
         root  == RootOf(Now.path, Now.image, spec.readonly)
         item  == [do |-> "bundle", to |-> "tar", image |-> Now.image, path |-> Now.path,
                   found |-> found, root |-> root]
     IN IF ~spec.ok THEN Fail /\ UNCHANGED <<out, kf, bundles>>
        ELSE /\ bundles' = [path \in DOMAIN bundles \cup {Now.path} |->
                             IF path = Now.path THEN spec ELSE bundles[path]]
             /\ IF found THEN Emit(TarPrefix(Now.path), <<item>>)
                ELSE Emit(<<>>, <<ImageTar(Now.image, root, "tar", None), item>>)
  /\ UNCHANGED <<cfg, formats, added, seen, dup, split, disk, mkimage, builds, faults>>

\* The second half: config.json, mount points, and runtime.json that names the root.
ImageBundle ==
  /\ At("bundle")
  /\ LET in(f)    == Append(Now.path, f)
         readonly == bundles[Now.path].readonly
         points   == CASE ~readonly -> <<Dir(in("tmp")), Dir(in("rootfs"))>>
                       [] readonly /\ Now.found -> <<Dir(in("rootfs"))>>
                       [] OTHER -> <<>>
     IN Emit(<<Reg(in("config.json"), None)>> \o points \o <<Reg(in("runtime.json"), Now.root)>>, <<>>)
  /\ dup' = IF Now.found THEN dup
            ELSE [image \in DOMAIN dup \cup {Now.image} |-> IF image = Now.image THEN Now.root ELSE dup[image]]
  /\ UNCHANGED <<cfg, formats, added, seen, bundles, split, disk, mkimage, builds, faults>>

(***************************************************************************)
(* Files of the configuration                                              *)
(***************************************************************************)
Leading(path) == [i \in 1..(Len(path) - 1) |-> SubSeq(path, 1, i)]

\* What is wrong with a file that gives these fields: some exclude each other.
BadFile(given) ==
  IF given \cap {"directory", "symlink", "contents"} = {}
  THEN Cardinality(given \cap {"source", "metadata"}) # 1
  ELSE given \cap {"source", "metadata"} # {} \/ {"directory", "contents"} \subseteq given

AddFile ==
  /\ At("file")
  /\ LET f    == Now.f
         path == IF f.path[1] = "" THEN Tail(f.path) ELSE f.path
         dirs == Matching(Leading(path), ToSet(Leading(path)) \ added)
         uid  == IdNumeric(f.uid, Ids(cfg))
         file == CASE "directory" \in f.given -> Dir(path)
                   [] f.given \cap {"directory", "symlink"} = {"symlink"} -> Symlink(path, f.link)
                   [] OTHER -> Reg(path, f.body)
     IN IF BadFile(f.given) \/ uid = -1 THEN Fail /\ UNCHANGED <<out, kf, added>>
        ELSE IF f.optional /\ "source" \in f.given /\ ~f.readable
        THEN Emit(<<>>, <<>>) /\ added' = added
        ELSE IF "source" \in f.given /\ ~f.readable THEN Fail /\ UNCHANGED <<out, kf, added>>
        ELSE /\ Emit([i \in DOMAIN dirs |-> [Dir(dirs[i]) EXCEPT !.uid = uid]]
                       \o <<[file EXCEPT !.uid = uid]>>, <<>>)
             /\ added' = added \cup ToSet(dirs) \cup {path}
  /\ UNCHANGED <<cfg, formats, seen, dup, bundles, split, disk, mkimage, builds, faults>>

\* The Dockerfile of the docker output.
Addition ==
  /\ At("addition")
  /\ Emit(<<Reg(<<"Dockerfile">>, <<"dockerfile">>)>>, <<>>)
  /\ UNCHANGED <<cfg, formats, added, seen, dup, bundles, split, disk, mkimage, builds, faults>>

(***************************************************************************)
(* Output formats                                                          *)
(***************************************************************************)
NeedsMkimage == {"aws", "qcow2-bios"}
WholeTar  == {"iso-bios", "iso-efi", "rpi3"}
KernelFS  == {"kernel+squashfs", "kernel+iso"}
Suffix ==
  ("tar-kernel-initrd" :> "-initrd.tar") @@ ("iso-bios" :> ".iso") @@ ("iso-efi" :> "-efi.iso")
  @@ ("iso-efi-initrd" :> "-efi-initrd.iso") @@ ("raw-bios" :> "-bios.img") @@ ("raw-efi" :> "-efi.img")
  @@ ("aws" :> ".raw") @@ ("gcp" :> ".img.tar.gz") @@ ("qcow2-efi" :> "-efi.qcow2")
  @@ ("qcow2-bios" :> ".qcow2") @@ ("vhd" :> ".vhd") @@ ("dynamic-vhd" :> ".vhd") @@ ("vmdk" :> ".vmdk")
  @@ ("rpi3" :> ".tar") @@ ("kernel+squashfs" :> "-squashfs.img") @@ ("kernel+iso" :> ".iso")

\* Mutant: one step up too many, as if relative to the link itself.
RelToLink(dir, target) == [i \in 1..(Len(dir) + 1) |-> ".."] \o target

\* filepath.Rel of a hard link's target, from the directory of the link.
Rel(dir, target) ==
  LET shared == CHOOSE n \in 0..Len(dir) :
                  /\ n <= Len(target) /\ SubSeq(dir, 1, n) = SubSeq(target, 1, n)
                  /\ (n < Len(dir) /\ n < Len(target)) => dir[n + 1] # target[n + 1]
  IN [i \in 1..(Len(dir) - shared) |-> ".."] \o SubSeq(target, shared + 1, Len(target))

\* typeconv: cpio has no hard links here.
Converted(e) ==
  IF e.type = "link" THEN [e EXCEPT !.type = "symlink", !.link = Rel(Front(e.name), e.link)] ELSE e

InBoot(name) == Len(name) > 1 /\ name[1] = "boot"

NoSplit == [kernel |-> None, cmdline |-> None, ucode |-> None, initrd |-> <<>>]

\* The content of the last entry of a name.
LastOf(es, name) ==
  LET at == {i \in DOMAIN es : es[i].name = name}
  IN IF at = {} THEN None ELSE es[CHOOSE i \in at : \A j \in at : j <= i].body

\* CopySplitTar: the files it looks for, of which the last counts, and the rest but for boot.
LastBody(name) == LastOf(out, name)
Rest == Matching(out, {e \in ToSet(out) : ~InBoot(e.name)})

SplitTar ==
  [kernel  |-> LastBody(<<"boot", "kernel">>),
   cmdline |-> LastBody(<<"boot", "cmdline">>),
   ucode   |-> LastBody(<<"boot", "ucode.cpio">>),
   initrd  |-> [i \in DOMAIN Rest |-> Converted(Rest[i])]]

Write(file, format) == [do |-> "write", to |-> "tar", file |-> file, format |-> format]

\* outputKernelSquashFS and outputKernelISO write kernel and command line as they meet them.
WithKernel(o, s) ==
  (IF s.kernel # None THEN <<Write("-cmdline", o), Write("-kernel", o)>> ELSE <<>>)
    \o <<Write(Suffix[o], o)>>

\* Mutant: outputKernelInitrd writes the command line only beside microcode.
WritesNoCmdline(o, s) ==
  CASE o = "kernel+initrd" ->
         <<Write("-initrd.cpio.gz", o)>>
           \o (IF s.kernel # None THEN <<Write("-kernel", o)>> ELSE <<>>)
           \o (IF s.cmdline # None /\ s.ucode # None THEN <<Write("-cmdline", o)>> ELSE <<>>)
    [] o \in KernelFS -> WithKernel(o, s)
    [] OTHER -> <<Write(Suffix[o], o)>>

\* The files that a format writes, in order; outputKernelInitrd writes no empty parts.
Writes(o, s) ==
  CASE o = "kernel+initrd" ->
         <<Write("-initrd.cpio.gz", o)>>
           \o (IF s.kernel # None THEN <<Write("-kernel", o)>> ELSE <<>>)
           \o (IF s.cmdline # None THEN <<Write("-cmdline", o)>> ELSE <<>>)
    [] o \in KernelFS -> WithKernel(o, s)
    [] OTHER -> <<Write(Suffix[o], o)>>

OutputFormat ==
  /\ At("format")
  /\ split' = IF Now.o \in WholeTar THEN split ELSE SplitTar
  /\ Then(Writes(Now.o, SplitTar))
  /\ UNCHANGED <<cfg, formats, added, out, kf, seen, dup, bundles, disk, mkimage, status, builds, faults>>

WriteOutput ==
  /\ At("write")
  /\ disk' = [f \in DOMAIN disk \cup {Now.file} |->
                IF f = Now.file THEN [format |-> Now.format, build |-> builds] ELSE disk[f]]
  /\ Then(<<>>)
  /\ UNCHANGED <<cfg, formats, added, out, kf, seen, dup, bundles, split, mkimage, status, builds, faults>>

\* ensureLinuxkitImage: build the tool's image unless its three files exist, then write
\* them one after the other.
MkimageParts == {"kernel", "initrd", "cmdline"}
Create(part) == [do |-> "create", to |-> "tar", part |-> part]
Fill(part)   == [do |-> "fill", to |-> "tar", part |-> part]
WriteParts   == << Create("kernel"), Fill("kernel"), Create("initrd"), Fill("initrd"),
                   Create("cmdline"), Fill("cmdline") >>

\* Mutant: the first file stands for all three.
EnsureMkimageFirst ==
  /\ At("mkimage")
  /\ Then(IF mkimage["kernel"] # "none" THEN <<>> ELSE WriteParts)
  /\ UNCHANGED <<cfg, formats, added, out, kf, seen, dup, bundles, split, disk, mkimage, status, builds, faults>>

EnsureMkimage ==
  /\ At("mkimage")
  /\ Then(IF \A part \in MkimageParts : mkimage[part] # "none" THEN <<>> ELSE WriteParts)
  /\ UNCHANGED <<cfg, formats, added, out, kf, seen, dup, bundles, split, disk, mkimage, status, builds, faults>>

WriteMkimage ==
  /\ At("create") \/ At("fill")
  /\ mkimage' = [mkimage EXCEPT ![Now.part] = IF At("create") THEN "torn" ELSE "good"]
  /\ Then(<<>>)
  /\ UNCHANGED <<cfg, formats, added, out, kf, seen, dup, bundles, split, disk, status, builds, faults>>

(***************************************************************************)
(* A build                                                                 *)
(***************************************************************************)

\* uniqueServices.
UniqueServices(services) == \A i, j \in DOMAIN services : i # j => services[i].name # services[j].name

\* Mutant: the services of the second file are taken as they are.
AppendConfigUnchecked(c0, c1) ==
  [c0 EXCEPT !.services = @ \o c1.services, !.onboot = @ \o c1.onboot, !.files = @ \o c1.files]

\* AppendConfig: the second file's kernel counts, its lists are appended.
Later(v0, v1) == IF v1 # None THEN v1 ELSE v0

AppendConfig(c0, c1) ==
  LET services == c0.services \o c1.services IN
  [kimage |-> Later(c0.kimage, c1.kimage), cmdline |-> Later(c0.cmdline, c1.cmdline),
   binary |-> Later(c0.binary, c1.binary), tar |-> Later(c0.tar, c1.tar), ucode |-> Later(c0.ucode, c1.ucode),
   unzip |-> c0.unzip, init |-> c0.init \o c1.init, onboot |-> c0.onboot \o c1.onboot,
   onshutdown |-> c0.onshutdown \o c1.onshutdown, services |-> services, files |-> c0.files \o c1.files,
   valid |-> c0.valid /\ c1.valid /\ UniqueServices(services)]

NoConfig ==
  [kimage |-> None, cmdline |-> None, binary |-> None, tar |-> None, ucode |-> None, unzip |-> FALSE,
   init |-> <<>>, onboot |-> <<>>, onshutdown |-> <<>>, services |-> <<>>, files |-> <<>>, valid |-> TRUE]

NumberedName(i, name) == ToString(i - 1) \o "-" \o name
Numbered(cs, section) ==
  [i \in DOMAIN cs |-> Container(cs[i], section, NumberedName(i, cs[i].name))]

\* Build.
BuildItems(c) ==
  (IF c.kimage = None THEN <<>> ELSE <<ImageTar(c.kimage[1], None, "kernel", None), Do("close")>>)
  \o [i \in DOMAIN c.init |-> ImageTar(c.init[i], None, "tar", <<"", "run", "resolvconf", "resolv.conf">>)]
  \o Numbered(c.onboot, "onboot")
  \o Numbered(c.onshutdown, "onshutdown")
  \o [i \in DOMAIN c.services |-> Container(c.services[i], "services", c.services[i].name)]
  \o [i \in DOMAIN c.files |-> [do |-> "file", to |-> "tar", f |-> c.files[i]]]

\* ValidateFormats, which runs before the build and again before the formats.
Prerequisites(fs) ==
  [i \in DOMAIN Matching(fs, NeedsMkimage) |-> Do("mkimage")]

\* The formats that Formats makes; a streamable one has been written by then.
FormatItems(fs) ==
  LET made == Matching(fs, ToSet(fs) \ Streamable)
  IN [i \in DOMAIN made |-> [do |-> "format", to |-> "tar", o |-> made[i]]]

\* The files of a configuration, merged in order.
Merged(files) ==
  LET upTo[n \in 0..Len(files)] ==
        IF n = 0 THEN NoConfig ELSE AppendConfig(upTo[n - 1], files[n])
  IN upTo[Len(files)]

\* oskit build, and moby's Formats.
StartBuild ==
  /\ status # "building"
  /\ builds < MaxBuilds
  /\ \E files \in Configs, fs \in FormatLists, unzip \in BOOLEAN :
       LET c == Merged(files) IN
       /\ c.valid
       /\ cfg' = [c EXCEPT !.unzip = unzip]
       /\ formats' = fs
       /\ todo' = Prerequisites(fs) \o BuildItems(c)
                    \o (IF fs[1] = "docker" THEN <<Do("addition")>> ELSE <<>>)
                    \o Prerequisites(fs)
                    \o FormatItems(fs)
  /\ status' = "building"
  /\ builds' = builds + 1
  /\ out' = <<>> /\ added' = {} /\ kf' = Filter /\ seen' = {}
  /\ dup' = <<>> /\ bundles' = <<>> /\ split' = NoSplit
  /\ UNCHANGED <<disk, mkimage, faults>>

Finish ==
  /\ status = "building" /\ todo = <<>>
  /\ status' = "done"
  /\ UNCHANGED <<cfg, formats, todo, out, added, kf, seen, dup, bundles, split, disk, mkimage, builds, faults>>

\* An item fails, or oskit is killed.
Abort ==
  /\ status = "building"
  /\ faults < MaxFaults
  /\ faults' = faults + 1
  /\ Fail
  /\ UNCHANGED <<cfg, formats, out, added, kf, seen, dup, bundles, split, disk, mkimage, builds>>

Init ==
  /\ cfg = NoConfig /\ formats = <<>> /\ todo = <<>>
  /\ out = <<>> /\ added = {} /\ kf = Filter /\ seen = {}
  /\ dup = <<>> /\ bundles = <<>> /\ split = NoSplit
  /\ disk = <<>>
  /\ mkimage = [part \in MkimageParts |-> "none"]
  /\ status = "idle" /\ builds = 0 /\ faults = 0

Next ==
  \/ StartBuild \/ OpenImage \/ ImageEntry \/ TouchFiles \/ CloseKernel
  \/ OutputImage \/ ImageBundle \/ AddFile \/ Addition
  \/ OutputFormat \/ WriteOutput \/ EnsureMkimage \/ WriteMkimage
  \/ Finish \/ Abort

Spec == Init /\ [][Next]_vars
===============================================================================
