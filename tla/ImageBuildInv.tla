---------------------------- MODULE ImageBuildInv ----------------------------
(***************************************************************************)
(* The inductive invariants behind the properties of a build: the types of *)
(* the state; how far the three files of the mkimage tool are written for  *)
(* the outputs that still need them; which files of the formats asked for  *)
(* have been written; how far the kernel image has come on its way to the  *)
(* stream of the kernel and to the initrd; and which directories the items *)
(* that are left find in the stream, and which places are still theirs.    *)
(***************************************************************************)
EXTENDS ImageBuildProps

Kinds == {"image", "entry", "touch", "close", "container", "bundle", "file", "addition",
          "format", "write", "mkimage", "create", "fill"}

IsItem(t) ==
  /\ t.do \in Kinds
  /\ t.do \in {"image", "container"} => t.image \in DOMAIN Tars
  /\ t.do \in {"image", "entry"} => t.to \in {"kernel", "tar"}
  /\ t.do = "image" => IsList(t.prefix)
  /\ t.do = "entry" => IsEntry(t.e) /\ IsList(t.prefix)
  /\ t.do = "container" => IsList(t.path)
  /\ t.do = "bundle" => IsList(t.path) /\ IsList(t.root)
  /\ t.do = "file" => IsList(t.f.path) /\ t.f.path # <<>>
  /\ t.do \in {"create", "fill"} => t.part \in MkimageParts

IsFilter(k) ==
  /\ k \in [hdr : {NoHdr, Reg(<<"boot", "kernel">>, None)}, open : BOOLEAN, buf : {k.buf}, kernel : BOOLEAN,
            tar : BOOLEAN, ucode : BOOLEAN, out : {k.out}, failed : BOOLEAN]
  /\ IsArchive(k.out)

BuildType ==
  /\ status \in {"idle", "building", "done", "failed"}
  /\ IsList(todo) /\ \A i \in DOMAIN todo : IsItem(todo[i])
  /\ IsArchive(out)
  /\ IsFilter(kf)
  /\ \A image \in DOMAIN dup : IsList(dup[image])
  /\ mkimage \in [MkimageParts -> {"none", "torn", "good"}]
  /\ builds \in 0..MaxBuilds /\ faults \in 0..MaxFaults
------------------------------------------------------------------------------
\* The steps of writing the tool's files that are left stand at the head, after the first k.
Writing == {"create", "fill"}
Left(k) ==
  /\ Len(todo) >= 6 - k
  /\ \A i \in DOMAIN todo : todo[i].do \in Writing <=> i <= 6 - k
  /\ \A i \in 1..(6 - k) : todo[i] = WriteParts[k + i]

\* What these steps have written: each file is made and filled before the next is made.
Stage(k) ==
  /\ k \in 2..5 => mkimage["kernel"] = "good"
  /\ k \in 4..5 => mkimage["initrd"] = "good"
  /\ k \in 0..4 => mkimage["cmdline"] = "none"

\* An output that runs the tool.
Runs(t) ==
  \/ t.do = "format" /\ t.o \in NeedsMkimage
  \/ t.do = "write" /\ t.format \in NeedsMkimage

\* After this item the last of the three files exists.
Provides(t) == t.do = "mkimage" \/ (t.do = "create" /\ t.part = "cmdline")

ToolInv ==
  /\ \E k \in 0..6 : Left(k) /\ Stage(k)
  /\ mkimage["cmdline"] # "none" => mkimage["kernel"] = "good" /\ mkimage["initrd"] = "good"
  /\ mkimage["cmdline"] = "none" =>
       \A i \in DOMAIN todo : Runs(todo[i]) => \E j \in 1..(i - 1) : Provides(todo[j])

BuildInv == BuildType /\ ToolInv
------------------------------------------------------------------------------
\* The output formats and the files that they write come after all that makes the stream.
Outputs == {"format", "write"}
OutputsLast ==
  \A i, j \in DOMAIN todo : i < j /\ todo[i].do \in Outputs => todo[j].do \in Outputs

\* A format is still to be made; or each of its files is of this build, or to be written.
Pending(o) == \E i \in DOMAIN todo : todo[i].do = "format" /\ todo[i].o = o
Fresh(f)   == f \in DOMAIN disk /\ disk[f].build = builds
Writable(o) ==
  SplitTar.kernel # None /\ SplitTar.cmdline # None =>
    \A f \in FilesFor(o) : Fresh(f) \/ \E i \in DOMAIN todo : todo[i].do = "write" /\ todo[i].file = f

FreshInv ==
  /\ OutputsLast
  /\ status # "building" => todo = <<>>
  /\ status \in {"building", "done"} /\ formats[1] \notin Streamable =>
       \A k \in DOMAIN formats :
         \/ Pending(formats[k])
         \/ (\A i \in DOMAIN todo : todo[i].do \in Outputs) /\ Writable(formats[k])
------------------------------------------------------------------------------
\* Where the files of the kernel image end up; images, archives and configured files stay
\* clear of them.
KernelFile  == <<"boot", "kernel">>
CmdlineFile == <<"boot", "cmdline">>
UcodeFile   == <<"boot", "ucode.cpio">>
Clear(name) ==
  /\ IsList(name) /\ name # <<>>
  /\ name[1] = "boot" /\ Len(name) > 1 => name[2] \notin {"kernel", "cmdline", "ucode.cpio"}
PathOf(f) == IF f.path[1] = "" THEN Tail(f.path) ELSE f.path

\* The files looked for in a kernel image are not among those that ImageTar leaves out,
\* replaces or adds, and the microcode is a file of its own.
Own(name) == name \notin Exclude \cup Replace \cup {Touch[i].name : i \in DOMAIN Touch}
NamesApart(c) ==
  /\ Own(KernelName(c)) /\ Own(TarName(c)) /\ Own(c.ucode)
  /\ c.ucode # None => c.ucode \notin {KernelName(c), TarName(c)}

BootIsOurs ==
  /\ \A image \in DOMAIN Tars : \A i \in DOMAIN Tars[image] : Clear(Tars[image][i].name)
  /\ \A body \in DOMAIN KernelTar : \A i \in DOMAIN KernelTar[body] :
       Clear(KernelTar[body][i].name) /\ ~InBoot(KernelTar[body][i].name)
  /\ \A files \in Configs :
       /\ NamesApart(Merged(files))
       /\ \A i \in DOMAIN Merged(files).files : Clear(PathOf(Merged(files).files[i]))

\* The content of a file of the kernel image, as far as its first p entries go.
KernelImage == Tars[cfg.kimage[1]]
LastIn(es, p, name) ==
  LET at == {i \in DOMAIN es : i <= p /\ es[i].name = name}
  IN IF at = {} THEN None ELSE es[CHOOSE i \in at : \A j \in at : j <= i].body
Body(p, name) == IF name = None THEN None ELSE LastIn(KernelImage, p, name)

Ready(body) == IF cfg.unzip THEN Unzip[body] ELSE body
Unpacked(s, body) ==
  /\ body \in DOMAIN KernelTar
  /\ \A i \in DOMAIN KernelTar[body] : \E j \in DOMAIN s : s[j].name = KernelTar[body][i].name

\* What the filter and the stream behind it have of these entries.
Arrived(k, p) ==
  /\ ~k.failed
  /\ LastOf(k.out, UcodeFile) = Body(p, cfg.ucode)
  /\ k.kernel => LastOf(k.out, CmdlineFile) = cfg.cmdline
  /\ k.hdr # NoHdr => k.open /\ k.kernel /\ k.buf = Body(p, KernelName(cfg))
  /\ k.kernel /\ k.hdr = NoHdr => LastOf(k.out, KernelFile) = Ready(Body(p, KernelName(cfg)))
  /\ k.tar => TarName(cfg) # KernelName(cfg)
  /\ k.open /\ k.hdr = NoHdr => k.tar /\ k.buf = Body(p, TarName(cfg))
  /\ k.tar /\ (k.open => k.hdr # NoHdr) => Unpacked(k.out, Body(p, TarName(cfg)))

\* The stream behind the filter, once it is closed.
Whole ==
  LET n == Len(KernelImage) IN
  /\ LastOf(out, KernelFile) = Ready(Body(n, KernelName(cfg)))
  /\ LastOf(out, CmdlineFile) = cfg.cmdline
  /\ LastOf(out, UcodeFile) = Body(n, cfg.ucode)
  /\ TarName(cfg) # None => Unpacked(out, Body(n, TarName(cfg)))

\* An item that adds nothing to these files: it writes to the stream, below the containers'
\* directory or where an image or a file of the configuration may.
Prefixed(prefix) == IsList(prefix) /\ (prefix # None => prefix[1] = "containers")
Tame(t) ==
  /\ t.do \in Kinds \ {"close"}
  /\ t.do \notin Outputs => t.to = "tar"
  /\ t.do \in {"image", "entry", "touch"} => Prefixed(t.prefix)
  /\ t.do = "entry" => Clear(t.e.name)
  /\ t.do \in {"container", "bundle"} => Prefixed(t.path) /\ t.path # None
  /\ t.do = "file" => Clear(PathOf(t.f))

\* The kernel image is to be opened, after the tool's files have been seen to;
Tool == {"mkimage", "create", "fill"}
Starts(l, m) ==
  \A i \in DOMAIN l :
    /\ i < m     => l[i].do \in Tool
    /\ i = m     => l[i] = ImageTar(cfg.kimage[1], None, "kernel", None)
    /\ i = m + 1 => l[i] = Do("close")
    /\ i > m + 1 => Tame(l[i])
Unopened ==
  /\ out = <<>> /\ kf = Filter
  /\ \E m \in 1..(Len(todo) - 1) : Starts(todo, m)

\* its first p items have gone through the filter;
KernelItem(m) ==
  IF m <= Len(KernelImage)
  THEN [do |-> "entry", e |-> KernelImage[m], prefix |-> None, to |-> "kernel", resolv |-> None]
  ELSE IF m = Len(KernelImage) + 1
  THEN [do |-> "touch", prefix |-> None, to |-> "kernel", resolv |-> None]
  ELSE Do("close")
Within(p) ==
  LET left == Len(KernelImage) + 2 - p IN
  /\ left <= Len(todo)
  /\ \A i \in DOMAIN todo : IF i <= left THEN todo[i] = KernelItem(p + i) ELSE Tame(todo[i])
  /\ Arrived([kf EXCEPT !.out = out], p)

\* or the filter is closed.
Closed == (\A i \in DOMAIN todo : Tame(todo[i])) /\ Whole

SplitInv ==
  cfg.kimage # None =>
    /\ cfg.kimage[1] \in DOMAIN Tars /\ NamesApart(cfg)
    /\ status = "building" => Unopened \/ Closed \/ \E p \in 0..(Len(KernelImage) + 1) : Within(p)
    /\ KernelSplit
------------------------------------------------------------------------------
\* What the images, archives and configurations are: an image can itself be unpacked from
\* front to back and marks its directories by a slash, nothing of it lies among the
\* containers, and the directories of the containers have names of their own.
Named(name) == IsList(name) /\ Bare(name) # None /\ name[1] # "containers"
Tidy(e)     == Named(e.name) /\ (e.type = "dir" <=> Last(e.name) = "")
ImagesTidy ==
  /\ \A image \in DOMAIN Tars :
       Tree(Tars[image]) /\ \A i \in DOMAIN Tars[image] : Tidy(Tars[image][i])
  /\ \A body \in DOMAIN KernelTar :
       Tree(KernelTar[body]) /\ \A i \in DOMAIN KernelTar[body] : Named(KernelTar[body][i].name)

DirName(name) == name \notin {"", ".."}
DirNames(cs) ==
  \A i, j \in DOMAIN cs :
    /\ DirName(NumberedName(i, cs[i].name))
    /\ i # j => NumberedName(i, cs[i].name) # NumberedName(j, cs[j].name)

\* A file that is to be a directory is given as one.
FilesTidy(fs) ==
  \A i \in DOMAIN fs :
    LET path == PathOf(fs[i]) IN
    /\ Named(path) /\ \A k \in 1..(Len(path) - 1) : path[k] # ""
    /\ \A j \in DOMAIN fs : path \in ToSet(Leading(PathOf(fs[j]))) => "directory" \in fs[i].given

ConfigTidy(c) ==
  /\ DirNames(c.onboot) /\ DirNames(c.onshutdown)
  /\ \A i \in DOMAIN c.services : DirName(c.services[i].name)
  /\ FilesTidy(c.files)

AllTidy == ImagesTidy /\ \A files \in Configs : Merged(files).valid => ConfigTidy(Merged(files))

\* Where a container lies, and where an image is unpacked.
Spot(path) ==
  IsList(path) /\ Len(path) = 3 /\ path[1] = "containers" /\ \A k \in DOMAIN path : DirName(path[k])
Place(prefix) ==
  prefix # None => Spot(Front(prefix)) /\ Len(prefix) = 4 /\ prefix[4] \in {"rootfs", "lower"}

OfImage   == {"entry", "touch"}
Placing   == {"container", "bundle"}
Sound(t) ==
  /\ t.do \in OfImage \cup {"image"} => IsList(t.prefix) /\ Place(t.prefix) /\ t.to \in {"kernel", "tar"}
  /\ t.do \notin Outputs /\ t.to = "kernel" => t.do \in OfImage \cup {"image"} /\ t.prefix = None
  /\ t.do = "entry" => Tidy(t.e)
  /\ t.do \in Placing => Spot(t.path)
  /\ t.do = "bundle" => IsList(t.root) /\ Place(t.root) /\ t.root # None
  /\ t.do = "file" => t.f \in ToSet(cfg.files)

\* The entries of one image at a time come first, with what is touched there; and what is left
\* of a container whose image is being unpacked.
Orderly(t, u) ==
  /\ u.do \in OfImage => t.do = "entry" /\ t.prefix = u.prefix /\ t.to = u.to
  /\ u.do = "bundle" => t.do \in OfImage \cup {"image"}
Order == \A i, j \in DOMAIN todo : i < j => Orderly(todo[i], todo[j])

SoundInv ==
  /\ ConfigTidy(cfg)
  /\ \A i \in DOMAIN todo : Sound(todo[i])
  /\ \A image \in DOMAIN dup : Place(dup[image]) /\ dup[image] # None
  /\ Order
------------------------------------------------------------------------------
\* The directories of a list of entries, and the one that an entry needs.
DirsOf(es)  == {Bare(es[i].name) : i \in {j \in DOMAIN es : es[j].type = "dir"}}
Above(name) == IF Len(Bare(name)) > 1 THEN {Front(Bare(name))} ELSE {}

\* The directories in which an item puts something without making them, and those that it makes.
Needs(t) ==
  CASE t.do = "entry" /\ t.to = "tar" -> Above(t.prefix \o t.e.name)
    [] t.do = "touch" /\ t.to = "tar" -> {t.prefix} \ {None}
    [] t.do = "bundle" -> {t.path, t.root}
    [] OTHER -> {}
Makes(t) ==
  CASE t.do = "entry" /\ t.to = "tar" /\ t.e.type = "dir" -> {Bare(t.prefix \o t.e.name)}
    [] t.do = "image" /\ t.to = "tar" -> {SubSeq(t.prefix, 1, i) : i \in DOMAIN t.prefix}
    [] OTHER -> {}
Supplied ==
  \A i \in DOMAIN todo : \A d \in Needs(todo[i]) :
    d \in DirsOf(out) \/ \E j \in 1..(i - 1) : d \in Makes(todo[j])

\* The directories of the touched files that the current image had.
SeenMade ==
  \A i \in DOMAIN todo : todo[i].do \in OfImage /\ todo[i].to = "tar" =>
    \A key \in seen : Last(key) = "" => todo[i].prefix \o Front(key) \in DirsOf(out)

\* The filter makes the directory for what it lets through.
BootMade(k) ==
  /\ Tree(k.out)
  /\ k.kernel \/ k.ucode => <<"boot">> \in DirsOf(k.out)
  /\ k.hdr # NoHdr => k.kernel

\* What filesystem has put on the stream is a directory, or no file's directory.
AddedMade ==
  \A path \in added :
    path \in DirsOf(out) \/ \A i \in DOMAIN cfg.files : path \notin ToSet(Leading(PathOf(cfg.files[i])))

TreeInv ==
  /\ BootMade([kf EXCEPT !.out = out])
  /\ \A image \in DOMAIN dup : dup[image] \in DirsOf(out)
  /\ Supplied /\ SeenMade /\ AddedMade
------------------------------------------------------------------------------
\* The containers of a configuration lie apart, and so do those left to do.
Apart(l) ==
  \A i, j \in DOMAIN l : i # j /\ l[i].do \in Placing /\ l[j].do \in Placing => l[i].path # l[j].path

\* An item is for the container of the configuration that lies there.
From(t, c) == c.do = "container" /\ c.path = t.path /\ c.image = t.image

\* A container's files, which nothing else writes.
IsOwn(name)   == Len(name) = 4 /\ name[1] = "containers" /\ name[4] \in {"config.json", "runtime.json"}
Unwritten(path) == \A i \in DOMAIN out : IsOwn(out[i].name) => Front(out[i].name) # path

\* What a container's second half finds: its image where the first half said.
Awaits(t) ==
  /\ t.path \in DOMAIN bundles
  /\ t.found => t.image \in DOMAIN dup /\ t.root = dup[t.image]
  /\ ~t.found => t.image \notin DOMAIN dup /\ t.root = Append(t.path, IF bundles[t.path].readonly THEN "rootfs" ELSE "lower")

Pends(t) ==
  t.do \in Placing =>
    /\ \E c \in ToSet(BuildItems(cfg)) : From(t, c)
    /\ Unwritten(t.path)
    /\ t.do = "bundle" => Awaits(t)

\* What it leaves.
RootAt(path, root) ==
  /\ root \in DirsOf(out) /\ Append(path, "rootfs") \in DirsOf(out)
  /\ ~bundles[path].readonly => Append(path, "tmp") \in DirsOf(out)
  /\ \E c \in ToSet(BuildItems(cfg)) :
       c.do = "container" /\ c.path = path /\ c.image \in DOMAIN dup /\ dup[c.image] = root

BundleInv ==
  /\ Apart(BuildItems(cfg))
  /\ Apart(todo)
  /\ \A i \in DOMAIN todo : Pends(todo[i])
  /\ \A i, j \in DOMAIN out :
       i # j /\ IsOwn(out[i].name) /\ Last(out[i].name) = "config.json" => out[i].name # out[j].name
  /\ \A path \in DOMAIN bundles, i \in DOMAIN out :
       out[i].name = Append(path, "runtime.json") => RootAt(path, out[i].body)
  /\ \A path \in DOMAIN bundles : Spot(path)

AssemblyInv == SoundInv /\ TreeInv /\ BundleInv
===============================================================================
