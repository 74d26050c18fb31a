--------------------------- MODULE ImageBuildProps ---------------------------
(***************************************************************************)
(* What a build of oskit is to guarantee.                                  *)
(***************************************************************************)
EXTENDS ImageBuild

\* State of the right types: each thing to do is one that an action does.
TypeOK ==
  /\ status \in {"idle", "building", "done", "failed"}
  /\ \A i \in DOMAIN todo : todo[i].do \in {"image", "entry", "touch", "close", "container", "bundle",
                              "file", "addition", "format", "write", "mkimage", "create", "fill"}
  /\ \A i \in DOMAIN out : out[i].type \in HeaderOnly \cup {"reg"}
  /\ \A i \in DOMAIN out : out[i].type \in HeaderOnly => out[i].body = None
  /\ \A part \in DOMAIN mkimage : mkimage[part] \in {"none", "torn", "good"}
  /\ builds \in 0..MaxBuilds /\ faults \in 0..MaxFaults

Bare(name) == IF name # <<>> /\ Last(name) = "" THEN Front(name) ELSE name

\* A list of entries can be unpacked from front to back: the directory of every entry comes
\* before it.
Tree(es) ==
  \A i \in DOMAIN es :
    LET name == Bare(es[i].name) IN
    Len(name) > 1 => \E j \in 1..(i - 1) : es[j].type = "dir" /\ Bare(es[j].name) = Front(name)

\* So is the stream, whatever the order in which kernel, archive and microcode lie in the
\* kernel image and wherever an image has been unpacked before.
ParentsFirst == Tree(out)

\* Path in the initrd.
Has(name) == \E i \in DOMAIN split.initrd : Bare(split.initrd[i].name) = name

BodyOf(image, name) == IF name = None THEN None ELSE LastOf(Tars[image], name)

\* Once the stream has been split, the kernel is the one of the kernel image, unpacked when
\* that was asked for, with the configured command line and the image's microcode, and the
\* initrd has every file of the image's archive.
KernelSplit ==
  split # NoSplit /\ cfg.kimage # None =>
    LET image == cfg.kimage[1]
        kernel == BodyOf(image, KernelName(cfg))
        archive == BodyOf(image, TarName(cfg))
    IN /\ split.kernel = IF cfg.unzip THEN Unzip[kernel] ELSE kernel
       /\ split.cmdline = cfg.cmdline
       /\ split.ucode = BodyOf(image, cfg.ucode)
       /\ archive # None => \A i \in DOMAIN KernelTar[archive] : Has(Bare(KernelTar[archive][i].name))

\* A container's runtime.json names a root where its own image has been unpacked, and the
\* directories that it mounts on are in the stream.
BundleRoots ==
  \A path \in DOMAIN bundles, i \in DOMAIN out :
    out[i].name = Append(path, "runtime.json") =>
      LET entry(name) == \E j \in DOMAIN out : out[j].type = "dir" /\ Bare(out[j].name) = name
          c == CHOOSE x \in ToSet(BuildItems(cfg)) : x.do = "container" /\ x.path = path
      IN /\ entry(out[i].body) /\ dup[c.image] = out[i].body
         /\ entry(Append(path, "rootfs"))
         /\ ~bundles[path].readonly => entry(Append(path, "tmp"))

\* No two containers write to one place, also when files with services of one name are
\* merged, and neither does an image or a file: a container's configuration is written once.
PathsDistinct ==
  \A path \in DOMAIN bundles : \A i, j \in DOMAIN out :
    i # j /\ out[i].name = Append(path, "config.json") => out[j].name # out[i].name

\* Where a link leads from a directory.
Resolve(dir, link) ==
  LET to[n \in 0..Len(link)] ==
        IF n = 0 THEN dir
        ELSE IF link[n] = ".." THEN Front(to[n - 1]) ELSE Append(to[n - 1], link[n])
  IN to[Len(link)]

\* A hard link of an image is, in the initrd, a symbolic link to the file it was linked to.
LinksResolve ==
  split # NoSplit =>
    \A i \in DOMAIN out : out[i].type = "link" =>
      \E j \in DOMAIN split.initrd :
        /\ split.initrd[j].name = out[i].name
        /\ split.initrd[j].type = "symlink"
        /\ \A k \in DOMAIN split.initrd[j].link : split.initrd[j].link[k] = ".." => k < Len(out[i].name)
        /\ Resolve(Front(out[i].name), split.initrd[j].link) = out[i].link
        /\ Has(out[i].link)

FilesFor(o) == CASE o = "kernel+initrd" -> {"-kernel", "-initrd.cpio.gz", "-cmdline"}
                 [] o \in KernelFS -> {"-kernel", "-cmdline", Suffix[o]}
                 [] OTHER -> {Suffix[o]}

\* When a build succeeds, every file of the formats asked for is one that this build has
\* written, not one left by an earlier build.  A stream without a kernel or without a command
\* line leaves what is there of these, and is left out.
OutputsFresh ==
  status = "done" /\ formats[1] \notin Streamable /\ SplitTar.kernel # None /\ SplitTar.cmdline # None =>
    \A i \in DOMAIN formats : \A f \in FilesFor(formats[i]) : f \in DOMAIN disk /\ disk[f].build = builds

\* A disk image is made with a kernel and an initrd of the tool that were written to the end,
\* also after a build was killed while it wrote them.
MkimageUsable ==
  At("write") /\ Now.format \in NeedsMkimage => mkimage.kernel = "good" /\ mkimage.initrd = "good"
===============================================================================
