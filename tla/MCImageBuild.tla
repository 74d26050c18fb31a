---------------------------- MODULE MCImageBuild ----------------------------
(***************************************************************************)
(* Instances of oskit build for TLC.                                       *)
(***************************************************************************)
EXTENDS ImageBuildInv

\* The images, archives and files below leave the kernel's places alone.
ASSUME BootAssumption == BootIsOurs

\* They can be unpacked, and stay out of the containers' directories.
ASSUME TidyAssumption == AllTidy

Slash(name) == Append(name, "")
Link(name, target) == [Reg(name, None) EXCEPT !.type = "link", !.link = target]

\* Kernel images in which kernel, archive and microcode come in different orders.
K   == Reg(<<"kernel">>, <<"bzImage">>)
T   == Reg(<<"kernel.tar">>, <<"modules">>)
U   == Reg(<<"ucode">>, <<"intel">>)
Doc == Reg(<<"readme">>, <<"text">>)

MCTars ==
  ("ktu" :> <<K, T, U, Doc>>) @@ ("utk" :> <<U, Doc, T, K>>) @@ ("tk" :> <<T, K>>) @@ ("kk" :> <<K, K, T>>)
  @@ ("init" :> << Dir(Slash(<<"dev">>)), Reg(<<"dev", "console">>, <<"docker">>), Dir(Slash(<<"etc">>)),
                   Reg(ResolvConf, <<"docker">>), Reg(<<".dockerenv">>, <<"docker">>),
                   Dir(Slash(<<"bin">>)), Reg(<<"bin", "rc">>, <<"rc">>),
                   Link(<<"bin", "init">>, <<"bin", "rc">>) >>)
  @@ ("app" :> << Dir(Slash(<<"etc">>)), Reg(EtcHosts, <<"docker">>), Dir(Slash(<<"usr">>)),
                  Dir(Slash(<<"usr", "bin">>)), Reg(<<"usr", "bin", "app">>, <<"app">>),
                  Link(<<"app">>, <<"usr", "bin", "app">>) >>)
  @@ ("odd" :> <<Dir(Slash(<<"etc">>)), Symlink(EtcHosts, <<"elsewhere">>)>>)

MCKernelTar == (<<"modules">> :> <<Dir(<<"lib">>), Reg(<<"lib", "module">>, <<"module">>)>>)
MCUnzip == (<<"bzImage">> :> <<"vmlinux">>) @@ (<<"vmlinuz">> :> None)

Plain == [caps |-> Unset, capsAdd |-> Unset, ambient |-> Unset, tmpfs |-> Unset, binds |-> Unset,
          bindsAdd |-> Unset, mounts |-> Unset, readonly |-> Unset, net |-> Unset, ipc |-> Unset,
          uts |-> Unset, pid |-> Unset, user |-> Unset, uid |-> Unset, plain |-> Unset]
Shared == [Plain EXCEPT !.caps = <<(<<"CAP_CHOWN">>)>>]
MCLabels == [im \in DOMAIN MCTars |-> IF im = "app" THEN Shared ELSE Plain]

ReadOnly == [Plain EXCEPT !.readonly = <<TRUE>>, !.uid = <<"one">>]
Ambitious == [Plain EXCEPT !.ambient = <<(<<"CAP_KILL">>)>>, !.capsAdd = <<(<<"CAP_SYS_ADMIN">>)>>, !.net = <<"new">>,
                           !.mounts = <<(<<[dest |-> "", type |-> "", src |-> "mqueue"]>>)>>]
All == [Plain EXCEPT !.caps = <<(<<"all">>)>>]

C(name, image, yaml) == [name |-> name, image |-> image, yaml |-> yaml]
F(path, given) == [path |-> path, given |-> given, link |-> None, body |-> <<"text">>, optional |-> TRUE,
                   readable |-> FALSE, uid |-> Unset]

Base == [NoConfig EXCEPT !.kimage = <<"ktu">>, !.cmdline = <<"console">>, !.ucode = <<"ucode">>, !.init = <<"init">>]
One  == [NoConfig EXCEPT !.services = <<C("one", "app", ReadOnly), C("two", "app", Ambitious)>>,
                         !.files = <<F(<<"etc", "motd">>, {"contents"}), F(<<"", "etc", "x", "y">>, {"source"}),
                                     F(<<"var", "log">>, {"directory"})>>]
Two  == [NoConfig EXCEPT !.onboot = <<C("one", "app", Ambitious), C("one", "init", ReadOnly)>>,
                         !.onshutdown = <<C("one", "app", ReadOnly)>>,
                         !.services = <<C("one", "init", All)>>]
Other(k, bin) == [Base EXCEPT !.kimage = <<k>>, !.binary = bin, !.ucode = None]

MCConfigs ==
  { <<Base>>, <<Base, One>>, <<Base, Two>>, <<Base, One, Two>>, <<Base, [NoConfig EXCEPT !.kimage = <<"utk">>]>>,
    <<Other("tk", None)>>, <<Other("kk", None)>>, <<Other("tk", <<"vmlinuz">>)>>,
    <<[Other("tk", <<"kernel">>) EXCEPT !.tar = <<"none">>]>>,
    <<[NoConfig EXCEPT !.init = <<"init">>]>>, <<[NoConfig EXCEPT !.onboot = <<C("odd", "odd", Plain)>>]>>,
    <<[NoConfig EXCEPT !.files = <<F(<<"a">>, {"source", "contents"})>>]>> }

MCFormatLists == {<<"kernel+initrd", "aws">>, <<"kernel+squashfs", "qcow2-bios", "iso-bios">>, <<"docker">>}
===============================================================================
