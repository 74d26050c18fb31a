------------------------------ MODULE OciConfig ------------------------------
(***************************************************************************)
(* How oskit turns a container of its configuration into an OCI spec:      *)
(* ConfigToOCI of moby/config.go.  Options come from the YAML file, from a *)
(* label of the image and from the image itself, in this order.            *)
(*                                                                         *)
(* An option is <<>> when it is not set and <<v>> when it is v.  The       *)
(* record of a configuration has the options whose treatment differs; the  *)
(* many that are only copied (env, hostname, sysctl and so on) are one,    *)
(* "plain".  Mount options, rlimits and the parsing of "src:dest:options"  *)
(* are left out: binds and tmpfs are given parsed.                         *)
(***************************************************************************)
EXTENDS Integers, Sequences, SequencesExt, FiniteSets

CONSTANTS
  AllCaps  \* the capabilities that allCaps lists

Unset == <<>>

\* The assign functions: the first option that is set, else the default.
FirstOf(opts) ==
  LET set == SelectSeq(opts, LAMBDA o : o # Unset)
  IN IF set = <<>> THEN Unset ELSE set[1]
FirstSet(opts, default) == IF FirstOf(opts) = Unset THEN default ELSE FirstOf(opts)[1]

\* mergeStrings: one list after the other.
Merge(o1, o2) ==
  CASE o1 = Unset /\ o2 = Unset -> <<(<<>>)>>
    [] o2 = Unset -> o1
    [] o1 = Unset -> o2
    [] OTHER -> <<o1[1] \o o2[1]>>

\* idNumeric: nothing and "root" are 0, names are looked up; -1 is an error.
IdNumeric(opt, ids) ==
  CASE opt \in {Unset, <<"root">>} -> 0
    [] opt \notin {Unset, <<"root">>} /\ opt[1] \in DOMAIN ids -> ids[opt[1]]
    [] OTHER -> -1

\* A list that is only "none" or "all".
CapList(caps, all) ==
  CASE caps = <<"none">> -> <<>>
    [] caps = <<"all">>  -> all
    [] OTHER -> caps

Effective(label, yaml) ==
  CapList(FirstSet(<<yaml.caps, Merge(label.caps, yaml.capsAdd)>>, <<>>), SetToSeq(AllCaps))
Ambient(label, yaml) ==
  CapList(FirstSet(<<yaml.ambient, label.ambient>>, <<>>), SetToSeq(AllCaps))

\* boundingSet, which is also what the container inherits and may have.
Bounding(label, yaml) == ToSet(Effective(label, yaml)) \cup ToSet(Ambient(label, yaml))

\* Namespaces: "host" and "root" share, "new" and (for net) "none" make one.
SharesNamespace(opt) == opt \in {"host", "root"}
Namespaces(label, yaml) ==
  {ns \in {"net", "ipc", "uts", "user"} : ~SharesNamespace(FirstSet(<<yaml[ns], label[ns]>>, "root"))}
    \cup {ns \in {"pid"} : ~SharesNamespace(FirstSet(<<yaml.pid, label.pid>>, ""))}
    \cup {"mnt"}

\* Mounts by destination: the defaults, then tmpfs, binds and mounts, the last one stays.
DefaultMounts == [d \in {"/proc", "/dev", "/dev/pts", "/sys", "/sys/fs/cgroup"} |->
                    CASE d = "/dev" -> "tmpfs"     [] d = "/proc" -> "proc"
                      [] d = "/dev/pts" -> "devpts" [] d = "/sys" -> "sysfs"
                      [] OTHER -> "cgroup"]

\* A mount without a type: some sources name it, and /dev is a tmpfs.
MountType(m) ==
  CASE m.type # "" -> m.type
    [] m.type = "" /\ m.src \in {"mqueue", "devpts", "proc", "sysfs", "cgroup"} -> m.src
    [] m.dest = "/dev" -> "tmpfs"
    [] OTHER -> ""

\* defaultMountpoint.
MountPoint(m) ==
  CASE m.dest # "" -> m.dest
    [] MountType(m) = "proc"   -> "/proc"           [] MountType(m) = "devpts" -> "/dev/pts"
    [] MountType(m) = "sysfs"  -> "/sys"            [] MountType(m) = "cgroup" -> "/sys/fs/cgroup"
    [] MountType(m) = "mqueue" -> "/dev/mqueue"     [] OTHER -> ""

MountsAsked(label, yaml) ==
  [i \in DOMAIN FirstSet(<<yaml.tmpfs, label.tmpfs>>, <<>>) |->
     [dest |-> FirstSet(<<yaml.tmpfs, label.tmpfs>>, <<>>)[i], type |-> "tmpfs", src |-> "tmpfs"]]
  \o FirstSet(<<yaml.binds, Merge(label.binds, yaml.bindsAdd)>>, <<>>)
  \o FirstSet(<<yaml.mounts, label.mounts>>, <<>>)

Mounts(label, yaml) ==
  LET asked == MountsAsked(label, yaml)
      dests == {MountPoint(asked[i]) : i \in DOMAIN asked}
      last(d) == CHOOSE i \in DOMAIN asked :
                   /\ MountPoint(asked[i]) = d
                   /\ \A j \in DOMAIN asked : j > i => MountPoint(asked[j]) # d
  IN [d \in DOMAIN DefaultMounts \cup dests |->
        IF d \in dests THEN MountType(asked[last(d)]) ELSE DefaultMounts[d]]

\* ConfigToOCI and assignRuntime: the spec, or an error.
Rejected == [ok |-> FALSE]
ConfigToOCI(label, yaml, ids) ==
  LET effective == Effective(label, yaml)
      ambient   == Ambient(label, yaml)
      asked     == MountsAsked(label, yaml)
      uid       == IdNumeric(FirstOf(<<yaml.uid, label.uid>>), ids)
  IN IF \/ ~(ToSet(effective) \cup ToSet(ambient) \subseteq AllCaps)
        \/ \E i \in DOMAIN asked : MountType(asked[i]) = "" \/ MountPoint(asked[i]) = ""
        \/ uid = -1
     THEN Rejected
     ELSE [ok |-> TRUE, effective |-> effective, ambient |-> ambient,
           bounding |-> Bounding(label, yaml), uid |-> uid,
           namespaces |-> Namespaces(label, yaml), mounts |-> Mounts(label, yaml),
           readonly |-> FirstSet(<<yaml.readonly, label.readonly>>, FALSE),
           plain |-> FirstSet(<<yaml.plain, label.plain>>, "")]
===============================================================================
