----------------------------- MODULE KSyncProps ------------------------------
(***************************************************************************)
(* Properties of the configuration files and the build.                    *)
(***************************************************************************)
EXTENDS KSync

\* The files hold whole configurations, and a program is at one of its steps.
SyncTypeOK ==
  /\ kc \in [Syms -> {"defined", "gone", "mentioned"}]
  /\ config \in Contents \cup {None} /\ backup \in Contents \cup {None}
  /\ tmp \in Contents \cup {None} /\ saved \in Contents \cup {None}
  /\ auto \in [Syms -> Values] \cup {None} /\ header \in [Syms -> Values] \cup {None}
  /\ outdated \subseteq Objects
  /\ DOMAIN built = Objects /\ \A o \in Objects \ outdated : built[o] \in [Uses(o) -> Values]
  /\ fresh \in BOOLEAN
  /\ proc \in {"none", "mconf", "sync"}
  /\ proc = "none" => pc = "off"
  /\ proc # "none" => pc \in {"write", "compare", "rename", "written", "touch", "last", "end"}
  /\ mem \in Contents /\ todo \subseteq Syms
  /\ edits \in Nat /\ crashes \in Nat /\ failures \in Nat

\* make takes the configuration to be in sync: the stamp is newer than .config.
InSync == proc = "none" /\ config # None /\ fresh

\* What "auto.conf is renamed last" is for (confdata.c): whenever make would compile,
\* an object that it takes to be up to date was compiled with the value that .config
\* has now of every symbol its source uses, whatever crashed on the way here.
BuiltCurrent ==
  InSync => \A o \in Objects \ outdated : \A s \in Uses(o) : built[o][s] = AutoValue(config)[s]

\* conf_write makes two renames: at any moment .config or .config.old is the
\* configuration that was saved last.
ConfigKept == saved # None => saved \in {config, backup}

\* Crashes only delay: once the user leaves the configuration alone, every object ends
\* up compiled with it, or .config is what a crash has taken away.
EventuallyBuilt == <>[](proc = "none" /\ (config # None => fresh /\ outdated = {}))
==============================================================================
