--------------------------- MODULE ImageBuildProofs ---------------------------
(***************************************************************************)
(* A build keeps its types, runs the mkimage tool only on files that were  *)
(* written to the end, when it succeeds has written every output, and      *)
(* splits its stream into the kernel image's own kernel, command line,     *)
(* microcode and kernel files, whatever the configurations, images and     *)
(* formats are.                                                            *)
(***************************************************************************)
EXTENDS ImageBuildInv, ListLemmas

(***************************************************************************)
(* Lists of any elements                                                   *)
(***************************************************************************)
LEMMA ListIs ==
  ASSUME NEW S, NEW s \in Seq(S)
  PROVE  IsList(s)
BY DEF IsList, ToSet

LEMMA EmptyList == IsList(<<>>) /\ Len(<<>>) = 0 /\ DOMAIN <<>> = {}
BY DEF IsList, ToSet

LEMMA ListDomain ==
  ASSUME NEW s, IsList(s)
  PROVE  /\ Len(s) \in Nat /\ DOMAIN s = 1..Len(s)
         /\ s # <<>> => 1 \in DOMAIN s /\ Head(s) = s[1] /\ Len(s) # 0
         /\ s # <<>> => Len(Tail(s)) = Len(s) - 1
BY DEF IsList, ToSet

\* A list that is given element by element.
LEMMA Listed ==
  ASSUME NEW n \in Nat, NEW f, f = [i \in 1..n |-> f[i]]
  PROVE  IsList(f) /\ Len(f) = n
<1>1. f \in [1..n -> ToSet(f)]
  BY DEF ToSet
<1> QED
  BY <1>1 DEF IsList

LEMMA ListConcat ==
  ASSUME NEW a, NEW b, IsList(a), IsList(b)
  PROVE  /\ IsList(a \o b) /\ Len(a \o b) = Len(a) + Len(b)
         /\ DOMAIN (a \o b) = 1..(Len(a) + Len(b))
         /\ \A k \in 1..Len(a) : (a \o b)[k] = a[k]
         /\ \A k \in 1..Len(b) : (a \o b)[Len(a) + k] = b[k]
         /\ \A k \in DOMAIN (a \o b) :
              \/ k \in DOMAIN a /\ (a \o b)[k] = a[k]
              \/ k - Len(a) \in DOMAIN b /\ (a \o b)[k] = b[k - Len(a)]
<1> DEFINE S == ToSet(a) \cup ToSet(b)
<1>1. a \in Seq(S)
  BY SeqMonotonic DEF IsList
<1>2. b \in Seq(S)
  BY SeqMonotonic DEF IsList
<1> HIDE DEF S
<1>3. a \o b \in Seq(S)
  BY <1>1, <1>2, TwoLists
<1>4. IsList(a \o b)
  BY <1>3, ListIs
<1>5. Len(a \o b) = Len(a) + Len(b) /\ DOMAIN (a \o b) = 1..(Len(a) + Len(b))
  BY <1>1, <1>2, TwoLists
<1>6. \A k \in 1..Len(a) : (a \o b)[k] = a[k]
  BY <1>1, <1>2, TwoLists
<1>7. \A k \in 1..Len(b) : (a \o b)[Len(a) + k] = b[k]
  BY <1>1, <1>2, TwoLists
<1>8. /\ DOMAIN a = 1..Len(a) /\ DOMAIN b = 1..Len(b)
      /\ \A k \in 1..(Len(a) + Len(b)) :
           IF k <= Len(a) THEN k \in 1..Len(a) /\ (a \o b)[k] = a[k]
           ELSE k - Len(a) \in 1..Len(b) /\ (a \o b)[k] = b[k - Len(a)]
  BY <1>1, <1>2, TwoLists
<1> QED
  BY <1>4, <1>5, <1>6, <1>7, <1>8

\* The first item is replaced by others.
LEMMA ListInPlace ==
  ASSUME NEW a, NEW t, IsList(a), IsList(t), t # <<>>
  PROVE  /\ IsList(a \o Tail(t)) /\ Len(a \o Tail(t)) = Len(a) + Len(t) - 1
         /\ DOMAIN (a \o Tail(t)) = 1..(Len(a) + Len(t) - 1)
         /\ Len(a) \in Nat /\ Len(t) \in Nat \ {0}
         /\ DOMAIN a = 1..Len(a) /\ DOMAIN t = 1..Len(t)
         /\ \A k \in 1..Len(a) : (a \o Tail(t))[k] = a[k]
         /\ \A k \in 2..Len(t) : (a \o Tail(t))[Len(a) + k - 1] = t[k]
         /\ \A k \in 1..(Len(a) + Len(t) - 1) :
              \/ k \in 1..Len(a) /\ (a \o Tail(t))[k] = a[k]
              \/ k > Len(a) /\ k - Len(a) + 1 \in 2..Len(t) /\ (a \o Tail(t))[k] = t[k - Len(a) + 1]
<1> DEFINE S == ToSet(a) \cup ToSet(t)
<1>1. a \in Seq(S)
  BY SeqMonotonic DEF IsList
<1>2. t \in Seq(S)
  BY SeqMonotonic DEF IsList
<1> HIDE DEF S
<1>3. a \o Tail(t) \in Seq(S)
  BY <1>1, <1>2, InPlaceOfHead
<1>4. IsList(a \o Tail(t))
  BY <1>3, ListIs
<1>5. /\ Len(a \o Tail(t)) = Len(a) + Len(t) - 1
      /\ Len(a) \in Nat /\ Len(t) \in Nat \ {0}
      /\ DOMAIN a = 1..Len(a) /\ DOMAIN t = 1..Len(t)
      /\ DOMAIN (a \o Tail(t)) = 1..(Len(a) + Len(t) - 1)
  BY <1>1, <1>2, InPlaceOfHead
<1>6. /\ \A k \in 1..Len(a) : (a \o Tail(t))[k] = a[k]
      /\ \A k \in 2..Len(t) : (a \o Tail(t))[Len(a) + k - 1] = t[k]
  BY <1>1, <1>2, InPlaceOfHead
<1>7. \A k \in 1..(Len(a) + Len(t) - 1) :
         IF k <= Len(a) THEN (a \o Tail(t))[k] = a[k]
         ELSE k - Len(a) + 1 \in 2..Len(t) /\ (a \o Tail(t))[k] = t[k - Len(a) + 1]
  BY <1>1, <1>2, InPlaceOfHead
<1>8. ASSUME NEW k \in 1..(Len(a) + Len(t) - 1)
      PROVE  \/ k \in 1..Len(a) /\ (a \o Tail(t))[k] = a[k]
             \/ k > Len(a) /\ k - Len(a) + 1 \in 2..Len(t) /\ (a \o Tail(t))[k] = t[k - Len(a) + 1]
  BY <1>5, <1>7
<1> QED
  BY <1>4, <1>5, <1>6, <1>8

LEMMA ListTail ==
  ASSUME NEW s, IsList(s), s # <<>>
  PROVE  IsList(Tail(s))
<1>1. s \in Seq(ToSet(s))
  BY DEF IsList
<1>2. Tail(s) \in Seq(ToSet(s))
  BY <1>1, HeadTailProperties
<1> QED
  BY <1>2, ListIs

LEMMA ListAppend ==
  ASSUME NEW a, NEW x, IsList(a)
  PROVE  IsList(Append(a, x)) /\ Len(Append(a, x)) = Len(a) + 1
<1> DEFINE S == ToSet(a) \cup {x}
<1>1. a \in Seq(S)
  BY SeqMonotonic DEF IsList
<1> HIDE DEF S
<1>2. x \in S
  BY DEF S
<1>3. Append(a, x) \in Seq(S) /\ Len(Append(a, x)) = Len(a) + 1
  BY <1>1, <1>2, AppendProperties
<1> QED
  BY <1>3, ListIs

LEMMA OneAndOne ==
  ASSUME NEW a, NEW b
  PROVE  <<a>> \o <<b>> = <<a, b>>
<1> DEFINE S == {a, b}
<1>1. a \in S /\ b \in S
  OBVIOUS
<1> HIDE DEF S
<1>2. <<a>> \in Seq(S) /\ Len(<<a>>) = 1 /\ <<a>>[1] = a
  BY <1>1
<1>3. <<b>> \in Seq(S) /\ Len(<<b>>) = 1 /\ <<b>>[1] = b
  BY <1>1
<1>4. <<a, b>> \in Seq(S) /\ Len(<<a, b>>) = 2 /\ <<a, b>>[1] = a /\ <<a, b>>[2] = b
  BY <1>1
<1> DEFINE l == <<a>>
           r == <<b>>
           p == <<a, b>>
<1> HIDE DEF l, r, p
<1>5. l \o r \in Seq(S) /\ Len(l \o r) = 2 /\ (l \o r)[1] = a /\ (l \o r)[2] = b
  <2>1. l \o r \in Seq(S) /\ Len(l \o r) = Len(l) + Len(r)
    BY <1>2, <1>3, TwoLists DEF l, r
  <2>2. 1 \in 1..Len(l) /\ 1 \in 1..Len(r) /\ Len(l) = 1 /\ Len(r) = 1 /\ l[1] = a /\ r[1] = b
    BY <1>2, <1>3 DEF l, r
  <2>3. \A k \in 1..Len(l) : (l \o r)[k] = l[k]
    BY <1>2, <1>3, TwoLists DEF l, r
  <2>4. \A k \in 1..Len(r) : (l \o r)[Len(l) + k] = r[k]
    BY <1>2, <1>3, TwoLists DEF l, r
  <2>5. (l \o r)[Len(l) + 1] = r[1] /\ Len(l) + 1 = 2
    BY <2>2, <2>4
  <2> QED
    BY <2>1, <2>2, <2>3, <2>5
<1>6. l \o r = p
  <2>1. p \in Seq(S) /\ Len(p) = 2 /\ p[1] = a /\ p[2] = b
    BY <1>4 DEF p
  <2>2. \A i \in 1..Len(p) : i = 1 \/ i = 2
    BY <2>1
  <2> QED
    BY <1>5, <2>1, <2>2, SeqEqual
<1> QED
  BY <1>6 DEF l, r, p

\* A selection from a list.
LEMMA ListMatching ==
  ASSUME NEW s, IsList(s), NEW T
  PROVE  /\ IsList(Matching(s, T))
         /\ \A i \in DOMAIN Matching(s, T) : Matching(s, T)[i] \in T
         /\ \A i \in DOMAIN Matching(s, T) : \E k \in DOMAIN s : Matching(s, T)[i] = s[k]
         /\ \A k \in DOMAIN s : s[k] \in T => \E i \in DOMAIN Matching(s, T) : Matching(s, T)[i] = s[k]
<1>1. s \in Seq(ToSet(s))
  BY DEF IsList
<1>2. Matching(s, T) \in Seq(ToSet(s))
  BY <1>1, MatchingElements
<1>3. \A i \in DOMAIN Matching(s, T) : Matching(s, T)[i] \in T
  BY <1>1, MatchingElements
<1>4. \A i \in DOMAIN Matching(s, T) : \E k \in DOMAIN s : Matching(s, T)[i] = s[k]
  BY <1>1, MatchingElements
<1>5. \A k \in DOMAIN s : s[k] \in T => \E i \in DOMAIN Matching(s, T) : Matching(s, T)[i] = s[k]
  BY <1>1, MatchingElements
<1>6. IsList(Matching(s, T))
  BY <1>2, ListIs
<1> QED
  BY <1>3, <1>4, <1>5, <1>6

LEMMA ArchiveConcat ==
  ASSUME NEW a, NEW b, IsArchive(a), IsArchive(b)
  PROVE  IsArchive(a \o b)
<1>1. IsList(a) /\ IsList(b)
  BY DEF IsArchive
<1>2. IsList(a \o b)
  BY <1>1, ListConcat
<1>3. ASSUME NEW k \in DOMAIN (a \o b)
      PROVE  IsEntry((a \o b)[k])
  <2>1. \/ k \in DOMAIN a /\ (a \o b)[k] = a[k]
        \/ k - Len(a) \in DOMAIN b /\ (a \o b)[k] = b[k - Len(a)]
    BY <1>1, ListConcat
  <2> QED
    BY <2>1 DEF IsArchive
<1> QED
  BY <1>2, <1>3 DEF IsArchive

LEMMA ArchiveOfOne ==
  ASSUME NEW e, IsEntry(e)
  PROVE  IsArchive(<<e>>)
<1>1. IsList(<<e>>)
  BY ListIs, <<e>> \in Seq({e})
<1>2. \A k \in DOMAIN <<e>> : k = 1
  OBVIOUS
<1> QED
  BY <1>1, <1>2 DEF IsArchive

LEMMA EntriesMade ==
  ASSUME NEW name, NEW x
  PROVE  /\ IsEntry(Dir(name)) /\ IsEntry(Symlink(name, x)) /\ IsEntry(Char(name)) /\ IsEntry(Reg(name, x))
BY DEF IsEntry, Dir, Symlink, Char, Reg, HeaderOnly

(***************************************************************************)
(* The kernel filter                                                       *)
(***************************************************************************)
LEMMA FinishTarType ==
  ASSUME NEW k, IsFilter(k)
  PROVE  IsFilter(FinishTar(k))
<1>1. CASE ~k.open
  BY <1>1 DEF FinishTar
<1>2. CASE k.open /\ k.hdr # NoHdr
  <2> DEFINE e == [k.hdr EXCEPT !.body = IF cfg.unzip THEN Unzipped(k.buf) ELSE k.buf]
             l == [k EXCEPT !.out = Append(@, e), !.hdr = NoHdr, !.open = FALSE]
  <2>1. FinishTar(k) = l \/ FinishTar(k) = [k EXCEPT !.failed = TRUE]
    BY <1>2 DEF FinishTar
  <2>2. IsFilter([k EXCEPT !.failed = TRUE])
    BY DEF IsFilter
  <2>3. IsEntry(e)
    BY <1>2 DEF IsFilter, IsEntry, NoHdr, Reg, HeaderOnly
  <2> HIDE DEF e
  <2>4. IsArchive(k.out \o <<e>>)
    BY <2>3, ArchiveOfOne, ArchiveConcat DEF IsFilter
  <2>5. Append(k.out, e) = k.out \o <<e>>
    <3>1. k.out \in Seq(ToSet(k.out) \cup {e})
      BY SeqMonotonic DEF IsFilter, IsArchive, IsList
    <3>2. e \in ToSet(k.out) \cup {e}
      OBVIOUS
    <3> QED
      BY <3>1, <3>2, AppendIsConcat
  <2>6. IsFilter(l)
    BY <2>4, <2>5 DEF IsFilter
  <2> HIDE DEF l
  <2> QED
    BY <2>1, <2>2, <2>6
<1>3. CASE k.open /\ k.hdr = NoHdr
  <2> DEFINE l == [k EXCEPT !.out = @ \o KernelTar[k.buf], !.open = FALSE]
  <2>1. \/ k.buf \in DOMAIN KernelTar /\ FinishTar(k) = l
        \/ FinishTar(k) = [k EXCEPT !.failed = TRUE]
    BY <1>3 DEF FinishTar
  <2>2. IsFilter([k EXCEPT !.failed = TRUE])
    BY DEF IsFilter
  <2>3. ASSUME k.buf \in DOMAIN KernelTar
        PROVE  IsFilter(l)
    <3>1. IsArchive(k.out \o KernelTar[k.buf])
      BY <2>3, ArchiveConcat, ArchivesAssumption DEF IsFilter
    <3> QED
      BY <3>1 DEF IsFilter
  <2> HIDE DEF l
  <2> QED
    BY <2>1, <2>2, <2>3
<1> QED
  BY <1>1, <1>2, <1>3 DEF IsFilter

LEMMA BootDirType ==
  ASSUME NEW k, NEW there \in BOOLEAN, NEW e, IsEntry(e), NEW es, IsArchive(es)
  PROVE  IsArchive(es \o BootDir(k, there) \o <<e>>)
<1>1. IsArchive(BootDir(k, there))
  <2>1. CASE there
    BY <2>1, EmptyList DEF BootDir, IsArchive
  <2>2. CASE ~there
    BY <2>2, ArchiveOfOne, EntriesMade DEF BootDir
  <2> QED
    BY <2>1, <2>2
<1> QED
  BY <1>1, ArchiveOfOne, ArchiveConcat

LEMMA KernelEntryType ==
  ASSUME NEW k0, IsFilter(k0), NEW e
  PROVE  IsFilter(KernelEntry(k0, e))
<1> DEFINE k == FinishTar(k0)
<1>1. IsFilter(k)
  BY FinishTarType
<1>2. KernelEntry(k0, e) =
        CASE k.failed -> k
          [] ~k.failed /\ e.name = KernelName(cfg) /\ k.kernel -> [k EXCEPT !.failed = TRUE]
          [] ~k.failed /\ e.name = KernelName(cfg) /\ ~k.kernel ->
               [k EXCEPT !.kernel = TRUE, !.open = TRUE, !.buf = e.body, !.hdr = Reg(<<"boot", "kernel">>, None),
                         !.out = @ \o BootDir(k, k.ucode) \o <<Reg(<<"boot", "cmdline">>, cfg.cmdline)>>]
          [] ~k.failed /\ e.name # KernelName(cfg) /\ e.name = TarName(cfg) ->
               [k EXCEPT !.tar = TRUE, !.open = TRUE, !.buf = e.body]
          [] ~k.failed /\ e.name # KernelName(cfg) /\ e.name # TarName(cfg) /\ e.name = cfg.ucode ->
               [k EXCEPT !.ucode = TRUE,
                         !.out = @ \o BootDir(k, k.kernel) \o <<Reg(<<"boot", "ucode.cpio">>, e.body)>>]
          [] OTHER -> k
  BY DEF KernelEntry
<1> HIDE DEF k
<1>3. IsArchive(k.out) /\ k.kernel \in BOOLEAN /\ k.ucode \in BOOLEAN /\ k.failed \in BOOLEAN
  BY <1>1 DEF IsFilter
<1> DEFINE full == k.out \o BootDir(k, k.ucode) \o <<Reg(<<"boot", "cmdline">>, cfg.cmdline)>>
           code == k.out \o BootDir(k, k.kernel) \o <<Reg(<<"boot", "ucode.cpio">>, e.body)>>
<1>4. IsArchive(full) /\ IsArchive(code)
  BY <1>3, BootDirType, EntriesMade
<1>5. IsFilter([k EXCEPT !.failed = TRUE])
  BY <1>1 DEF IsFilter
<1>6. IsFilter([k EXCEPT !.kernel = TRUE, !.open = TRUE, !.buf = e.body, !.hdr = Reg(<<"boot", "kernel">>, None),
                         !.out = full])
  <2> HIDE DEF full
  <2> QED
    BY <1>1, <1>4 DEF IsFilter
<1>7. IsFilter([k EXCEPT !.tar = TRUE, !.open = TRUE, !.buf = e.body])
  BY <1>1 DEF IsFilter
<1>8. IsFilter([k EXCEPT !.ucode = TRUE, !.out = code])
  <2> HIDE DEF code
  <2> QED
    BY <1>1, <1>4 DEF IsFilter
<1> QED
  BY <1>1, <1>2, <1>3, <1>5, <1>6, <1>7, <1>8

\* What has become of the filter after each of the entries.
Filtered(es, f, n) == IF n = 0 THEN [kf EXCEPT !.out = out] ELSE KernelEntry(f[n - 1], es[n])
Filterings(es, f, n) == f = [i \in 0..n |-> Filtered(es, f, i)]

LEMMA FilteringsExist ==
  ASSUME NEW es, NEW n \in Nat
  PROVE  \E f : Filterings(es, f, n)
<1> DEFINE Bad == {m \in Nat : ~\E f : Filterings(es, f, m)}
<1> SUFFICES ASSUME Bad # {} PROVE FALSE
  OBVIOUS
<1>1. PICK m \in Bad : \A k \in Bad : m <= k
  <2> HIDE DEF Bad
  <2>1. Bad \in SUBSET Nat
    BY DEF Bad
  <2> QED
    BY <2>1, LeastOf
<1>2. m # 0
  <2> DEFINE g == [i \in 0..0 |-> [kf EXCEPT !.out = out]]
  <2>1. Filterings(es, g, 0)
    <3>1. \A i \in 0..0 : Filtered(es, g, i) = [kf EXCEPT !.out = out]
      BY DEF Filtered
    <3> QED
      BY <3>1 DEF Filterings
  <2> QED
    BY <2>1
<1>3. m \in Nat /\ m - 1 \in Nat /\ m - 1 \notin Bad
  BY <1>1, <1>2
<1>4. PICK f : Filterings(es, f, m - 1)
  BY <1>3
<1> DEFINE g == [i \in 0..m |-> Filtered(es, f, i)]
<1>5. \A i \in 0..(m - 1) : f[i] = Filtered(es, f, i)
  BY <1>4 DEF Filterings
<1>6. \A i \in 0..(m - 1) : g[i] = f[i]
  BY <1>3, <1>5
<1>7. \A i \in 0..m : Filtered(es, g, i) = Filtered(es, f, i)
  <2> HIDE DEF g
  <2> SUFFICES ASSUME NEW i \in 0..m PROVE Filtered(es, g, i) = Filtered(es, f, i)
    OBVIOUS
  <2>1. i # 0 => i - 1 \in 0..(m - 1)
    BY <1>3
  <2> QED
    BY <1>6, <2>1 DEF Filtered
<1>8. g = [i \in 0..m |-> Filtered(es, g, i)]
  BY <1>7
<1> QED
  BY <1>8 DEF Filterings

LEMMA ThroughType ==
  ASSUME IsFilter(kf), IsArchive(out), NEW es, Len(es) \in Nat
  PROVE  IsFilter(Through(es))
<1> DEFINE f == CHOOSE f : Filterings(es, f, Len(es))
<1>1. Filterings(es, f, Len(es))
  BY FilteringsExist
<1>2. Through(es) = f[Len(es)]
  BY DEF Through, Filterings, Filtered
<1> HIDE DEF f
<1>3. \A i \in 0..Len(es) : f[i] = Filtered(es, f, i)
  BY <1>1 DEF Filterings
<1> DEFINE Bad == {m \in 0..Len(es) : ~IsFilter(f[m])}
<1>4. ASSUME Bad # {} PROVE FALSE
  <2>1. PICK m \in Bad : \A k \in Bad : m <= k
    <3>1. Bad \in SUBSET Nat
      OBVIOUS
    <3> HIDE DEF Bad
    <3> QED
      BY <1>4, <3>1, LeastOf
  <2>2. m \in 0..Len(es) /\ ~IsFilter(f[m])
    BY <2>1
  <2>3. CASE m = 0
    <3>1. f[m] = [kf EXCEPT !.out = out]
      BY <1>3, <2>2, <2>3 DEF Filtered
    <3>2. IsFilter([kf EXCEPT !.out = out])
      BY DEF IsFilter
    <3> QED
      BY <2>2, <3>1, <3>2
  <2>4. CASE m # 0
    <3>1. m - 1 \in 0..Len(es) /\ m - 1 \notin Bad
      BY <2>1, <2>2, <2>4
    <3>2. IsFilter(f[m - 1])
      BY <3>1
    <3>3. f[m] = KernelEntry(f[m - 1], es[m])
      BY <1>3, <2>2, <2>4 DEF Filtered
    <3> QED
      BY <2>2, <3>2, <3>3, KernelEntryType
  <2> QED
    BY <2>3, <2>4
<1>5. Len(es) \in 0..Len(es)
  OBVIOUS
<1> QED
  BY <1>2, <1>4, <1>5

(***************************************************************************)
(* Configurations                                                          *)
(***************************************************************************)
LEMMA ImagesConcat ==
  ASSUME NEW a, NEW b, HasImages(a), HasImages(b)
  PROVE  HasImages(a \o b)
<1>1. IsList(a) /\ IsList(b)
  BY DEF HasImages
<1>2. IsList(a \o b)
  BY <1>1, ListConcat
<1>3. ASSUME NEW k \in DOMAIN (a \o b)
      PROVE  (a \o b)[k].image \in DOMAIN Tars
  <2>1. \/ k \in DOMAIN a /\ (a \o b)[k] = a[k]
        \/ k - Len(a) \in DOMAIN b /\ (a \o b)[k] = b[k - Len(a)]
    BY <1>1, ListConcat
  <2> QED
    BY <2>1 DEF HasImages
<1> QED
  BY <1>2, <1>3 DEF HasImages

LEMMA AppendConfigType ==
  ASSUME NEW c0, NEW c1, IsConfig(c0), IsConfig(c1)
  PROVE  IsConfig(AppendConfig(c0, c1))
<1> DEFINE c == AppendConfig(c0, c1)
<1>1. /\ c.kimage = Later(c0.kimage, c1.kimage) /\ c.init = c0.init \o c1.init
      /\ c.onboot = c0.onboot \o c1.onboot /\ c.onshutdown = c0.onshutdown \o c1.onshutdown
      /\ c.services = c0.services \o c1.services /\ c.files = c0.files \o c1.files
  BY DEF AppendConfig
<1>9. c \in [kimage : {c.kimage}, cmdline : {c.cmdline}, binary : {c.binary}, tar : {c.tar}, ucode : {c.ucode},
             unzip : {c.unzip}, init : {c.init}, onboot : {c.onboot}, onshutdown : {c.onshutdown},
             services : {c.services}, files : {c.files}, valid : {c.valid}]
  BY DEF AppendConfig
<1> HIDE DEF c
<1>2. c.kimage # None => c.kimage[1] \in DOMAIN Tars
  BY <1>1 DEF Later, IsConfig
<1>3. HasImages(c.onboot) /\ HasImages(c.onshutdown) /\ HasImages(c.services)
  BY <1>1, ImagesConcat DEF IsConfig
<1>4. IsList(c0.init) /\ IsList(c1.init) /\ IsList(c0.files) /\ IsList(c1.files)
  BY DEF IsConfig
<1>5. IsList(c.init) /\ IsList(c.files)
  BY <1>1, <1>4, ListConcat
<1>6. ASSUME NEW k \in DOMAIN c.init
      PROVE  c.init[k] \in DOMAIN Tars
  <2> DEFINE a == c0.init
             b == c1.init
  <2>1. IsList(a) /\ IsList(b) /\ k \in DOMAIN (a \o b) /\ c.init[k] = (a \o b)[k]
    BY <1>1, <1>4
  <2>2. \/ k \in DOMAIN a /\ (a \o b)[k] = a[k]
        \/ k - Len(a) \in DOMAIN b /\ (a \o b)[k] = b[k - Len(a)]
    <3> HIDE DEF a, b
    <3> QED
      BY <2>1, ListConcat
  <2> QED
    BY <2>1, <2>2 DEF IsConfig
<1>7. ASSUME NEW k \in DOMAIN c.files
      PROVE  IsList(c.files[k].path) /\ c.files[k].path # <<>>
  <2> DEFINE a == c0.files
             b == c1.files
  <2>1. IsList(a) /\ IsList(b) /\ k \in DOMAIN (a \o b) /\ c.files[k] = (a \o b)[k]
    BY <1>1, <1>4
  <2>2. \/ k \in DOMAIN a /\ (a \o b)[k] = a[k]
        \/ k - Len(a) \in DOMAIN b /\ (a \o b)[k] = b[k - Len(a)]
    <3> HIDE DEF a, b
    <3> QED
      BY <2>1, ListConcat
  <2> QED
    BY <2>1, <2>2 DEF IsConfig
<1>8. IsConfig(c)
  BY <1>2, <1>3, <1>5, <1>6, <1>7, <1>9 DEF IsConfig
<1> QED
  BY <1>8 DEF c

LEMMA NoConfigType == IsConfig(NoConfig)
BY EmptyList DEF IsConfig, NoConfig, HasImages, None

\* The configuration after each of the files.
Step(files, f, n) == IF n = 0 THEN NoConfig ELSE AppendConfig(f[n - 1], files[n])
Merging(files, f, n) == f = [i \in 0..n |-> Step(files, f, i)]

LEMMA MergingsExist ==
  ASSUME NEW files, NEW n \in Nat
  PROVE  \E f : Merging(files, f, n)
<1> DEFINE Bad == {m \in Nat : ~\E f : Merging(files, f, m)}
<1> SUFFICES ASSUME Bad # {} PROVE FALSE
  OBVIOUS
<1>1. PICK m \in Bad : \A k \in Bad : m <= k
  <2> HIDE DEF Bad
  <2>1. Bad \in SUBSET Nat
    BY DEF Bad
  <2> QED
    BY <2>1, LeastOf
<1>2. m # 0
  <2> DEFINE g == [i \in 0..0 |-> NoConfig]
  <2>1. Merging(files, g, 0)
    <3>1. \A i \in 0..0 : Step(files, g, i) = NoConfig
      BY DEF Step
    <3> QED
      BY <3>1 DEF Merging
  <2> QED
    BY <2>1
<1>3. m \in Nat /\ m - 1 \in Nat /\ m - 1 \notin Bad
  BY <1>1, <1>2
<1>4. PICK f : Merging(files, f, m - 1)
  BY <1>3
<1> DEFINE g == [i \in 0..m |-> Step(files, f, i)]
<1>5. \A i \in 0..(m - 1) : f[i] = Step(files, f, i)
  BY <1>4 DEF Merging
<1>6. \A i \in 0..(m - 1) : g[i] = f[i]
  BY <1>3, <1>5
<1>7. \A i \in 0..m : Step(files, g, i) = Step(files, f, i)
  <2> HIDE DEF g
  <2> SUFFICES ASSUME NEW i \in 0..m PROVE Step(files, g, i) = Step(files, f, i)
    OBVIOUS
  <2>1. i # 0 => i - 1 \in 0..(m - 1)
    BY <1>3
  <2> QED
    BY <1>6, <2>1 DEF Step
<1>8. g = [i \in 0..m |-> Step(files, g, i)]
  BY <1>7
<1> QED
  BY <1>8 DEF Merging

LEMMA MergedType ==
  ASSUME NEW files, IsList(files), \A i \in DOMAIN files : IsConfig(files[i])
  PROVE  IsConfig(Merged(files))
<1> DEFINE f == CHOOSE f : Merging(files, f, Len(files))
<1>1. Len(files) \in Nat /\ DOMAIN files = 1..Len(files)
  BY ListDomain
<1>2. Merging(files, f, Len(files))
  BY <1>1, MergingsExist
<1>3. Merged(files) = f[Len(files)]
  BY DEF Merged, Merging, Step
<1> HIDE DEF f
<1>4. \A i \in 0..Len(files) : f[i] = Step(files, f, i)
  BY <1>2 DEF Merging
<1> DEFINE Bad == {m \in 0..Len(files) : ~IsConfig(f[m])}
<1>5. ASSUME Bad # {} PROVE FALSE
  <2>1. PICK m \in Bad : \A k \in Bad : m <= k
    <3>1. Bad \in SUBSET Nat
      BY <1>1
    <3> HIDE DEF Bad
    <3> QED
      BY <1>5, <3>1, LeastOf
  <2>2. m \in 0..Len(files) /\ ~IsConfig(f[m])
    BY <2>1
  <2>3. CASE m = 0
    BY <1>4, <2>2, <2>3, NoConfigType DEF Step
  <2>4. CASE m # 0
    <3>1. m - 1 \in 0..Len(files) /\ m - 1 \notin Bad /\ m \in DOMAIN files
      BY <1>1, <2>1, <2>2, <2>4
    <3>2. IsConfig(f[m - 1]) /\ IsConfig(files[m])
      BY <3>1
    <3>3. f[m] = AppendConfig(f[m - 1], files[m])
      BY <1>4, <2>2, <2>4 DEF Step
    <3> QED
      BY <2>2, <3>2, <3>3, AppendConfigType
  <2> QED
    BY <2>3, <2>4
<1>6. Len(files) \in 0..Len(files)
  BY <1>1
<1> QED
  BY <1>3, <1>5, <1>6

(***************************************************************************)
(* Steps of a build                                                        *)
(***************************************************************************)

\* Items that do not write the tool's files, and run the tool only if they may.
Plain(items, may) ==
  /\ IsList(items)
  /\ \A i \in DOMAIN items : IsItem(items[i]) /\ items[i].do \notin Writing
  /\ \A i \in DOMAIN items : Runs(items[i]) => may

\* What an item puts in its place does not run the tool, unless the item did.
Placed(items) == Plain(items, Runs(todo[1]))

LEMMA OnePlain ==
  ASSUME NEW t, IsItem(t), t.do \notin Writing, NEW may, Runs(t) => may
  PROVE  Plain(<<t>>, may)
<1>1. IsList(<<t>>)
  BY ListIs, <<t>> \in Seq({t})
<1>2. \A k \in DOMAIN <<t>> : k = 1
  OBVIOUS
<1> QED
  BY <1>1, <1>2 DEF Plain

LEMMA MorePlain ==
  ASSUME NEW a, NEW b, NEW may, Plain(a, may), Plain(b, may)
  PROVE  Plain(a \o b, may)
<1>1. IsList(a) /\ IsList(b)
  BY DEF Plain
<1>2. IsList(a \o b)
  BY <1>1, ListConcat
<1>3. ASSUME NEW k \in DOMAIN (a \o b)
      PROVE  /\ IsItem((a \o b)[k]) /\ (a \o b)[k].do \notin Writing
             /\ Runs((a \o b)[k]) => may
  <2>1. \/ k \in DOMAIN a /\ (a \o b)[k] = a[k]
        \/ k - Len(a) \in DOMAIN b /\ (a \o b)[k] = b[k - Len(a)]
    BY <1>1, ListConcat
  <2> QED
    BY <2>1 DEF Plain
<1> QED
  BY <1>2, <1>3 DEF Plain

LEMMA NoPlain == \A may : Plain(<<>>, may)
BY EmptyList DEF Plain

LEMMA ToolAtHead ==
  ASSUME BuildInv, todo # <<>>
  PROVE  /\ Runs(todo[1]) => mkimage["cmdline"] # "none"
         /\ todo[1].do \notin Writing => \A i \in DOMAIN todo : todo[i].do \notin Writing
<1>1. IsList(todo)
  BY DEF BuildInv, BuildType
<1>2. Len(todo) \in Nat /\ DOMAIN todo = 1..Len(todo) /\ 1 \in DOMAIN todo
  BY <1>1, ListDomain
<1>3. Runs(todo[1]) => mkimage["cmdline"] # "none"
  <2>1. ~\E j \in 1..(1 - 1) : Provides(todo[j])
    OBVIOUS
  <2> QED
    BY <1>2, <2>1 DEF BuildInv, ToolInv
<1>4. ASSUME todo[1].do \notin Writing
      PROVE  \A i \in DOMAIN todo : todo[i].do \notin Writing
  <2>1. PICK k \in 0..6 : Left(k)
    BY DEF BuildInv, ToolInv
  <2>2. ~(1 <= 6 - k)
    BY <1>2, <1>4, <2>1 DEF Left
  <2>3. 6 - k = 0
    BY <2>2
  <2> QED
    BY <1>2, <2>1, <2>3 DEF Left
<1> QED
  BY <1>3, <1>4

LEMMA ItemsPlaced ==
  ASSUME BuildInv, todo # <<>>, todo[1].do \notin Writing \cup {"mkimage"},
         NEW items, Placed(items), todo' = items \o Tail(todo) \/ todo' = <<>>, mkimage' = mkimage
  PROVE  /\ IsList(todo') /\ \A i \in DOMAIN todo' : IsItem(todo'[i])
         /\ ToolInv'
<1>1. IsList(todo) /\ IsList(items)
  BY DEF BuildInv, BuildType, Placed, Plain
<1>2. CASE todo' = <<>>
  <2>1. IsList(todo') /\ Len(todo') = 0 /\ DOMAIN todo' = {}
    BY <1>2, EmptyList
  <2>2. Left(6)' /\ Stage(6)'
    BY <2>1 DEF Left, Stage
  <2>3. mkimage["cmdline"] # "none" => mkimage["kernel"] = "good" /\ mkimage["initrd"] = "good"
    BY DEF BuildInv, ToolInv
  <2> QED
    BY <2>1, <2>2, <2>3 DEF ToolInv
<1>3. CASE todo' = items \o Tail(todo)
  <2> DEFINE n == Len(items)
  <2>1. /\ IsList(todo') /\ Len(todo') = n + Len(todo) - 1
        /\ DOMAIN todo' = 1..(n + Len(todo) - 1)
        /\ n \in Nat /\ Len(todo) \in Nat \ {0}
        /\ DOMAIN items = 1..n /\ DOMAIN todo = 1..Len(todo)
    BY <1>1, <1>3, ListInPlace
  <2>2. \A k \in 2..Len(todo) : todo'[n + k - 1] = todo[k]
    BY <1>1, <1>3, ListInPlace
  <2>3. \A k \in 1..(n + Len(todo) - 1) :
          \/ k \in 1..n /\ todo'[k] = items[k]
          \/ k > n /\ k - n + 1 \in 2..Len(todo) /\ todo'[k] = todo[k - n + 1]
    BY <1>1, <1>3, ListInPlace
  <2> HIDE DEF n
  <2>4. \A i \in DOMAIN todo : IsItem(todo[i]) /\ todo[i].do \notin Writing
    BY ToolAtHead DEF BuildInv, BuildType
  <2>5. ASSUME NEW i \in DOMAIN todo'
        PROVE  IsItem(todo'[i]) /\ todo'[i].do \notin Writing
    <3>1. \/ i \in DOMAIN items /\ todo'[i] = items[i]
          \/ i - n + 1 \in DOMAIN todo /\ todo'[i] = todo[i - n + 1]
      <4>1. \/ i \in 1..n /\ todo'[i] = items[i]
            \/ i > n /\ i - n + 1 \in 2..Len(todo) /\ todo'[i] = todo[i - n + 1]
        BY <2>1, <2>3
      <4> QED
        BY <2>1, <4>1
    <3> QED
      BY <2>4, <3>1 DEF Placed, Plain
  <2>6. Left(6)' /\ Stage(6)'
    BY <2>1, <2>5 DEF Left, Stage
  <2>7. mkimage["cmdline"] # "none" => mkimage["kernel"] = "good" /\ mkimage["initrd"] = "good"
    BY DEF BuildInv, ToolInv
  <2>8. ASSUME mkimage["cmdline"] = "none", NEW i \in DOMAIN todo', Runs(todo'[i])
        PROVE  \E j \in 1..(i - 1) : Provides(todo'[j])
    <3>1. ~Runs(todo[1])
      BY <2>8, ToolAtHead
    <3>2. i \in 1..(n + Len(todo) - 1)
      BY <2>1
    <3>3. i > n /\ i - n + 1 \in 2..Len(todo) /\ todo'[i] = todo[i - n + 1]
      BY <2>1, <2>3, <2>8, <3>1, <3>2 DEF Placed, Plain
    <3>4. PICK j \in 1..(i - n) : Provides(todo[j])
      <4> DEFINE l == i - n + 1
      <4>1. Runs(todo[l]) /\ l \in DOMAIN todo
        BY <2>1, <2>8, <3>3
      <4>2. l - 1 = i - n
        BY <2>1, <3>2
      <4> HIDE DEF l
      <4>3. \A m \in DOMAIN todo : Runs(todo[m]) => \E j \in 1..(m - 1) : Provides(todo[j])
        BY <2>8 DEF BuildInv, ToolInv
      <4>4. \E j \in 1..(l - 1) : Provides(todo[j])
        BY <4>1, <4>3
      <4> QED
        BY <4>2, <4>4
    <3>5. j # 1
      BY <3>4 DEF Provides, Writing
    <3>6. j \in 2..Len(todo) /\ n + j - 1 \in 1..(i - 1)
      BY <2>1, <3>2, <3>3, <3>5
    <3>7. todo'[n + j - 1] = todo[j]
      BY <2>2, <3>6
    <3> QED
      BY <3>4, <3>6, <3>7
  <2> QED
    <3>1. \E k \in 0..6 : Left(k)' /\ Stage(k)'
      BY <2>6
    <3>2. mkimage'["cmdline"] # "none" => mkimage'["kernel"] = "good" /\ mkimage'["initrd"] = "good"
      BY <2>7
    <3>3. mkimage'["cmdline"] = "none" =>
            \A i \in DOMAIN todo' : Runs(todo'[i]) => \E j \in 1..(i - 1) : Provides(todo'[j])
      BY <2>8, Zenon
    <3>4. ToolInv'
      BY <3>1, <3>2, <3>3, Zenon DEF ToolInv
    <3> QED
      BY <2>1, <2>5, <3>4
<1> QED
  BY <1>2, <1>3

LEMMA Emitted ==
  ASSUME BuildInv, todo # <<>>, todo[1].do \notin Writing \cup {"mkimage"},
         NEW es, IsList(es), Now.to # "kernel" => IsArchive(es),
         NEW items, Placed(items), Emit(es, items), mkimage' = mkimage
  PROVE  /\ IsList(todo') /\ \A i \in DOMAIN todo' : IsItem(todo'[i])
         /\ ToolInv'
         /\ IsArchive(out') /\ IsFilter(kf') /\ status' \in {status, "failed"}
<1>1. todo' = items \o Tail(todo) \/ todo' = <<>>
  BY DEF Emit, Fail, Then
<1>2. IsFilter(kf) /\ IsArchive(out) /\ Len(es) \in Nat
  BY ListDomain DEF BuildInv, BuildType
<1>3. IsArchive(out') /\ IsFilter(kf') /\ status' \in {status, "failed"}
  <2>1. CASE Now.to = "kernel"
    <3> DEFINE k == Through(es)
    <3>1. IsFilter(k)
      BY <1>2, ThroughType
    <3> HIDE DEF k
    <3>2. IsArchive(k.out) /\ IsFilter([k EXCEPT !.out = <<>>])
      <4>1. IsArchive(<<>>)
        BY EmptyList DEF IsArchive
      <4> QED
        BY <3>1, <4>1 DEF IsFilter
    <3>3. kf' = [k EXCEPT !.out = <<>>] /\ out' = k.out /\ status' \in {status, "failed"}
      BY <2>1 DEF Emit, Fail, k
    <3> QED
      BY <3>2, <3>3
  <2>2. CASE Now.to # "kernel"
    <3>1. out' = out \o es /\ kf' = kf /\ status' = status
      BY <2>2 DEF Emit
    <3>2. IsArchive(es)
      BY <2>2
    <3> QED
      BY <1>2, <3>1, <3>2, ArchiveConcat
  <2> QED
    BY <2>1, <2>2
<1> QED
  BY <1>1, <1>3, ItemsPlaced

\* The item fails.
LEMMA Failed ==
  ASSUME BuildInv, todo # <<>>, todo[1].do \notin Writing \cup {"mkimage"},
         Fail, UNCHANGED <<out, kf, mkimage>>
  PROVE  /\ IsList(todo') /\ \A i \in DOMAIN todo' : IsItem(todo'[i])
         /\ ToolInv'
         /\ IsArchive(out') /\ IsFilter(kf') /\ status' \in {status, "failed"}
<1>1. Placed(<<>>)
  BY EmptyList DEF Placed, Plain
<1>2. todo' = <<>> /\ status' = "failed"
  BY DEF Fail
<1>3. IsList(todo') /\ (\A i \in DOMAIN todo' : IsItem(todo'[i])) /\ ToolInv'
  BY <1>1, <1>2, ItemsPlaced
<1> QED
  BY <1>2, <1>3 DEF BuildInv, BuildType

LEMMA Assembled ==
  ASSUME BuildInv, IsList(todo'), \A i \in DOMAIN todo' : IsItem(todo'[i]), ToolInv',
         IsArchive(out'), IsFilter(kf'), status' \in {status, "failed"},
         \A image \in DOMAIN dup' : IsList(dup'[image]),
         mkimage' = mkimage, builds' = builds, faults' \in 0..MaxFaults
  PROVE  BuildInv'
<1>1. status' \in {"idle", "building", "done", "failed"} /\ builds' \in 0..MaxBuilds
      /\ mkimage' \in [MkimageParts -> {"none", "torn", "good"}]
  BY DEF BuildInv, BuildType
<1> QED
  BY <1>1 DEF BuildInv, BuildType

LEMMA AtHead ==
  ASSUME BuildInv, NEW what, At(what)
  PROVE  /\ todo # <<>> /\ 1 \in DOMAIN todo /\ Now = todo[1] /\ todo[1].do = what
         /\ IsItem(todo[1]) /\ IsItem(Now) /\ Now.do = what
         /\ \A image \in DOMAIN dup : IsList(dup[image])
         /\ faults \in 0..MaxFaults
<1>1. IsList(todo) /\ todo # <<>>
  BY DEF BuildInv, BuildType, At
<1>2. 1 \in DOMAIN todo /\ Head(todo) = todo[1]
  BY <1>1, ListDomain
<1> QED
  BY <1>1, <1>2 DEF BuildInv, BuildType, At, Now

LEMMA NoItems == Placed(<<>>) /\ IsArchive(<<>>) /\ IsList(<<>>)
BY EmptyList DEF Placed, Plain, IsArchive

LEMMA OneItem ==
  ASSUME NEW t, IsItem(t), t.do \notin Writing, Runs(t) => Runs(todo[1])
  PROVE  Placed(<<t>>)
BY OnePlain DEF Placed

LEMMA MoreItems ==
  ASSUME NEW a, NEW b, Placed(a), Placed(b)
  PROVE  Placed(a \o b)
BY MorePlain DEF Placed

LEMMA TarPrefixType ==
  ASSUME NEW prefix, IsList(prefix)
  PROVE  IsArchive(TarPrefix(prefix))
<1>1. Len(prefix) \in Nat /\ DOMAIN prefix = 1..Len(prefix)
  BY ListDomain
<1>2. TarPrefix(prefix) = [i \in 1..Len(prefix) |-> Dir(SubSeq(prefix, 1, i))]
  BY <1>1 DEF TarPrefix
<1>3. \A i \in 1..Len(prefix) : TarPrefix(prefix)[i] = Dir(SubSeq(prefix, 1, i))
  BY <1>2
<1>4. IsList(TarPrefix(prefix)) /\ DOMAIN TarPrefix(prefix) = 1..Len(prefix)
  <2> DEFINE f == TarPrefix(prefix)
  <2>1. f = [i \in 1..Len(prefix) |-> f[i]]
    BY <1>2
  <2> HIDE DEF f
  <2>2. IsList(f)
    BY <1>1, <2>1, Listed
  <2> QED
    BY <1>2, <2>2 DEF f
<1> QED
  BY <1>3, <1>4, EntriesMade DEF IsArchive

LEMMA OpenImageStep ==
  ASSUME BuildInv, OpenImage
  PROVE  BuildInv'
<1> DEFINE es    == Tars[Now.image]
           entry == [i \in DOMAIN es |-> [do |-> "entry", e |-> es[i], prefix |-> Now.prefix, to |-> Now.to,
                                          resolv |-> Now.resolv]]
           touch == [do |-> "touch", prefix |-> Now.prefix, to |-> Now.to, resolv |-> Now.resolv]
<1>1. At("image")
  BY DEF OpenImage
<1>2. /\ todo # <<>> /\ todo[1].do = "image" /\ Now.do = "image" /\ IsItem(Now)
      /\ \A image \in DOMAIN dup : IsList(dup[image])
      /\ faults \in 0..MaxFaults
  BY <1>1, AtHead
<1>3. IsArchive(es) /\ IsList(Now.prefix)
  BY <1>2, ArchivesAssumption DEF IsItem
<1>4. Placed(entry)
  <2>1. Len(es) \in Nat /\ DOMAIN es = 1..Len(es)
    BY <1>3, ListDomain DEF IsArchive
  <2>2. /\ entry = [i \in 1..Len(es) |-> entry[i]] /\ DOMAIN entry = 1..Len(es)
        /\ \A i \in 1..Len(es) : entry[i] = [do |-> "entry", e |-> es[i], prefix |-> Now.prefix, to |-> Now.to,
                                             resolv |-> Now.resolv]
    BY <2>1
  <2>3. \A i \in 1..Len(es) : IsEntry(es[i])
    BY <1>3, <2>1 DEF IsArchive
  <2> HIDE DEF entry, es
  <2>4. IsList(entry)
    BY <2>1, <2>2, Listed
  <2>5. ASSUME NEW i \in 1..Len(es)
        PROVE  IsItem(entry[i]) /\ entry[i].do \notin Writing /\ ~Runs(entry[i])
    BY <1>2, <1>3, <2>2, <2>3 DEF IsItem, Kinds, Writing, Runs
  <2> QED
    BY <2>2, <2>4, <2>5 DEF Placed, Plain
<1>5. Placed(<<touch>>)
  BY OneItem DEF IsItem, Kinds, Writing, Runs
<1>6. Placed(entry \o <<touch>>)
  <2> HIDE DEF entry, touch
  <2> QED
    BY <1>4, <1>5, MoreItems
<1>7. IsArchive(TarPrefix(Now.prefix)) /\ IsList(TarPrefix(Now.prefix))
  BY <1>3, TarPrefixType DEF IsArchive
<1>8. Emit(TarPrefix(Now.prefix), entry \o <<touch>>) /\ UNCHANGED <<dup, mkimage, builds, faults>>
  BY DEF OpenImage
<1> HIDE DEF entry, touch
<1>9. todo[1].do \notin Writing \cup {"mkimage"}
  BY <1>2 DEF Writing
<1>10. /\ IsList(todo') /\ \A i \in DOMAIN todo' : IsItem(todo'[i])
       /\ ToolInv'
       /\ IsArchive(out') /\ IsFilter(kf') /\ status' \in {status, "failed"}
  BY <1>2, <1>6, <1>7, <1>8, <1>9, Emitted
<1> QED
  BY <1>2, <1>8, <1>10, Assembled

LEMMA ImageEntryStep ==
  ASSUME BuildInv, ImageEntry
  PROVE  BuildInv'
<1> DEFINE e     == Now.e
           moved == [e EXCEPT !.name = Now.prefix \o @,
                              !.link = IF e.type = "link" THEN Now.prefix \o @ ELSE @]
           given == [moved EXCEPT !.body = Default(e.name)]
<1>1. At("entry")
  BY DEF ImageEntry
<1>2. /\ todo # <<>> /\ todo[1].do = "entry" /\ Now.do = "entry" /\ IsItem(Now)
      /\ \A image \in DOMAIN dup : IsList(dup[image])
      /\ faults \in 0..MaxFaults
  BY <1>1, AtHead
<1>3. todo[1].do \notin Writing \cup {"mkimage"}
  BY <1>2 DEF Writing
<1>4. \/ Emit(<<>>, <<>>)
      \/ Emit(<<Symlink(moved.name, Now.resolv)>>, <<>>)
      \/ Fail /\ UNCHANGED <<out, kf>>
      \/ ~WriteFails(e, Now.to) /\ Emit(<<given>>, <<>>)
      \/ Emit(<<moved>>, <<>>)
  BY DEF ImageEntry
<1>5. UNCHANGED <<dup, mkimage, builds, faults>>
  BY DEF ImageEntry
<1>6. IsEntry(e)
  BY <1>2 DEF IsItem
<1>7. IsEntry(moved)
  BY <1>6 DEF IsEntry, HeaderOnly
<1>8. Now.to # "kernel" /\ ~WriteFails(e, Now.to) => IsEntry(given)
  <2>1. Now.to # "kernel" => Now.to = "tar"
    BY <1>2 DEF IsItem
  <2>2. e.type \notin HeaderOnly => IsEntry(given)
    BY <1>6 DEF IsEntry, HeaderOnly
  <2> QED
    BY <2>1, <2>2 DEF WriteFails
<1> DEFINE symlink == Symlink(moved.name, Now.resolv)
<1> HIDE DEF moved, given, e
<1>9. /\ IsList(todo') /\ \A i \in DOMAIN todo' : IsItem(todo'[i])
      /\ ToolInv'
      /\ IsArchive(out') /\ IsFilter(kf') /\ status' \in {status, "failed"}
  <2>1. CASE Emit(<<>>, <<>>)
    BY <1>2, <1>3, <1>5, <2>1, NoItems, Emitted
  <2>2. CASE Emit(<<symlink>>, <<>>)
    <3>1. IsArchive(<<symlink>>) /\ IsList(<<symlink>>)
      BY EntriesMade, ArchiveOfOne DEF IsArchive
    <3> HIDE DEF symlink
    <3> QED
      BY <1>2, <1>3, <1>5, <2>2, <3>1, NoItems, Emitted
  <2>3. CASE Fail /\ UNCHANGED <<out, kf>>
    BY <1>2, <1>3, <1>5, <2>3, Failed
  <2>4. CASE ~WriteFails(e, Now.to) /\ Emit(<<given>>, <<>>)
    <3>1. IsList(<<given>>)
      BY ListIs, <<given>> \in Seq({given})
    <3>2. Now.to # "kernel" => IsArchive(<<given>>)
      BY <1>8, <2>4, ArchiveOfOne
    <3> QED
      BY <1>2, <1>3, <1>5, <2>4, <3>1, <3>2, NoItems, Emitted
  <2>5. CASE Emit(<<moved>>, <<>>)
    <3>1. IsArchive(<<moved>>) /\ IsList(<<moved>>)
      BY <1>7, ArchiveOfOne DEF IsArchive
    <3> QED
      BY <1>2, <1>3, <1>5, <2>5, <3>1, NoItems, Emitted
  <2> QED
    BY <1>4, <2>1, <2>2, <2>3, <2>4, <2>5
<1> QED
  BY <1>2, <1>5, <1>9, Assembled

LEMMA TouchType == IsArchive(Touch)
<1>1. /\ Len(Touch) = 10 /\ DOMAIN Touch = 1..10
      /\ Touch = [i \in 1..10 |-> Touch[i]]
  BY DEF Touch
<1>2. IsList(Touch)
  <2> HIDE DEF Touch
  <2> QED
    BY <1>1, Listed
<1>3. /\ IsEntry(Touch[1]) /\ IsEntry(Touch[2]) /\ IsEntry(Touch[3]) /\ IsEntry(Touch[4]) /\ IsEntry(Touch[5])
      /\ IsEntry(Touch[6]) /\ IsEntry(Touch[7]) /\ IsEntry(Touch[8]) /\ IsEntry(Touch[9]) /\ IsEntry(Touch[10])
  BY EntriesMade DEF Touch
<1>4. ASSUME NEW i \in 1..10
      PROVE  IsEntry(Touch[i])
  <2> HIDE DEF Touch
  <2>1. i \in {1, 2, 3, 4, 5, 6, 7, 8, 9, 10}
    OBVIOUS
  <2> QED
    BY <1>3, <2>1
<1> QED
  BY <1>1, <1>2, <1>4 DEF IsArchive

LEMMA TouchedType ==
  ASSUME NEW prefix, NEW resolv
  PROVE  IsArchive(Touched(prefix, resolv))
<1> DEFINE missing == Matching(Touch, {e \in ToSet(Touch) : Key(e) \notin seen})
           f == [i \in DOMAIN missing |-> [Made(missing[i], resolv) EXCEPT !.name = prefix \o @]]
<1>1. Touched(prefix, resolv) = f
  BY DEF Touched
<1>2. IsList(Touch)
  BY TouchType DEF IsArchive
<1>3. IsList(missing) /\ \A i \in DOMAIN missing : \E k \in DOMAIN Touch : missing[i] = Touch[k]
  BY <1>2, ListMatching
<1> HIDE DEF missing
<1>4. Len(missing) \in Nat /\ DOMAIN missing = 1..Len(missing)
  BY <1>3, ListDomain
<1>5. ASSUME NEW i \in 1..Len(missing)
      PROVE  IsEntry(f[i])
  <2>1. IsEntry(missing[i])
    BY <1>3, <1>4, TouchType DEF IsArchive
  <2> DEFINE e == Made(missing[i], resolv)
  <2>2. IsEntry(e)
    BY <2>1, EntriesMade DEF Made
  <2>3. f[i] = [e EXCEPT !.name = prefix \o @]
    BY <1>4
  <2> HIDE DEF e, f
  <2>4. IsEntry([e EXCEPT !.name = prefix \o @])
    BY <2>2 DEF IsEntry, HeaderOnly
  <2> QED
    BY <2>3, <2>4
<1>6. f = [i \in 1..Len(missing) |-> f[i]] /\ DOMAIN f = 1..Len(missing)
  BY <1>4
<1> HIDE DEF f
<1>7. IsList(f)
  BY <1>4, <1>6, Listed
<1> QED
  BY <1>1, <1>5, <1>6, <1>7 DEF IsArchive

LEMMA TouchFilesStep ==
  ASSUME BuildInv, TouchFiles
  PROVE  BuildInv'
<1>1. At("touch")
  BY DEF TouchFiles
<1>2. /\ todo # <<>> /\ todo[1].do = "touch"
      /\ \A image \in DOMAIN dup : IsList(dup[image])
      /\ faults \in 0..MaxFaults
  BY <1>1, AtHead
<1>3. todo[1].do \notin Writing \cup {"mkimage"}
  BY <1>2 DEF Writing
<1> DEFINE es == Touched(Now.prefix, Now.resolv)
<1>4. IsArchive(es) /\ IsList(es)
  BY TouchedType DEF IsArchive
<1>5. Emit(es, <<>>) /\ UNCHANGED <<dup, mkimage, builds, faults>>
  BY DEF TouchFiles
<1> HIDE DEF es
<1>6. /\ IsList(todo') /\ \A i \in DOMAIN todo' : IsItem(todo'[i])
      /\ ToolInv'
      /\ IsArchive(out') /\ IsFilter(kf') /\ status' \in {status, "failed"}
  BY <1>2, <1>3, <1>4, <1>5, NoItems, Emitted
<1> QED
  BY <1>2, <1>5, <1>6, Assembled

LEMMA CloseKernelStep ==
  ASSUME BuildInv, CloseKernel
  PROVE  BuildInv'
<1> DEFINE k == FinishTar([kf EXCEPT !.out = out])
<1>1. At("close")
  BY DEF CloseKernel
<1>2. /\ todo # <<>> /\ todo[1].do = "close"
      /\ \A image \in DOMAIN dup : IsList(dup[image])
      /\ faults \in 0..MaxFaults
  BY <1>1, AtHead
<1>3. todo[1].do \notin Writing \cup {"mkimage"}
  BY <1>2 DEF Writing
<1>4. IsFilter([kf EXCEPT !.out = out])
  BY DEF BuildInv, BuildType, IsFilter
<1>5. IsFilter(k)
  BY <1>4, FinishTarType
<1> HIDE DEF k
<1>6. IsFilter(Filter)
  BY EmptyList DEF Filter, IsFilter, IsArchive
<1>7. /\ \/ Fail /\ UNCHANGED out
         \/ out' = k.out /\ Then(<<>>) /\ status' = status
      /\ kf' = Filter /\ UNCHANGED <<dup, mkimage, builds, faults>>
  BY DEF CloseKernel, k
<1>8. IsArchive(out') /\ status' \in {status, "failed"}
  BY <1>5, <1>7 DEF IsFilter, Fail, BuildInv, BuildType
<1>9. IsList(todo') /\ (\A i \in DOMAIN todo' : IsItem(todo'[i])) /\ ToolInv'
  <2>1. todo' = <<>> \o Tail(todo) \/ todo' = <<>>
    BY <1>7 DEF Fail, Then
  <2> QED
    BY <1>2, <1>3, <1>7, <2>1, NoItems, ItemsPlaced
<1>10. IsFilter(kf')
  BY <1>6, <1>7
<1> QED
  BY <1>2, <1>7, <1>8, <1>9, <1>10, Assembled

LEMMA OutputImageStep ==
  ASSUME BuildInv, OutputImage
  PROVE  BuildInv'
<1> DEFINE spec  == ConfigToOCI(Labels[Now.image], Now.yaml, Ids(cfg))
           found == Now.image \in DOMAIN dup
           root  == RootOf(Now.path, Now.image, spec.readonly)
           item  == [do |-> "bundle", to |-> "tar", image |-> Now.image, path |-> Now.path,
                     found |-> found, root |-> root]
           unpack == ImageTar(Now.image, root, "tar", None)
<1>1. At("container")
  BY DEF OutputImage
<1>2. /\ todo # <<>> /\ todo[1].do = "container" /\ Now.do = "container" /\ IsItem(Now)
      /\ \A image \in DOMAIN dup : IsList(dup[image])
      /\ faults \in 0..MaxFaults
  BY <1>1, AtHead
<1>3. todo[1].do \notin Writing \cup {"mkimage"}
  BY <1>2 DEF Writing
<1>4. /\ \/ Fail /\ UNCHANGED <<out, kf>>
         \/ Emit(TarPrefix(Now.path), <<item>>)
         \/ Emit(<<>>, <<unpack, item>>)
      /\ UNCHANGED <<dup, mkimage, builds, faults>>
  BY DEF OutputImage
<1>5. IsList(Now.path) /\ Now.image \in DOMAIN Tars
  BY <1>2 DEF IsItem
<1>6. IsList(root)
  <2> HIDE DEF spec
  <2>1. \/ root = dup[Now.image] /\ Now.image \in DOMAIN dup
        \/ root = Append(Now.path, "rootfs")
        \/ root = Append(Now.path, "lower")
    BY DEF RootOf
  <2> HIDE DEF root
  <2> QED
    BY <1>2, <1>5, <2>1, ListAppend
<1> HIDE DEF root, found, spec
<1>7. Placed(<<item>>)
  BY <1>5, <1>6, OneItem DEF IsItem, Kinds, Writing, Runs
<1>8. Placed(<<unpack>>)
  BY <1>5, <1>6, OneItem DEF IsItem, Kinds, Writing, Runs, ImageTar
<1> HIDE DEF item, unpack
<1>9. Placed(<<unpack, item>>)
  <2>1. <<unpack>> \o <<item>> = <<unpack, item>>
    BY OneAndOne
  <2> QED
    BY <1>7, <1>8, <2>1, MoreItems
<1>10. IsArchive(TarPrefix(Now.path)) /\ IsList(TarPrefix(Now.path))
  BY <1>5, TarPrefixType DEF IsArchive
<1>11. /\ IsList(todo') /\ \A i \in DOMAIN todo' : IsItem(todo'[i])
       /\ ToolInv'
       /\ IsArchive(out') /\ IsFilter(kf') /\ status' \in {status, "failed"}
  <2>1. CASE Fail /\ UNCHANGED <<out, kf>>
    BY <1>2, <1>3, <1>4, <2>1, Failed
  <2>2. CASE Emit(TarPrefix(Now.path), <<item>>)
    BY <1>2, <1>3, <1>4, <1>7, <1>10, <2>2, Emitted
  <2>3. CASE Emit(<<>>, <<unpack, item>>)
    BY <1>2, <1>3, <1>4, <1>9, <2>3, NoItems, Emitted
  <2> QED
    BY <1>4, <2>1, <2>2, <2>3
<1> QED
  BY <1>2, <1>4, <1>11, Assembled

LEMMA ImageBundleStep ==
  ASSUME BuildInv, ImageBundle
  PROVE  BuildInv'
<1> DEFINE in(f)    == Append(Now.path, f)
           points(readonly) ==
             CASE ~readonly -> <<Dir(in("tmp")), Dir(in("rootfs"))>>
               [] readonly /\ Now.found -> <<Dir(in("rootfs"))>>
               [] OTHER -> <<>>
           config  == <<Reg(in("config.json"), None)>>
           runtime == <<Reg(in("runtime.json"), Now.root)>>
           es == config \o points(bundles[Now.path].readonly) \o runtime
<1>1. At("bundle")
  BY DEF ImageBundle
<1>2. /\ todo # <<>> /\ todo[1].do = "bundle" /\ Now.do = "bundle" /\ IsItem(Now)
      /\ \A image \in DOMAIN dup : IsList(dup[image])
      /\ faults \in 0..MaxFaults
  BY <1>1, AtHead
<1>3. todo[1].do \notin Writing \cup {"mkimage"}
  BY <1>2 DEF Writing
<1>4. /\ Emit(es, <<>>)
      /\ dup' = IF Now.found THEN dup
                ELSE [image \in DOMAIN dup \cup {Now.image} |->
                        IF image = Now.image THEN Now.root ELSE dup[image]]
      /\ UNCHANGED <<mkimage, builds, faults>>
  BY DEF ImageBundle
<1>5. IsArchive(config) /\ IsArchive(runtime)
  BY EntriesMade, ArchiveOfOne
<1>6. \A readonly : IsArchive(points(readonly))
  <2> SUFFICES ASSUME NEW readonly PROVE IsArchive(points(readonly))
    OBVIOUS
  <2> DEFINE tmp == Dir(in("tmp"))
             rootfs == Dir(in("rootfs"))
  <2>1. IsArchive(<<tmp>>) /\ IsArchive(<<rootfs>>)
    BY EntriesMade, ArchiveOfOne
  <2>2. points(readonly) \in {<<tmp, rootfs>>, <<rootfs>>, <<>>}
    OBVIOUS
  <2> HIDE DEF tmp, rootfs
  <2>3. IsArchive(<<tmp, rootfs>>)
    <3>1. <<tmp>> \o <<rootfs>> = <<tmp, rootfs>>
      BY OneAndOne
    <3> QED
      BY <2>1, <3>1, ArchiveConcat
  <2> HIDE DEF points
  <2> QED
    BY <2>1, <2>2, <2>3, NoItems
<1>7. IsArchive(es) /\ IsList(es)
  <2> HIDE DEF points, config, runtime
  <2>1. IsArchive(es)
    BY <1>5, <1>6, ArchiveConcat
  <2> QED
    BY <2>1 DEF IsArchive
<1> HIDE DEF es
<1>8. \A image \in DOMAIN dup' : IsList(dup'[image])
  <2>1. IsList(Now.root)
    BY <1>2 DEF IsItem
  <2>2. CASE dup' = dup
    BY <1>2, <2>2
  <2>3. CASE dup' = [image \in DOMAIN dup \cup {Now.image} |->
                       IF image = Now.image THEN Now.root ELSE dup[image]]
    BY <1>2, <2>1, <2>3
  <2> QED
    BY <1>4, <2>2, <2>3
<1>9. /\ IsList(todo') /\ \A i \in DOMAIN todo' : IsItem(todo'[i])
      /\ ToolInv'
      /\ IsArchive(out') /\ IsFilter(kf') /\ status' \in {status, "failed"}
  BY <1>2, <1>3, <1>4, <1>7, NoItems, Emitted
<1> QED
  BY <1>2, <1>4, <1>8, <1>9, Assembled

LEMMA AdditionStep ==
  ASSUME BuildInv, Addition
  PROVE  BuildInv'
<1> DEFINE es == <<Reg(<<"Dockerfile">>, <<"dockerfile">>)>>
<1>1. At("addition")
  BY DEF Addition
<1>2. /\ todo # <<>> /\ todo[1].do = "addition"
      /\ \A image \in DOMAIN dup : IsList(dup[image])
      /\ faults \in 0..MaxFaults
  BY <1>1, AtHead
<1>3. todo[1].do \notin Writing \cup {"mkimage"}
  BY <1>2 DEF Writing
<1>4. IsArchive(es) /\ IsList(es)
  BY EntriesMade, ArchiveOfOne DEF IsArchive
<1>5. Emit(es, <<>>) /\ UNCHANGED <<dup, mkimage, builds, faults>>
  BY DEF Addition
<1> HIDE DEF es
<1>6. /\ IsList(todo') /\ \A i \in DOMAIN todo' : IsItem(todo'[i])
      /\ ToolInv'
      /\ IsArchive(out') /\ IsFilter(kf') /\ status' \in {status, "failed"}
  BY <1>2, <1>3, <1>4, <1>5, NoItems, Emitted
<1> QED
  BY <1>2, <1>5, <1>6, Assembled

LEMMA LeadingType ==
  ASSUME NEW path, IsList(path)
  PROVE  IsList(Leading(path))
<1> DEFINE n == IF Len(path) = 0 THEN 0 ELSE Len(path) - 1
           f == [i \in 1..(Len(path) - 1) |-> SubSeq(path, 1, i)]
<1>1. n \in Nat /\ 1..(Len(path) - 1) = 1..n
  BY ListDomain
<1>2. f = [i \in 1..n |-> f[i]]
  BY <1>1
<1>3. IsList(f)
  <2> HIDE DEF f, n
  <2> QED
    BY <1>1, <1>2, Listed
<1> QED
  BY <1>3 DEF Leading

LEMMA AddFileStep ==
  ASSUME BuildInv, AddFile
  PROVE  BuildInv'
<1> DEFINE f    == Now.f
           path == IF f.path[1] = "" THEN Tail(f.path) ELSE f.path
           dirs == Matching(Leading(path), ToSet(Leading(path)) \ added)
           uid  == IdNumeric(f.uid, Ids(cfg))
           file == CASE "directory" \in f.given -> Dir(path)
                     [] f.given \cap {"directory", "symlink"} = {"symlink"} -> Symlink(path, f.link)
                     [] OTHER -> Reg(path, f.body)
           above == [i \in DOMAIN dirs |-> [Dir(dirs[i]) EXCEPT !.uid = uid]]
           owned == [file EXCEPT !.uid = uid]
<1>1. At("file")
  BY ZenonT(60) DEF AddFile
<1>2. /\ todo # <<>> /\ todo[1].do = "file" /\ Now.do = "file" /\ IsItem(Now)
      /\ \A image \in DOMAIN dup : IsList(dup[image])
      /\ faults \in 0..MaxFaults
  BY <1>1, AtHead
<1>3. todo[1].do \notin Writing \cup {"mkimage"}
  BY <1>2 DEF Writing
<1>4. /\ \/ Fail /\ UNCHANGED <<out, kf>>
         \/ Emit(<<>>, <<>>)
         \/ Emit(above \o <<owned>>, <<>>)
      /\ UNCHANGED <<dup, mkimage, builds, faults>>
  BY ZenonT(60) DEF AddFile
<1>5. IsEntry(owned)
  <2>1. IsEntry(file)
    BY EntriesMade
  <2> HIDE DEF file
  <2> QED
    BY <2>1 DEF IsEntry, HeaderOnly
<1> HIDE DEF owned
<1>6. IsList(path)
  <2>1. IsList(f.path) /\ f.path # <<>>
    BY <1>2 DEF IsItem
  <2>2. IsList(Tail(f.path))
    BY <2>1, ListTail
  <2> QED
    BY <2>1, <2>2
<1> HIDE DEF path, f, uid
<1>7. IsList(dirs)
  <2>1. IsList(Leading(path))
    BY <1>6, LeadingType
  <2> QED
    BY <2>1, ListMatching
<1> HIDE DEF dirs
<1>8. IsArchive(above)
  <2>1. Len(dirs) \in Nat /\ DOMAIN dirs = 1..Len(dirs)
    BY <1>7, ListDomain
  <2>2. /\ above = [i \in 1..Len(dirs) |-> above[i]] /\ DOMAIN above = 1..Len(dirs)
        /\ \A i \in 1..Len(dirs) : above[i] = [Dir(dirs[i]) EXCEPT !.uid = uid]
    BY <2>1
  <2> HIDE DEF above
  <2>3. IsList(above)
    BY <2>1, <2>2, Listed
  <2>4. ASSUME NEW i \in 1..Len(dirs)
        PROVE  IsEntry(above[i])
    <3> DEFINE d == Dir(dirs[i])
    <3>1. IsEntry(d) /\ above[i] = [d EXCEPT !.uid = uid]
      BY <2>2, EntriesMade
    <3> HIDE DEF d
    <3>2. IsEntry([d EXCEPT !.uid = uid])
      BY <3>1 DEF IsEntry, HeaderOnly
    <3> QED
      BY <3>1, <3>2
  <2> QED
    BY <2>2, <2>3, <2>4 DEF IsArchive
<1> HIDE DEF above
<1> DEFINE es == above \o <<owned>>
<1>9. IsArchive(es) /\ IsList(es)
  <2>1. IsArchive(es)
    BY <1>5, <1>8, ArchiveOfOne, ArchiveConcat
  <2> QED
    BY <2>1 DEF IsArchive
<1>10. /\ IsList(todo') /\ \A i \in DOMAIN todo' : IsItem(todo'[i])
       /\ ToolInv'
       /\ IsArchive(out') /\ IsFilter(kf') /\ status' \in {status, "failed"}
  <2> HIDE DEF es
  <2>1. CASE Fail /\ UNCHANGED <<out, kf>>
    BY <1>2, <1>3, <1>4, <2>1, Failed
  <2>2. CASE Emit(<<>>, <<>>)
    BY <1>2, <1>3, <1>4, <2>2, NoItems, Emitted
  <2>3. CASE Emit(es, <<>>)
    BY <1>2, <1>3, <1>4, <1>9, <2>3, NoItems, Emitted
  <2> QED
    BY <1>4, <2>1, <2>2, <2>3 DEF es
<1> QED
  BY <1>2, <1>4, <1>10, Assembled

(***************************************************************************)
(* Output formats and the files of the tool                                *)
(***************************************************************************)
LEMMA WritesPlaced ==
  ASSUME NEW o, NEW s, NEW may, o \in NeedsMkimage => may
  PROVE  Plain(Writes(o, s), may)
<1>1. \A file : Plain(<<Write(file, o)>>, may)
  <2> SUFFICES ASSUME NEW file PROVE Plain(<<Write(file, o)>>, may)
    OBVIOUS
  <2> DEFINE t == Write(file, o)
  <2>1. IsItem(t) /\ t.do \notin Writing /\ (Runs(t) => may)
    BY DEF Write, IsItem, Kinds, Writing, Runs
  <2> HIDE DEF t
  <2>2. Plain(<<t>>, may)
    BY <2>1, OnePlain
  <2> QED
    BY <2>2 DEF t
<1>2. \A file, file2 : Plain(<<Write(file, o), Write(file2, o)>>, may)
  <2> SUFFICES ASSUME NEW file, NEW file2 PROVE Plain(<<Write(file, o), Write(file2, o)>>, may)
    OBVIOUS
  <2> DEFINE t == Write(file, o)
             u == Write(file2, o)
  <2>1. Plain(<<t>>, may) /\ Plain(<<u>>, may)
    BY <1>1
  <2> HIDE DEF t, u
  <2>2. Plain(<<t, u>>, may)
    BY <2>1, OneAndOne, MorePlain
  <2> QED
    BY <2>2 DEF t, u
<1>3. CASE o = "kernel+initrd"
  <2> DEFINE i == <<Write("-initrd.cpio.gz", o)>>
             k == IF s.kernel # None THEN <<Write("-kernel", o)>> ELSE <<>>
             c == IF s.cmdline # None THEN <<Write("-cmdline", o)>> ELSE <<>>
  <2>1. Writes(o, s) = i \o k \o c
    BY <1>3 DEF Writes, KernelFS
  <2>2. Plain(i, may) /\ Plain(k, may) /\ Plain(c, may)
    BY <1>1, NoPlain
  <2> HIDE DEF i, k, c
  <2>3. Plain(i \o k \o c, may)
    BY <2>2, MorePlain
  <2> QED
    BY <2>1, <2>3
<1>4. CASE o # "kernel+initrd" /\ o \in KernelFS
  <2> DEFINE k == IF s.kernel # None THEN <<Write("-cmdline", o), Write("-kernel", o)>> ELSE <<>>
             f == <<Write(Suffix[o], o)>>
  <2>1. Writes(o, s) = k \o f
    <3>1. Writes(o, s) = WithKernel(o, s)
      BY <1>4 DEF Writes
    <3> QED
      BY <3>1 DEF WithKernel
  <2>2. Plain(k, may) /\ Plain(f, may)
    BY <1>1, <1>2, NoPlain
  <2> HIDE DEF k, f
  <2>3. Plain(k \o f, may)
    BY <2>2, MorePlain
  <2> QED
    BY <2>1, <2>3
<1>5. CASE o # "kernel+initrd" /\ o \notin KernelFS
  <2>1. Writes(o, s) = <<Write(Suffix[o], o)>>
    BY <1>5 DEF Writes
  <2> QED
    BY <1>1, <2>1
<1> QED
  BY <1>3, <1>4, <1>5

LEMMA OutputFormatStep ==
  ASSUME BuildInv, OutputFormat
  PROVE  BuildInv'
<1> DEFINE items == Writes(Now.o, SplitTar)
<1>1. At("format")
  BY DEF OutputFormat
<1>2. /\ todo # <<>> /\ todo[1].do = "format" /\ Now = todo[1]
      /\ \A image \in DOMAIN dup : IsList(dup[image])
      /\ faults \in 0..MaxFaults
  BY <1>1, AtHead
<1>3. todo[1].do \notin Writing \cup {"mkimage"}
  BY <1>2 DEF Writing
<1>4. Placed(items)
  <2>1. Now.o \in NeedsMkimage => Runs(todo[1])
    BY <1>2 DEF Runs
  <2> QED
    BY <2>1, WritesPlaced DEF Placed
<1>5. todo' = items \o Tail(todo) /\ UNCHANGED <<out, kf, dup, mkimage, status, builds, faults>>
  BY DEF OutputFormat, Then
<1> HIDE DEF items
<1>6. IsList(todo') /\ (\A i \in DOMAIN todo' : IsItem(todo'[i])) /\ ToolInv'
  BY <1>2, <1>3, <1>4, <1>5, ItemsPlaced
<1>7. IsArchive(out') /\ IsFilter(kf')
  BY <1>5 DEF BuildInv, BuildType
<1> QED
  BY <1>2, <1>5, <1>6, <1>7, Assembled

LEMMA WriteOutputStep ==
  ASSUME BuildInv, WriteOutput
  PROVE  BuildInv'
<1>1. At("write")
  BY DEF WriteOutput
<1>2. /\ todo # <<>> /\ todo[1].do = "write"
      /\ \A image \in DOMAIN dup : IsList(dup[image])
      /\ faults \in 0..MaxFaults
  BY <1>1, AtHead
<1>3. todo[1].do \notin Writing \cup {"mkimage"}
  BY <1>2 DEF Writing
<1>4. todo' = <<>> \o Tail(todo) /\ UNCHANGED <<out, kf, dup, mkimage, status, builds, faults>>
  BY DEF WriteOutput, Then
<1>5. IsList(todo') /\ (\A i \in DOMAIN todo' : IsItem(todo'[i])) /\ ToolInv'
  BY <1>2, <1>3, <1>4, NoItems, ItemsPlaced
<1>6. IsArchive(out') /\ IsFilter(kf')
  BY <1>4 DEF BuildInv, BuildType
<1> QED
  BY <1>2, <1>4, <1>5, <1>6, Assembled

LEMMA WritePartsIs ==
  /\ IsList(WriteParts) /\ Len(WriteParts) = 6 /\ DOMAIN WriteParts = 1..6
  /\ WriteParts[1] = Create("kernel") /\ WriteParts[2] = Fill("kernel")
  /\ WriteParts[3] = Create("initrd") /\ WriteParts[4] = Fill("initrd")
  /\ WriteParts[5] = Create("cmdline") /\ WriteParts[6] = Fill("cmdline")
  /\ \A i \in 1..6 : IsItem(WriteParts[i]) /\ WriteParts[i].do \in Writing /\ ~Runs(WriteParts[i])
<1>1. /\ Len(WriteParts) = 6 /\ DOMAIN WriteParts = 1..6
      /\ WriteParts = [i \in 1..6 |-> WriteParts[i]]
  BY DEF WriteParts
<1>2. IsList(WriteParts)
  <2> HIDE DEF WriteParts
  <2> QED
    BY <1>1, Listed
<1>3. /\ WriteParts[1] = Create("kernel") /\ WriteParts[2] = Fill("kernel")
      /\ WriteParts[3] = Create("initrd") /\ WriteParts[4] = Fill("initrd")
      /\ WriteParts[5] = Create("cmdline") /\ WriteParts[6] = Fill("cmdline")
  BY DEF WriteParts
<1>4. ASSUME NEW part \in MkimageParts
      PROVE  /\ IsItem(Create(part)) /\ Create(part).do \in Writing /\ ~Runs(Create(part))
             /\ IsItem(Fill(part)) /\ Fill(part).do \in Writing /\ ~Runs(Fill(part))
  BY DEF IsItem, Create, Fill, Kinds, Writing, Runs
<1>5. ASSUME NEW i \in 1..6
      PROVE  IsItem(WriteParts[i]) /\ WriteParts[i].do \in Writing /\ ~Runs(WriteParts[i])
  <2>1. i \in {1, 2, 3, 4, 5, 6}
    OBVIOUS
  <2>2. "kernel" \in MkimageParts /\ "initrd" \in MkimageParts /\ "cmdline" \in MkimageParts
    BY DEF MkimageParts
  <2> HIDE DEF WriteParts
  <2> QED
    BY <1>3, <1>4, <2>1, <2>2
<1> QED
  BY <1>1, <1>2, <1>3, <1>5

LEMMA EnsureMkimageStep ==
  ASSUME BuildInv, EnsureMkimage
  PROVE  BuildInv'
<1> DEFINE items == IF \A part \in MkimageParts : mkimage[part] # "none" THEN <<>> ELSE WriteParts
           n == Len(items)
<1>1. At("mkimage")
  BY DEF EnsureMkimage
<1>2. /\ todo # <<>> /\ todo[1].do = "mkimage"
      /\ \A image \in DOMAIN dup : IsList(dup[image])
      /\ faults \in 0..MaxFaults
  BY <1>1, AtHead
<1>3. todo' = items \o Tail(todo) /\ UNCHANGED <<out, kf, dup, mkimage, status, builds, faults>>
  BY DEF EnsureMkimage, Then
<1>4. IsList(items) /\ IsList(todo)
  BY WritePartsIs, EmptyList DEF BuildInv, BuildType
<1>5. /\ \A i \in DOMAIN todo : IsItem(todo[i]) /\ todo[i].do \notin Writing
      /\ mkimage["cmdline"] # "none" => mkimage["kernel"] = "good" /\ mkimage["initrd"] = "good"
  BY <1>2, ToolAtHead DEF BuildInv, BuildType, ToolInv, Writing
<1> HIDE DEF items
<1>6. /\ IsList(todo') /\ Len(todo') = n + Len(todo) - 1
      /\ DOMAIN todo' = 1..(n + Len(todo) - 1)
      /\ n \in Nat /\ Len(todo) \in Nat \ {0}
      /\ DOMAIN items = 1..n /\ DOMAIN todo = 1..Len(todo)
  BY <1>2, <1>3, <1>4, ListInPlace
<1>7. \A k \in 1..n : todo'[k] = items[k]
  BY <1>2, <1>3, <1>4, ListInPlace
<1>8. ASSUME NEW i \in DOMAIN todo', i > n
      PROVE  IsItem(todo'[i]) /\ todo'[i].do \notin Writing
  <2>1. \A k \in 1..(n + Len(todo) - 1) :
          \/ k \in 1..n /\ todo'[k] = items[k]
          \/ k > n /\ k - n + 1 \in 2..Len(todo) /\ todo'[k] = todo[k - n + 1]
    BY <1>2, <1>3, <1>4, ListInPlace
  <2>2. i - n + 1 \in DOMAIN todo /\ todo'[i] = todo[i - n + 1]
    BY <1>6, <1>8, <2>1
  <2> QED
    BY <1>5, <2>2
<1>9. CASE \A part \in MkimageParts : mkimage[part] # "none"
  <2>1. n = 0
    BY <1>9, EmptyList DEF items
  <2> HIDE DEF n
  <2>2. mkimage["cmdline"] # "none"
    BY <1>9 DEF MkimageParts
  <2>3. \A i \in DOMAIN todo' : IsItem(todo'[i]) /\ todo'[i].do \notin Writing
    BY <1>6, <1>8, <2>1
  <2>4. Left(6)' /\ Stage(6)'
    BY <1>6, <2>1, <2>3 DEF Left, Stage
  <2>5. ToolInv'
    BY <1>3, <1>5, <2>2, <2>4 DEF ToolInv
  <2> QED
    BY <1>2, <1>3, <1>6, <2>3, <2>5, Assembled DEF BuildInv, BuildType
<1>10. CASE ~\A part \in MkimageParts : mkimage[part] # "none"
  <2>1. items = WriteParts
    BY <1>10 DEF items
  <2>2. n = 6
    BY <2>1, WritePartsIs
  <2> HIDE DEF n
  <2>3. mkimage["cmdline"] = "none"
    BY <1>5, <1>10 DEF MkimageParts
  <2>4. \A i \in 1..6 : todo'[i] = WriteParts[i]
    BY <1>7, <2>1, <2>2
  <2>5. \A i \in DOMAIN todo' : i > 6 => IsItem(todo'[i]) /\ todo'[i].do \notin Writing
    BY <1>8, <2>2
  <2>6. \A i \in DOMAIN todo' : i <= 6 => i \in 1..6
    BY <1>6
  <2>7. \A i \in DOMAIN todo' : IsItem(todo'[i])
    <3>1. \A i \in DOMAIN todo' : i > 6 \/ i <= 6
      BY <1>6, <2>2
    <3> QED
      BY <2>4, <2>5, <2>6, <3>1, WritePartsIs
  <2>8. Left(0)'
    <3>1. Len(todo') >= 6
      BY <1>6, <2>2
    <3>2. ASSUME NEW i \in DOMAIN todo'
          PROVE  todo'[i].do \in Writing <=> i <= 6
      <4>1. i > 6 \/ i <= 6
        BY <1>6
      <4>2. i <= 6 => todo'[i].do \in Writing
        BY <2>4, <2>6, WritePartsIs
      <4>3. i > 6 => todo'[i].do \notin Writing /\ ~(i <= 6)
        BY <1>6, <2>5
      <4> QED
        BY <4>1, <4>2, <4>3
    <3>3. \A i \in 1..6 : 0 + i = i
      OBVIOUS
    <3>4. \A i \in 1..6 : todo'[i] = WriteParts[0 + i]
      BY <2>4, <3>3
    <3>5. 6 - 0 = 6
      OBVIOUS
    <3> HIDE DEF WriteParts
    <3> QED
      BY <3>1, <3>2, <3>4, <3>5 DEF Left
  <2>9. Stage(0)'
    BY <1>3, <2>3 DEF Stage
  <2>10. ASSUME NEW i \in DOMAIN todo', Runs(todo'[i])
         PROVE  \E j \in 1..(i - 1) : Provides(todo'[j])
    <3>1. i > 6
      <4>1. ~(i <= 6)
        BY <2>4, <2>6, <2>10, WritePartsIs
      <4> QED
        BY <1>6, <4>1
    <3>2. Provides(todo'[5])
      <4>1. todo'[5] = Create("cmdline")
        BY <2>4, WritePartsIs
      <4> QED
        BY <4>1 DEF Provides, Create
    <3> QED
      BY <1>6, <3>1, <3>2
  <2>11. ToolInv'
    BY <1>3, <1>5, <2>8, <2>9, <2>10 DEF ToolInv
  <2> QED
    BY <1>2, <1>3, <1>6, <2>7, <2>11, Assembled DEF BuildInv, BuildType
<1> QED
  BY <1>9, <1>10

LEMMA WriteMkimageStep ==
  ASSUME BuildInv, WriteMkimage
  PROVE  BuildInv'
<1>1. PICK what \in Writing : At(what)
  BY DEF WriteMkimage, Writing
<1>2. /\ todo # <<>> /\ todo[1].do \in Writing /\ Now = todo[1] /\ 1 \in DOMAIN todo
      /\ \A image \in DOMAIN dup : IsList(dup[image])
      /\ faults \in 0..MaxFaults
  BY <1>1, AtHead
<1>3. /\ todo' = <<>> \o Tail(todo)
      /\ mkimage' = [mkimage EXCEPT ![todo[1].part] = IF todo[1].do = "create" THEN "torn" ELSE "good"]
      /\ UNCHANGED <<out, kf, dup, status, builds, faults>>
  <2>1. At("create") <=> todo[1].do = "create"
    BY <1>1, <1>2 DEF At, Now
  <2> QED
    BY <1>2, <2>1 DEF WriteMkimage, Then
<1>4. IsList(<<>>) /\ IsList(todo) /\ Len(<<>>) = 0
  BY EmptyList DEF BuildInv, BuildType
<1>5. /\ IsList(todo') /\ Len(todo') = Len(todo) - 1
      /\ DOMAIN todo' = 1..(Len(todo) - 1)
      /\ Len(todo) \in Nat \ {0} /\ DOMAIN todo = 1..Len(todo)
  <2>1. /\ IsList(todo') /\ Len(todo') = Len(<<>>) + Len(todo) - 1
        /\ DOMAIN todo' = 1..(Len(<<>>) + Len(todo) - 1)
        /\ Len(todo) \in Nat \ {0} /\ DOMAIN todo = 1..Len(todo)
    BY <1>2, <1>3, <1>4, ListInPlace
  <2> QED
    BY <1>4, <2>1
<1>6. \A i \in DOMAIN todo' : i + 1 \in DOMAIN todo /\ todo'[i] = todo[i + 1]
  <2>1. \A k \in 2..Len(todo) : todo'[Len(<<>>) + k - 1] = todo[k]
    BY <1>2, <1>3, <1>4, ListInPlace
  <2>2. ASSUME NEW i \in DOMAIN todo'
        PROVE  i + 1 \in DOMAIN todo /\ todo'[i] = todo[i + 1]
    <3> DEFINE k == i + 1
    <3>1. k \in 2..Len(todo) /\ Len(<<>>) + k - 1 = i
      BY <1>4, <1>5
    <3> HIDE DEF k
    <3>2. todo'[i] = todo[k] /\ k \in DOMAIN todo
      BY <1>5, <2>1, <3>1
    <3> QED
      BY <3>2 DEF k
  <2> QED
    BY <2>2
<1>7. PICK k \in 0..6 : Left(k) /\ Stage(k)
  BY DEF BuildInv, ToolInv
<1>8. k \in 0..5 /\ todo[1] = WriteParts[k + 1]
  <2>1. 1 <= 6 - k
    BY <1>2, <1>7 DEF Left
  <2>2. 1 \in 1..(6 - k)
    BY <2>1
  <2> QED
    BY <1>7, <2>1, <2>2 DEF Left
<1>9. \A i \in DOMAIN todo' : IsItem(todo'[i])
  BY <1>6 DEF BuildInv, BuildType
<1>10. Left(k + 1)'
  <2>1. Len(todo') >= 6 - (k + 1)
    BY <1>5, <1>7, <1>8 DEF Left
  <2>2. \A i \in DOMAIN todo' : todo'[i].do \in Writing <=> i <= 6 - (k + 1)
    <3>1. \A i \in DOMAIN todo : todo[i].do \in Writing <=> i <= 6 - k
      BY <1>7 DEF Left
    <3> SUFFICES ASSUME NEW i \in DOMAIN todo'
                 PROVE  todo'[i].do \in Writing <=> i <= 6 - (k + 1)
      OBVIOUS
    <3>2. todo'[i].do \in Writing <=> i + 1 <= 6 - k
      BY <1>6, <3>1
    <3> QED
      BY <1>5, <1>8, <3>2
  <2>3. \A i \in 1..(6 - (k + 1)) : todo'[i] = WriteParts[(k + 1) + i]
    <3> SUFFICES ASSUME NEW i \in 1..(6 - (k + 1))
                 PROVE  todo'[i] = WriteParts[(k + 1) + i]
      OBVIOUS
    <3>1. i + 1 \in 1..(6 - k) /\ k + (i + 1) = (k + 1) + i
      BY <1>8
    <3>2. \A j \in 1..(6 - k) : todo[j] = WriteParts[k + j]
      BY <1>7 DEF Left
    <3> DEFINE l == i + 1
    <3>3. l \in 1..(6 - k)
      BY <3>1
    <3>4. i \in DOMAIN todo'
      BY <1>5, <1>8, <2>1
    <3>5. todo'[i] = todo[l]
      BY <1>6, <3>4
    <3> HIDE DEF l
    <3>6. todo[l] = WriteParts[k + l]
      BY <3>2, <3>3
    <3> QED
      BY <3>1, <3>5, <3>6 DEF l
  <2> QED
    BY <2>1, <2>2, <2>3 DEF Left
<1>11. mkimage \in [MkimageParts -> {"none", "torn", "good"}] /\ MkimageParts = {"kernel", "initrd", "cmdline"}
  BY DEF BuildInv, BuildType, MkimageParts
<1>12. \/ k = 0 /\ todo[1] = Create("kernel")
       \/ k = 1 /\ todo[1] = Fill("kernel")
       \/ k = 2 /\ todo[1] = Create("initrd")
       \/ k = 3 /\ todo[1] = Fill("initrd")
       \/ k = 4 /\ todo[1] = Create("cmdline")
       \/ k = 5 /\ todo[1] = Fill("cmdline")
  <2>1. k \in {0, 1, 2, 3, 4, 5}
    BY <1>8
  <2> QED
    BY <1>8, <2>1, WritePartsIs
<1>13. Stage(k + 1)'
  BY <1>3, <1>7, <1>11, <1>12 DEF Stage, Create, Fill
<1>14. mkimage'["cmdline"] # "none" => mkimage'["kernel"] = "good" /\ mkimage'["initrd"] = "good"
  BY <1>3, <1>7, <1>11, <1>12 DEF Stage, Create, Fill
<1>15. ASSUME mkimage'["cmdline"] = "none"
       PROVE  k \in 0..3 /\ mkimage["cmdline"] = "none" /\ ~Provides(todo[1])
  BY <1>3, <1>7, <1>11, <1>12, <1>15 DEF Stage, Create, Fill, Provides
<1>16. ASSUME mkimage'["cmdline"] = "none", NEW i \in DOMAIN todo', Runs(todo'[i])
       PROVE  \E j \in 1..(i - 1) : Provides(todo'[j])
  <2> DEFINE l == i + 1
  <2>1. l \in DOMAIN todo /\ Runs(todo[l]) /\ l - 1 = i
    BY <1>5, <1>6, <1>16
  <2> HIDE DEF l
  <2>2. \A m \in DOMAIN todo : Runs(todo[m]) => \E j \in 1..(m - 1) : Provides(todo[j])
    BY <1>15, <1>16 DEF BuildInv, ToolInv
  <2>3. PICK j \in 1..(l - 1) : Provides(todo[j])
    BY <2>1, <2>2
  <2>4. j # 1
    BY <1>15, <1>16, <2>3
  <2> DEFINE h == j - 1
  <2>5. h \in 1..(i - 1) /\ h \in DOMAIN todo' /\ h + 1 = j
    BY <1>5, <2>1, <2>3, <2>4
  <2> HIDE DEF h
  <2>6. Provides(todo'[h])
    BY <1>6, <2>3, <2>5
  <2> QED
    BY <2>5, <2>6
<1>17. ToolInv'
  <2>1. k + 1 \in 0..6
    BY <1>8
  <2> DEFINE m == k + 1
  <2>2. m \in 0..6 /\ Left(m)' /\ Stage(m)'
    BY <1>10, <1>13, <2>1
  <2> HIDE DEF m
  <2> QED
    BY <1>14, <1>16, <2>2 DEF ToolInv
<1>18. BuildType'
  <2>1. mkimage' \in [MkimageParts -> {"none", "torn", "good"}]
    BY <1>3, <1>11
  <2> QED
    BY <1>3, <1>5, <1>9, <2>1 DEF BuildInv, BuildType
<1> QED
  BY <1>17, <1>18 DEF BuildInv

(***************************************************************************)
(* A new build                                                             *)
(***************************************************************************)
LEMMA PlainListed ==
  ASSUME NEW n \in Nat, NEW f, f = [i \in 1..n |-> f[i]], NEW may,
         \A i \in 1..n : IsItem(f[i]) /\ f[i].do \notin Writing /\ (Runs(f[i]) => may)
  PROVE  Plain(f, may)
<1>1. IsList(f)
  BY Listed
<1>2. DOMAIN f = 1..n
  OBVIOUS
<1> QED
  BY <1>1, <1>2 DEF Plain

LEMMA ContainerType ==
  ASSUME NEW c, c.image \in DOMAIN Tars, NEW section, NEW dir
  PROVE  /\ IsItem(Container(c, section, dir)) /\ Container(c, section, dir).do \notin Writing
         /\ ~Runs(Container(c, section, dir))
<1> DEFINE path == <<"containers", section, dir>>
<1>1. Container(c, section, dir) = [do |-> "container", to |-> "tar", image |-> c.image, yaml |-> c.yaml,
                                    path |-> path]
  BY DEF Container
<1>2. IsList(path)
  BY ListIs, path \in Seq({"containers", section, dir})
<1> HIDE DEF path
<1> QED
  BY <1>1, <1>2 DEF IsItem, Kinds, Writing, Runs

LEMMA NumberedPlain ==
  ASSUME NEW cs, HasImages(cs), NEW section, NEW may
  PROVE  Plain(Numbered(cs, section), may)
<1> DEFINE f == [i \in DOMAIN cs |-> Container(cs[i], section, NumberedName(i, cs[i].name))]
<1>1. Len(cs) \in Nat /\ DOMAIN cs = 1..Len(cs)
  BY ListDomain DEF HasImages
<1>2. ASSUME NEW i \in 1..Len(cs)
      PROVE  IsItem(f[i]) /\ f[i].do \notin Writing /\ (Runs(f[i]) => may)
  <2>1. f[i] = Container(cs[i], section, NumberedName(i, cs[i].name)) /\ cs[i].image \in DOMAIN Tars
    BY <1>1 DEF HasImages
  <2> HIDE DEF f
  <2> QED
    BY <2>1, ContainerType
<1>3. f = [i \in 1..Len(cs) |-> f[i]]
  BY <1>1
<1> HIDE DEF f
<1>4. Plain(f, may)
  BY <1>1, <1>2, <1>3, PlainListed
<1> QED
  BY <1>4 DEF f, Numbered

LEMMA ServicesPlain ==
  ASSUME NEW cs, HasImages(cs), NEW may
  PROVE  Plain([i \in DOMAIN cs |-> Container(cs[i], "services", cs[i].name)], may)
<1> DEFINE f == [i \in DOMAIN cs |-> Container(cs[i], "services", cs[i].name)]
<1>1. Len(cs) \in Nat /\ DOMAIN cs = 1..Len(cs)
  BY ListDomain DEF HasImages
<1>2. ASSUME NEW i \in 1..Len(cs)
      PROVE  IsItem(f[i]) /\ f[i].do \notin Writing /\ (Runs(f[i]) => may)
  <2>1. f[i] = Container(cs[i], "services", cs[i].name) /\ cs[i].image \in DOMAIN Tars
    BY <1>1 DEF HasImages
  <2> HIDE DEF f
  <2> QED
    BY <2>1, ContainerType
<1>3. f = [i \in 1..Len(cs) |-> f[i]]
  BY <1>1
<1> HIDE DEF f
<1>4. Plain(f, may)
  BY <1>1, <1>2, <1>3, PlainListed
<1> QED
  BY <1>4 DEF f

LEMMA ImageTarType ==
  ASSUME NEW image \in DOMAIN Tars, NEW prefix, IsList(prefix), NEW to \in {"kernel", "tar"}, NEW resolv
  PROVE  /\ IsItem(ImageTar(image, prefix, to, resolv)) /\ ImageTar(image, prefix, to, resolv).do \notin Writing
         /\ ~Runs(ImageTar(image, prefix, to, resolv))
BY DEF ImageTar, IsItem, Kinds, Writing, Runs

LEMMA DoType ==
  ASSUME NEW what \in {"close", "addition", "mkimage"}
  PROVE  IsItem(Do(what)) /\ Do(what).do = what /\ Do(what).do \notin Writing /\ ~Runs(Do(what))
BY DEF Do, IsItem, Kinds, Writing, Runs

LEMMA BuildItemsPlain ==
  ASSUME NEW c, IsConfig(c), NEW may
  PROVE  Plain(BuildItems(c), may)
<1> DEFINE kernel == IF c.kimage = None THEN <<>>
                     ELSE <<ImageTar(c.kimage[1], None, "kernel", None), Do("close")>>
           init == [i \in DOMAIN c.init |-> ImageTar(c.init[i], None, "tar", <<"", "run", "resolvconf", "resolv.conf">>)]
           onboot == Numbered(c.onboot, "onboot")
           onshutdown == Numbered(c.onshutdown, "onshutdown")
           services == [i \in DOMAIN c.services |-> Container(c.services[i], "services", c.services[i].name)]
           files == [i \in DOMAIN c.files |-> [do |-> "file", to |-> "tar", f |-> c.files[i]]]
<1>1. BuildItems(c) = kernel \o init \o onboot \o onshutdown \o services \o files
  BY DEF BuildItems
<1>2. Plain(kernel, may)
  <2>1. CASE c.kimage = None
    BY <2>1, NoPlain
  <2>2. CASE c.kimage # None
    <3> DEFINE t == ImageTar(c.kimage[1], None, "kernel", None)
               u == Do("close")
    <3>1. IsList(None)
      BY EmptyList DEF None
    <3>2. IsItem(t) /\ t.do \notin Writing /\ ~Runs(t)
      BY <2>2, <3>1, ImageTarType DEF IsConfig
    <3>3. IsItem(u) /\ u.do \notin Writing /\ ~Runs(u)
      BY DoType
    <3>4. kernel = <<t, u>>
      BY <2>2
    <3> HIDE DEF t, u, kernel
    <3>5. Plain(<<t>>, may) /\ Plain(<<u>>, may)
      BY <3>2, <3>3, OnePlain
    <3> QED
      BY <3>4, <3>5, OneAndOne, MorePlain
  <2> QED
    BY <2>1, <2>2
<1>3. Plain(init, may)
  <2>1. Len(c.init) \in Nat /\ DOMAIN c.init = 1..Len(c.init)
    BY ListDomain DEF IsConfig
  <2>2. init = [i \in 1..Len(c.init) |-> init[i]]
    BY <2>1
  <2>3. ASSUME NEW i \in 1..Len(c.init)
        PROVE  IsItem(init[i]) /\ init[i].do \notin Writing /\ ~Runs(init[i])
    <3> DEFINE resolv == <<"", "run", "resolvconf", "resolv.conf">>
    <3>1. init[i] = ImageTar(c.init[i], None, "tar", resolv) /\ c.init[i] \in DOMAIN Tars
      BY <2>1 DEF IsConfig
    <3>2. IsList(None)
      BY EmptyList DEF None
    <3> HIDE DEF init, resolv
    <3> QED
      BY <3>1, <3>2, ImageTarType
  <2> HIDE DEF init
  <2> QED
    BY <2>1, <2>2, <2>3, PlainListed
<1>4. Plain(onboot, may) /\ Plain(onshutdown, may) /\ Plain(services, may)
  BY NumberedPlain, ServicesPlain DEF IsConfig
<1>5. Plain(files, may)
  <2>1. Len(c.files) \in Nat /\ DOMAIN c.files = 1..Len(c.files)
    BY ListDomain DEF IsConfig
  <2>2. files = [i \in 1..Len(c.files) |-> files[i]]
    BY <2>1
  <2>3. ASSUME NEW i \in 1..Len(c.files)
        PROVE  IsItem(files[i]) /\ files[i].do \notin Writing /\ ~Runs(files[i])
    <3>1. /\ files[i] = [do |-> "file", to |-> "tar", f |-> c.files[i]]
          /\ IsList(c.files[i].path) /\ c.files[i].path # <<>>
      BY <2>1 DEF IsConfig
    <3> HIDE DEF files
    <3> QED
      BY <3>1 DEF IsItem, Kinds, Writing, Runs
  <2> HIDE DEF files
  <2> QED
    BY <2>1, <2>2, <2>3, PlainListed
<1> HIDE DEF kernel, init, onboot, onshutdown, services, files
<1>6. Plain(kernel \o init \o onboot \o onshutdown \o services \o files, may)
  <2>1. Plain(kernel \o init, may)
    BY <1>2, <1>3, MorePlain
  <2>2. Plain((kernel \o init) \o onboot, may)
    BY <1>4, <2>1, MorePlain
  <2>3. Plain(((kernel \o init) \o onboot) \o onshutdown, may)
    BY <1>4, <2>2, MorePlain
  <2>4. Plain((((kernel \o init) \o onboot) \o onshutdown) \o services, may)
    BY <1>4, <2>3, MorePlain
  <2> QED
    BY <1>5, <2>4, MorePlain
<1> QED
  BY <1>1, <1>6

LEMMA PrerequisitesPlain ==
  ASSUME NEW fs, IsList(fs), NEW may
  PROVE  /\ Plain(Prerequisites(fs), may)
         /\ \A i \in DOMAIN Prerequisites(fs) : Prerequisites(fs)[i].do = "mkimage"
         /\ (\E k \in DOMAIN fs : fs[k] \in NeedsMkimage) => Len(Prerequisites(fs)) > 0
<1> DEFINE tools == Matching(fs, NeedsMkimage)
           f == [i \in DOMAIN tools |-> Do("mkimage")]
<1>1. IsList(tools)
  BY ListMatching
<1>2. Len(tools) \in Nat /\ DOMAIN tools = 1..Len(tools)
  BY <1>1, ListDomain
<1>3. (\E k \in DOMAIN fs : fs[k] \in NeedsMkimage) => Len(tools) > 0
  <2> SUFFICES ASSUME NEW k \in DOMAIN fs, fs[k] \in NeedsMkimage
               PROVE  Len(tools) > 0
    OBVIOUS
  <2>1. \E i \in DOMAIN tools : tools[i] = fs[k]
    BY ListMatching
  <2> QED
    BY <1>2, <2>1
<1> HIDE DEF tools
<1>4. f = [i \in 1..Len(tools) |-> f[i]] /\ \A i \in 1..Len(tools) : f[i] = Do("mkimage")
  BY <1>2
<1>5. Prerequisites(fs) = f
  BY DEF Prerequisites, tools
<1> HIDE DEF f
<1>6. \A i \in 1..Len(tools) : IsItem(f[i]) /\ f[i].do = "mkimage" /\ f[i].do \notin Writing /\ ~Runs(f[i])
  BY <1>4, DoType
<1>7. Plain(f, may)
  BY <1>2, <1>4, <1>6, PlainListed
<1>8. Len(f) = Len(tools) /\ DOMAIN f = 1..Len(tools)
  BY <1>2, <1>4, Listed
<1> QED
  BY <1>3, <1>5, <1>6, <1>7, <1>8

LEMMA FormatItemsPlain ==
  ASSUME NEW fs, IsList(fs)
  PROVE  Plain(FormatItems(fs), \E k \in DOMAIN fs : fs[k] \in NeedsMkimage)
<1> DEFINE made == Matching(fs, ToSet(fs) \ Streamable)
           may == \E k \in DOMAIN fs : fs[k] \in NeedsMkimage
           f == [i \in DOMAIN made |-> [do |-> "format", to |-> "tar", o |-> made[i]]]
<1>1. IsList(made) /\ \A i \in DOMAIN made : \E k \in DOMAIN fs : made[i] = fs[k]
  BY ListMatching
<1>2. Len(made) \in Nat /\ DOMAIN made = 1..Len(made)
  BY <1>1, ListDomain
<1>3. \A i \in DOMAIN made : made[i] \in NeedsMkimage => may
  BY <1>1
<1> HIDE DEF made, may
<1>4. f = [i \in 1..Len(made) |-> f[i]]
  BY <1>2
<1>5. ASSUME NEW i \in 1..Len(made)
      PROVE  IsItem(f[i]) /\ f[i].do \notin Writing /\ (Runs(f[i]) => may)
  <2>1. f[i] = [do |-> "format", to |-> "tar", o |-> made[i]]
    BY <1>2
  <2>2. made[i] \in NeedsMkimage => may
    BY <1>2, <1>3
  <2> HIDE DEF f
  <2> QED
    BY <2>1, <2>2 DEF IsItem, Kinds, Writing, Runs
<1> HIDE DEF f
<1>6. Plain(f, may)
  BY <1>2, <1>4, <1>5, PlainListed
<1>7. FormatItems(fs) = f
  BY DEF FormatItems, made, f
<1> QED
  BY <1>6, <1>7 DEF may

LEMMA StartBuildStep ==
  ASSUME BuildInv, StartBuild
  PROVE  BuildInv'
<1>1. PICK files \in Configs, fs \in FormatLists :
        todo' = Prerequisites(fs) \o BuildItems(Merged(files))
                  \o (IF fs[1] = "docker" THEN <<Do("addition")>> ELSE <<>>)
                  \o Prerequisites(fs)
                  \o FormatItems(fs)
  BY DEF StartBuild
<1> DEFINE may == \E k \in DOMAIN fs : fs[k] \in NeedsMkimage
           first == Prerequisites(fs)
           build == BuildItems(Merged(files))
           extra == IF fs[1] = "docker" THEN <<Do("addition")>> ELSE <<>>
           made  == FormatItems(fs)
<1>2. /\ status' = "building" /\ builds < MaxBuilds /\ builds' = builds + 1
      /\ out' = <<>> /\ kf' = Filter /\ dup' = <<>>
      /\ UNCHANGED <<mkimage, faults>>
  BY DEF StartBuild
<1>3. IsList(fs) /\ IsConfig(Merged(files))
  BY ConfigsAssumption, FormatsAssumption, MergedType
<1>4. Plain(first, may) /\ (may => Len(first) > 0) /\ \A i \in DOMAIN first : first[i].do = "mkimage"
  BY <1>3, PrerequisitesPlain
<1>5. Plain(build, may)
  BY <1>3, BuildItemsPlain
<1>6. Plain(extra, may)
  <2> DEFINE t == Do("addition")
  <2>1. IsItem(t) /\ t.do \notin Writing /\ ~Runs(t)
    BY DoType
  <2>2. extra = <<t>> \/ extra = <<>>
    OBVIOUS
  <2> HIDE DEF t, extra
  <2>3. Plain(<<t>>, may)
    <3> HIDE DEF may
    <3> QED
      BY <2>1, OnePlain
  <2> QED
    BY <2>2, <2>3, NoPlain
<1>7. Plain(made, may)
  BY <1>3, FormatItemsPlain
<1>8. todo' = ((((first \o build) \o extra) \o first) \o made)
  BY <1>1
<1> HIDE DEF may, first, build, extra, made
<1>9. Plain(todo', may)
  <2>1. Plain(first \o build, may)
    BY <1>4, <1>5, MorePlain
  <2>2. Plain((first \o build) \o extra, may)
    BY <1>6, <2>1, MorePlain
  <2>3. Plain(((first \o build) \o extra) \o first, may)
    BY <1>4, <2>2, MorePlain
  <2>4. Plain((((first \o build) \o extra) \o first) \o made, may)
    BY <1>7, <2>3, MorePlain
  <2> QED
    BY <1>8, <2>4
<1>10. Len(first) > 0 => Len(todo') > 0 /\ todo'[1] = first[1] /\ first[1].do = "mkimage"
  <2>1. IsList(first) /\ IsList(build) /\ IsList(extra) /\ IsList(made)
    BY <1>4, <1>5, <1>6, <1>7 DEF Plain
  <2> DEFINE l1 == first \o build
             l2 == l1 \o extra
             l3 == l2 \o first
             l4 == l3 \o made
  <2>2. IsList(l1) /\ Len(l1) = Len(first) + Len(build) /\ \A k \in 1..Len(first) : l1[k] = first[k]
    BY <2>1, ListConcat
  <2> HIDE DEF l1
  <2>3. IsList(l2) /\ Len(l2) = Len(l1) + Len(extra) /\ \A k \in 1..Len(l1) : l2[k] = l1[k]
    BY <2>1, <2>2, ListConcat
  <2> HIDE DEF l2
  <2>4. IsList(l3) /\ Len(l3) = Len(l2) + Len(first) /\ \A k \in 1..Len(l2) : l3[k] = l2[k]
    BY <2>1, <2>3, ListConcat
  <2> HIDE DEF l3
  <2>5. IsList(l4) /\ Len(l4) = Len(l3) + Len(made) /\ \A k \in 1..Len(l3) : l4[k] = l3[k]
    BY <2>1, <2>4, ListConcat
  <2> HIDE DEF l4
  <2>6. todo' = l4
    BY <1>8 DEF l1, l2, l3, l4
  <2>7. /\ Len(first) \in Nat /\ Len(build) \in Nat /\ Len(extra) \in Nat /\ Len(made) \in Nat
        /\ DOMAIN first = 1..Len(first)
    BY <2>1, ListDomain
  <2> SUFFICES ASSUME Len(first) > 0
               PROVE  Len(todo') > 0 /\ todo'[1] = first[1] /\ first[1].do = "mkimage"
    OBVIOUS
  <2>8. 1 \in 1..Len(first) /\ 1 \in 1..Len(l1) /\ 1 \in 1..Len(l2) /\ 1 \in 1..Len(l3) /\ Len(l4) > 0
    BY <2>2, <2>3, <2>4, <2>5, <2>7
  <2>9. l4[1] = l3[1] /\ l3[1] = l2[1] /\ l2[1] = l1[1] /\ l1[1] = first[1]
    BY <2>2, <2>3, <2>4, <2>5, <2>8
  <2>10. first[1].do = "mkimage"
    BY <1>4, <2>7, <2>8
  <2> QED
    BY <2>6, <2>8, <2>9, <2>10
<1>11. IsList(todo') /\ DOMAIN todo' = 1..Len(todo') /\ Len(todo') \in Nat
  BY <1>9, ListDomain DEF Plain
<1>12. \A i \in DOMAIN todo' : IsItem(todo'[i]) /\ todo'[i].do \notin Writing /\ (Runs(todo'[i]) => may)
  BY <1>9 DEF Plain
<1>13. Left(6)' /\ Stage(6)'
  BY <1>11, <1>12 DEF Left, Stage
<1>14. ASSUME NEW i \in DOMAIN todo', Runs(todo'[i])
       PROVE  \E j \in 1..(i - 1) : Provides(todo'[j])
  <2>1. todo'[1].do = "mkimage"
    BY <1>4, <1>10, <1>12, <1>14
  <2>2. i # 1
    BY <1>14, <2>1 DEF Runs
  <2>3. 1 \in 1..(i - 1)
    BY <1>11, <2>2
  <2> QED
    BY <2>1, <2>3 DEF Provides
<1>15. ToolInv'
  <2>1. mkimage["cmdline"] # "none" => mkimage["kernel"] = "good" /\ mkimage["initrd"] = "good"
    BY DEF BuildInv, ToolInv
  <2> QED
    BY <1>2, <1>13, <1>14, <2>1 DEF ToolInv
<1>16. IsArchive(out') /\ IsFilter(kf') /\ \A image \in DOMAIN dup' : IsList(dup'[image])
  <2>1. IsFilter(Filter)
    BY EmptyList DEF Filter, IsFilter, IsArchive
  <2>2. IsArchive(<<>>) /\ DOMAIN <<>> = {}
    BY EmptyList DEF IsArchive
  <2> QED
    BY <1>2, <2>1, <2>2
<1>17. BuildType'
  <2>1. builds' \in 0..MaxBuilds /\ faults' \in 0..MaxFaults
        /\ mkimage' \in [MkimageParts -> {"none", "torn", "good"}]
    BY <1>2, BoundsAssumption DEF BuildInv, BuildType
  <2> QED
    BY <1>2, <1>11, <1>12, <1>16, <2>1 DEF BuildType
<1> QED
  BY <1>15, <1>17 DEF BuildInv

LEMMA FinishStep ==
  ASSUME BuildInv, Finish
  PROVE  BuildInv'
BY DEF Finish, BuildInv, BuildType, ToolInv, Left, Stage

LEMMA AbortStep ==
  ASSUME BuildInv, Abort
  PROVE  BuildInv'
<1>1. todo' = <<>> /\ status' = "failed" /\ faults' = faults + 1 /\ faults < MaxFaults
      /\ UNCHANGED <<out, kf, dup, mkimage, builds>>
  BY DEF Abort, Fail
<1>2. IsList(todo') /\ Len(todo') = 0 /\ DOMAIN todo' = {}
  BY <1>1, EmptyList
<1>3. Left(6)' /\ Stage(6)'
  BY <1>2 DEF Left, Stage
<1>4. mkimage["cmdline"] # "none" => mkimage["kernel"] = "good" /\ mkimage["initrd"] = "good"
  BY DEF BuildInv, ToolInv
<1>5. ToolInv'
  BY <1>1, <1>2, <1>3, <1>4 DEF ToolInv
<1>6. faults' \in 0..MaxFaults
  BY <1>1, BoundsAssumption DEF BuildInv, BuildType
<1> QED
  BY <1>1, <1>2, <1>5, <1>6 DEF BuildInv, BuildType

LEMMA BuildInit ==
  ASSUME Init
  PROVE  BuildInv
<1>1. IsFilter(Filter)
  BY EmptyList DEF Filter, IsFilter, IsArchive
<1>2. IsArchive(<<>>)
  BY EmptyList DEF IsArchive
<1>3. BuildType
  BY <1>1, <1>2, EmptyList, BoundsAssumption DEF Init, BuildType
<1>4. Left(6) /\ Stage(6)
  BY EmptyList DEF Init, Left, Stage
<1>5. mkimage["cmdline"] = "none"
  BY DEF Init, MkimageParts
<1>6. ToolInv
  BY <1>4, <1>5, EmptyList DEF ToolInv, Init
<1> QED
  BY <1>3, <1>6 DEF BuildInv

THEOREM BuildInvariant == Spec => []BuildInv
<1>1. Init => BuildInv
  BY BuildInit
<1>2. BuildInv /\ [Next]_vars => BuildInv'
  <2> SUFFICES ASSUME BuildInv, [Next]_vars
               PROVE  BuildInv'
    OBVIOUS
  <2>1. CASE StartBuild
    BY <2>1, StartBuildStep
  <2>2. CASE OpenImage
    BY <2>2, OpenImageStep
  <2>3. CASE ImageEntry
    BY <2>3, ImageEntryStep
  <2>4. CASE TouchFiles
    BY <2>4, TouchFilesStep
  <2>5. CASE CloseKernel
    BY <2>5, CloseKernelStep
  <2>6. CASE OutputImage
    BY <2>6, OutputImageStep
  <2>7. CASE ImageBundle
    BY <2>7, ImageBundleStep
  <2>8. CASE AddFile
    BY <2>8, AddFileStep
  <2>9. CASE Addition
    BY <2>9, AdditionStep
  <2>10. CASE OutputFormat
    BY <2>10, OutputFormatStep
  <2>11. CASE WriteOutput
    BY <2>11, WriteOutputStep
  <2>12. CASE EnsureMkimage
    BY <2>12, EnsureMkimageStep
  <2>13. CASE WriteMkimage
    BY <2>13, WriteMkimageStep
  <2>14. CASE Finish
    BY <2>14, FinishStep
  <2>15. CASE Abort
    BY <2>15, AbortStep
  <2>16. CASE UNCHANGED vars
    BY <2>16 DEF vars, BuildInv, BuildType, ToolInv, Left, Stage
  <2> QED
    BY <2>1, <2>2, <2>3, <2>4, <2>5, <2>6, <2>7, <2>8, <2>9, <2>10, <2>11, <2>12, <2>13, <2>14, <2>15, <2>16
    DEF Next
<1> QED
  BY <1>1, <1>2, PTL DEF Spec

\* State of the right types, whatever the images and the configurations hold: the list of
\* things to do has only items that an action of the build does, and no entry of the stream has
\* content after a header that has none, on which the tar writer would fail.
THEOREM BuildTypes == Spec => []TypeOK
<1>1. BuildInv => TypeOK
  <2> SUFFICES ASSUME BuildInv PROVE TypeOK
    OBVIOUS
  <2>1. \A i \in DOMAIN todo : todo[i].do \in Kinds
    BY DEF BuildInv, BuildType, IsItem
  <2>2. \A i \in DOMAIN out : out[i].type \in HeaderOnly \cup {"reg"} /\ (out[i].type \in HeaderOnly => out[i].body = None)
    BY DEF BuildInv, BuildType, IsArchive, IsEntry
  <2>3. \A part \in DOMAIN mkimage : mkimage[part] \in {"none", "torn", "good"}
    BY DEF BuildInv, BuildType
  <2> QED
    BY <2>1, <2>2, <2>3 DEF TypeOK, BuildInv, BuildType, Kinds
<1> QED
  BY <1>1, BuildInvariant, PTL

\* A disk image is made only with a kernel and an initrd of the tool that were written to the
\* end, for every order of formats and wherever earlier builds were killed: ensureLinuxkitImage
\* may look only at whether the files exist because it makes the command line last.
THEOREM ToolUsable == Spec => []MkimageUsable
<1>1. BuildInv => MkimageUsable
  <2> SUFFICES ASSUME BuildInv, At("write"), Now.format \in NeedsMkimage
               PROVE  mkimage.kernel = "good" /\ mkimage.initrd = "good"
    BY DEF MkimageUsable
  <2>1. todo # <<>> /\ Now = todo[1] /\ todo[1].do = "write"
    BY AtHead
  <2>2. Runs(todo[1])
    BY <2>1 DEF Runs
  <2>3. mkimage["cmdline"] # "none"
    BY <2>1, <2>2, ToolAtHead
  <2> QED
    BY <2>3 DEF BuildInv, ToolInv
<1> QED
  BY <1>1, BuildInvariant, PTL

(***************************************************************************)
(* What the formats write is of the build that succeeds                    *)
(***************************************************************************)

\* A list of items that do one of these things.
Does(items, D) == IsList(items) /\ \A i \in DOMAIN items : items[i].do \in D

LEMMA DoesMore ==
  ASSUME NEW D, NEW a, NEW b, Does(a, D), Does(b, D)
  PROVE  Does(a \o b, D)
<1>1. IsList(a) /\ IsList(b)
  BY DEF Does
<1>2. IsList(a \o b)
  BY <1>1, ListConcat
<1>3. ASSUME NEW k \in DOMAIN (a \o b)
      PROVE  (a \o b)[k].do \in D
  <2>1. \/ k \in DOMAIN a /\ (a \o b)[k] = a[k]
        \/ k - Len(a) \in DOMAIN b /\ (a \o b)[k] = b[k - Len(a)]
    BY <1>1, ListConcat
  <2> QED
    BY <2>1 DEF Does
<1> QED
  BY <1>2, <1>3 DEF Does

LEMMA DoesOne ==
  ASSUME NEW D, NEW t, t.do \in D
  PROVE  Does(<<t>>, D)
<1>1. IsList(<<t>>)
  BY ListIs, <<t>> \in Seq({t})
<1>2. \A k \in DOMAIN <<t>> : k = 1
  OBVIOUS
<1> QED
  BY <1>1, <1>2 DEF Does

LEMMA DoesNone == \A D : Does(<<>>, D)
BY EmptyList DEF Does

LEMMA DoesEach ==
  ASSUME NEW D, NEW s, IsList(s), NEW f, f = [i \in DOMAIN s |-> f[i]], \A i \in DOMAIN s : f[i].do \in D
  PROVE  Does(f, D)
<1>1. Len(s) \in Nat /\ DOMAIN s = 1..Len(s)
  BY ListDomain
<1>2. IsList(f)
  BY <1>1, Listed
<1>3. DOMAIN f = DOMAIN s
  OBVIOUS
<1> QED
  BY <1>2, <1>3 DEF Does

LEMMA BuildItemsDo ==
  ASSUME NEW c, IsConfig(c)
  PROVE  Does(BuildItems(c), {"image", "close", "container", "file"})
<1> DEFINE kernel == IF c.kimage = None THEN <<>>
                     ELSE <<ImageTar(c.kimage[1], None, "kernel", None), Do("close")>>
           init == [i \in DOMAIN c.init |-> ImageTar(c.init[i], None, "tar", <<"", "run", "resolvconf", "resolv.conf">>)]
           onboot == Numbered(c.onboot, "onboot")
           onshutdown == Numbered(c.onshutdown, "onshutdown")
           services == [i \in DOMAIN c.services |-> Container(c.services[i], "services", c.services[i].name)]
           files == [i \in DOMAIN c.files |-> [do |-> "file", to |-> "tar", f |-> c.files[i]]]
           D == {"image", "close", "container", "file"}
<1>1. BuildItems(c) = kernel \o init \o onboot \o onshutdown \o services \o files
  BY DEF BuildItems
<1>2. IsList(c.init) /\ IsList(c.onboot) /\ IsList(c.onshutdown) /\ IsList(c.services) /\ IsList(c.files)
  BY DEF IsConfig, HasImages
<1>3. Does(kernel, D)
  <2> DEFINE t == ImageTar(c.kimage[1], None, "kernel", None)
             u == Do("close")
  <2>1. t.do \in D /\ u.do \in D
    BY DEF ImageTar, Do
  <2>2. kernel = <<>> \/ kernel = <<t, u>>
    OBVIOUS
  <2> HIDE DEF t, u, D, kernel
  <2>3. Does(<<t, u>>, D)
    BY <2>1, DoesOne, OneAndOne, DoesMore
  <2> QED
    BY <2>2, <2>3, DoesNone
<1>4. Does(init, D)
  <2> DEFINE resolv == <<"", "run", "resolvconf", "resolv.conf">>
  <2>1. init = [i \in DOMAIN c.init |-> ImageTar(c.init[i], None, "tar", resolv)]
    OBVIOUS
  <2> HIDE DEF resolv, init
  <2>2. init = [i \in DOMAIN c.init |-> init[i]] /\ \A i \in DOMAIN c.init : init[i].do \in D
    BY <2>1 DEF ImageTar
  <2> HIDE DEF D
  <2> QED
    BY <1>2, <2>2, DoesEach
<1>5. ASSUME NEW cs, IsList(cs), NEW section
      PROVE  Does(Numbered(cs, section), D)
  <2> DEFINE f == Numbered(cs, section)
  <2>1. f = [i \in DOMAIN cs |-> f[i]] /\ \A i \in DOMAIN cs : f[i].do \in D
    BY DEF Numbered, Container
  <2> HIDE DEF f, D
  <2>2. Does(f, D)
    BY <1>5, <2>1, DoesEach
  <2> QED
    BY <2>2 DEF f
<1>6. Does(services, D)
  <2>1. services = [i \in DOMAIN c.services |-> services[i]] /\ \A i \in DOMAIN c.services : services[i].do \in D
    BY DEF Container
  <2> HIDE DEF services, D
  <2> QED
    BY <1>2, <2>1, DoesEach
<1>7. Does(files, D)
  <2>1. \A i \in DOMAIN c.files : files[i].do \in D
    OBVIOUS
  <2>2. files = [i \in DOMAIN c.files |-> files[i]]
    OBVIOUS
  <2> HIDE DEF files, D
  <2> QED
    BY <1>2, <2>1, <2>2, DoesEach
<1>8. Does(onboot, D) /\ Does(onshutdown, D)
  BY <1>2, <1>5
<1> HIDE DEF kernel, init, onboot, onshutdown, services, files, D
<1>9. Does(kernel \o init, D)
  BY <1>3, <1>4, DoesMore
<1>10. Does((kernel \o init) \o onboot, D)
  BY <1>8, <1>9, DoesMore
<1>11. Does(((kernel \o init) \o onboot) \o onshutdown, D)
  BY <1>8, <1>10, DoesMore
<1>12. Does((((kernel \o init) \o onboot) \o onshutdown) \o services, D)
  BY <1>6, <1>11, DoesMore
<1>13. Does(kernel \o init \o onboot \o onshutdown \o services \o files, D)
  BY <1>7, <1>12, DoesMore
<1> QED
  BY <1>1, <1>13 DEF D

LEMMA FormatItemsAll ==
  ASSUME NEW fs, IsList(fs), \A k \in DOMAIN fs : fs[k] \notin Streamable
  PROVE  \A k \in DOMAIN fs : \E i \in DOMAIN FormatItems(fs) :
           FormatItems(fs)[i].do = "format" /\ FormatItems(fs)[i].o = fs[k]
<1> DEFINE made == Matching(fs, ToSet(fs) \ Streamable)
<1>1. ASSUME NEW k \in DOMAIN fs
      PROVE  \E i \in DOMAIN made : made[i] = fs[k]
  <2>1. fs[k] \in ToSet(fs) \ Streamable
    BY DEF ToSet
  <2> QED
    BY <2>1, ListMatching
<1>2. FormatItems(fs) = [i \in DOMAIN made |-> [do |-> "format", to |-> "tar", o |-> made[i]]]
  BY DEF FormatItems
<1> HIDE DEF made
<1> QED
  BY <1>1, <1>2

LEMMA FormatItemsDo ==
  ASSUME NEW fs, IsList(fs)
  PROVE  Does(FormatItems(fs), Outputs)
<1> DEFINE made == Matching(fs, ToSet(fs) \ Streamable)
           f == FormatItems(fs)
<1>1. IsList(made)
  BY ListMatching
<1>2. f = [i \in DOMAIN made |-> [do |-> "format", to |-> "tar", o |-> made[i]]]
  BY DEF FormatItems
<1> HIDE DEF made, f
<1>3. f = [i \in DOMAIN made |-> f[i]] /\ \A i \in DOMAIN made : f[i].do \in Outputs
  BY <1>2 DEF Outputs
<1>4. Does(f, Outputs)
  BY <1>1, <1>3, DoesEach
<1> QED
  BY <1>4 DEF f

LEMMA InTurn ==
  ASSUME NEW a, NEW b, NEW c
  PROVE  /\ \E i \in DOMAIN (<<a>> \o <<b>> \o <<c>>) : (<<a>> \o <<b>> \o <<c>>)[i] = a
         /\ \E i \in DOMAIN (<<a>> \o <<b>> \o <<c>>) : (<<a>> \o <<b>> \o <<c>>)[i] = b
         /\ \E i \in DOMAIN (<<a>> \o <<b>> \o <<c>>) : (<<a>> \o <<b>> \o <<c>>)[i] = c
<1> DEFINE l == <<a, b>>
           r == <<c>>
<1>1. <<a>> \o <<b>> = l
  BY OneAndOne
<1>2. Len(l) = 2 /\ l[1] = a /\ l[2] = b /\ Len(r) = 1 /\ r[1] = c
  OBVIOUS
<1>3. IsList(l) /\ IsList(r)
  <2>1. l \in Seq({a, b}) /\ r \in Seq({c})
    OBVIOUS
  <2> HIDE DEF l, r
  <2> QED
    BY <2>1, ListIs
<1> HIDE DEF l, r
<1> DEFINE m == l \o r
<1>4. /\ DOMAIN m = 1..(Len(l) + Len(r))
      /\ \A k \in 1..Len(l) : m[k] = l[k]
      /\ \A k \in 1..Len(r) : m[Len(l) + k] = r[k]
  BY <1>3, ListConcat
<1> HIDE DEF m
<1>5. DOMAIN m = 1..3 /\ m[1] = l[1] /\ m[2] = l[2] /\ m[2 + 1] = r[1]
  BY <1>2, <1>4
<1>6. m[1] = a /\ m[2] = b /\ m[3] = c
  BY <1>2, <1>5
<1> DEFINE w == <<a>> \o <<b>> \o <<c>>
<1>7. w = m
  BY <1>1 DEF r, m
<1> HIDE DEF w
<1>8. (\E i \in DOMAIN w : w[i] = a) /\ (\E i \in DOMAIN w : w[i] = b) /\ (\E i \in DOMAIN w : w[i] = c)
  BY <1>5, <1>6, <1>7
<1> QED
  BY <1>8 DEF w

\* A format writes all its files when the stream has a kernel and a command line.
LEMMA WritesAll ==
  ASSUME NEW o, NEW s, s.kernel # None, s.cmdline # None, NEW f \in FilesFor(o)
  PROVE  \E i \in DOMAIN Writes(o, s) : Writes(o, s)[i].do = "write" /\ Writes(o, s)[i].file = f
<1>1. CASE o = "kernel+initrd"
  <2> DEFINE a == Write("-initrd.cpio.gz", o)
             b == Write("-kernel", o)
             c == Write("-cmdline", o)
  <2>1. Writes(o, s) = <<a>> \o <<b>> \o <<c>>
    BY <1>1 DEF Writes, KernelFS
  <2>2. f \in {"-kernel", "-initrd.cpio.gz", "-cmdline"}
    BY <1>1 DEF FilesFor, KernelFS
  <2>3. /\ a.do = "write" /\ a.file = "-initrd.cpio.gz"
        /\ b.do = "write" /\ b.file = "-kernel"
        /\ c.do = "write" /\ c.file = "-cmdline"
    BY DEF Write
  <2> HIDE DEF a, b, c
  <2> DEFINE l == <<a>> \o <<b>> \o <<c>>
  <2>4. (\E i \in DOMAIN l : l[i] = a) /\ (\E i \in DOMAIN l : l[i] = b) /\ (\E i \in DOMAIN l : l[i] = c)
    BY InTurn
  <2>5. Writes(o, s) = l
    BY <2>1
  <2> HIDE DEF l
  <2> QED
    BY <2>2, <2>3, <2>4, <2>5
<1>2. CASE o # "kernel+initrd" /\ o \in KernelFS
  <2> DEFINE a == Write("-cmdline", o)
             b == Write("-kernel", o)
             c == Write(Suffix[o], o)
  <2>1. Writes(o, s) = <<a, b>> \o <<c>>
    <3>1. Writes(o, s) = WithKernel(o, s)
      BY <1>2 DEF Writes
    <3> QED
      BY <3>1 DEF WithKernel
  <2>2. f \in {"-kernel", "-cmdline", Suffix[o]}
    BY <1>2 DEF FilesFor
  <2>3. /\ a.do = "write" /\ a.file = "-cmdline"
        /\ b.do = "write" /\ b.file = "-kernel"
        /\ c.do = "write" /\ c.file = Suffix[o]
    BY DEF Write
  <2> HIDE DEF a, b, c
  <2> DEFINE l == <<a>> \o <<b>> \o <<c>>
  <2>4. (\E i \in DOMAIN l : l[i] = a) /\ (\E i \in DOMAIN l : l[i] = b) /\ (\E i \in DOMAIN l : l[i] = c)
    BY InTurn
  <2>5. Writes(o, s) = l
    BY <2>1, OneAndOne
  <2> HIDE DEF l
  <2> QED
    BY <2>2, <2>3, <2>4, <2>5
<1>3. CASE o # "kernel+initrd" /\ o \notin KernelFS
  <2> DEFINE c == Write(Suffix[o], o)
  <2>1. Writes(o, s) = <<c>> /\ f = Suffix[o]
    BY <1>3 DEF Writes, FilesFor
  <2>2. c.do = "write" /\ c.file = Suffix[o]
    BY DEF Write
  <2> HIDE DEF c
  <2> QED
    BY <2>1, <2>2
<1> QED
  BY <1>1, <1>2, <1>3

LEMMA WritesDo ==
  ASSUME NEW o, NEW s
  PROVE  Does(Writes(o, s), {"write"})
<1>1. \A file : Does(<<Write(file, o)>>, {"write"})
  BY DoesOne DEF Write
<1>2. \A file, file2 : Does(<<Write(file, o), Write(file2, o)>>, {"write"})
  <2> SUFFICES ASSUME NEW file, NEW file2 PROVE Does(<<Write(file, o), Write(file2, o)>>, {"write"})
    OBVIOUS
  <2> DEFINE t == Write(file, o)
             u == Write(file2, o)
  <2>1. Does(<<t>>, {"write"}) /\ Does(<<u>>, {"write"})
    BY <1>1
  <2> HIDE DEF t, u
  <2>2. Does(<<t, u>>, {"write"})
    BY <2>1, OneAndOne, DoesMore
  <2> QED
    BY <2>2 DEF t, u
<1>3. CASE o = "kernel+initrd"
  <2> DEFINE i == <<Write("-initrd.cpio.gz", o)>>
             k == IF s.kernel # None THEN <<Write("-kernel", o)>> ELSE <<>>
             c == IF s.cmdline # None THEN <<Write("-cmdline", o)>> ELSE <<>>
  <2>1. Writes(o, s) = i \o k \o c
    BY <1>3 DEF Writes, KernelFS
  <2>2. Does(i, {"write"}) /\ Does(k, {"write"}) /\ Does(c, {"write"})
    BY <1>1, DoesNone
  <2> HIDE DEF i, k, c
  <2> QED
    BY <2>1, <2>2, DoesMore
<1>4. CASE o # "kernel+initrd" /\ o \in KernelFS
  <2> DEFINE k == IF s.kernel # None THEN <<Write("-cmdline", o), Write("-kernel", o)>> ELSE <<>>
             f == <<Write(Suffix[o], o)>>
  <2>1. Writes(o, s) = k \o f
    <3>1. Writes(o, s) = WithKernel(o, s)
      BY <1>4 DEF Writes
    <3> QED
      BY <3>1 DEF WithKernel
  <2>2. Does(k, {"write"}) /\ Does(f, {"write"})
    BY <1>1, <1>2, DoesNone
  <2> HIDE DEF k, f
  <2> QED
    BY <2>1, <2>2, DoesMore
<1>5. CASE o # "kernel+initrd" /\ o \notin KernelFS
  BY <1>1, <1>5 DEF Writes
<1> QED
  BY <1>3, <1>4, <1>5

\* An item that makes the stream, or fails.
LEMMA StreamFresh ==
  ASSUME BuildInv, FreshInv, todo # <<>>, todo[1].do \notin Outputs, status = "building", formats' = formats,
         NEW items, Does(items, Kinds \ Outputs),
         \/ todo' = items \o Tail(todo) /\ status' = status
         \/ todo' = <<>> /\ status' = "failed"
  PROVE  FreshInv'
<1>1. CASE todo' = <<>> /\ status' = "failed"
  <2>1. DOMAIN todo' = {}
    BY <1>1, EmptyList
  <2>2. OutputsLast'
    BY <2>1 DEF OutputsLast
  <2> QED
    BY <1>1, <2>2 DEF FreshInv
<1>2. CASE todo' = items \o Tail(todo) /\ status' = status
  <2> DEFINE n == Len(items)
  <2>1. IsList(items) /\ IsList(todo)
    BY DEF Does, BuildInv, BuildType
  <2>2. /\ DOMAIN todo' = 1..(n + Len(todo) - 1)
        /\ n \in Nat /\ Len(todo) \in Nat \ {0}
        /\ DOMAIN items = 1..n /\ DOMAIN todo = 1..Len(todo)
    BY <1>2, <2>1, ListInPlace
  <2>3. \A k \in 2..Len(todo) : todo'[n + k - 1] = todo[k]
    BY <1>2, <2>1, ListInPlace
  <2>4. \A k \in 1..(n + Len(todo) - 1) :
          \/ k \in 1..n /\ todo'[k] = items[k]
          \/ k > n /\ k - n + 1 \in 2..Len(todo) /\ todo'[k] = todo[k - n + 1]
    BY <1>2, <2>1, ListInPlace
  <2> HIDE DEF n
  <2>5. ASSUME NEW i \in DOMAIN todo', NEW j \in DOMAIN todo', i < j, todo'[i].do \in Outputs
        PROVE  todo'[j].do \in Outputs
    <3> DEFINE k == i - n + 1
               l == j - n + 1
    <3>1. ~(i \in 1..n /\ todo'[i] = items[i])
      BY <2>2, <2>5 DEF Does
    <3>2. i > n /\ k \in 2..Len(todo) /\ todo'[i] = todo[k]
      BY <2>2, <2>4, <3>1
    <3>3. l \in 2..Len(todo) /\ todo'[j] = todo[l]
      <4>1. ~(j \in 1..n)
        BY <2>2, <2>5, <3>2
      <4> QED
        BY <2>2, <2>4, <4>1
    <3>4. k < l
      BY <2>2, <2>5
    <3> HIDE DEF k, l
    <3>5. OutputsLast /\ k \in DOMAIN todo /\ l \in DOMAIN todo
      BY <2>2, <3>2, <3>3 DEF FreshInv
    <3>6. todo[k].do \in Outputs
      BY <2>5, <3>2
    <3>7. todo[l].do \in Outputs
      BY <3>4, <3>5, <3>6 DEF OutputsLast
    <3> QED
      BY <3>3, <3>7
  <2>6. ASSUME NEW o, Pending(o)
        PROVE  Pending(o)'
    <3>1. PICK i \in DOMAIN todo : todo[i].do = "format" /\ todo[i].o = o
      BY <2>6 DEF Pending
    <3>2. i # 1
      BY <3>1 DEF Outputs
    <3> DEFINE k == n + i - 1
    <3>3. k \in DOMAIN todo' /\ todo'[k] = todo[i]
      BY <2>2, <2>3, <3>2
    <3> HIDE DEF k
    <3> QED
      BY <3>1, <3>3 DEF Pending
  <2>7. 1 \in DOMAIN todo
    BY <2>2
  <2>8. formats[1] \notin Streamable => \A k \in DOMAIN formats : Pending(formats[k])
    BY <2>7 DEF FreshInv
  <2>9. OutputsLast'
    BY <2>5 DEF OutputsLast
  <2>10. formats[1] \notin Streamable => \A k \in DOMAIN formats : Pending(formats[k])'
    BY <2>6, <2>8
  <2> QED
    BY <1>2, <2>9, <2>10 DEF FreshInv
<1> QED
  BY <1>1, <1>2

LEMMA EmitFresh ==
  ASSUME BuildInv, FreshInv, todo # <<>>, todo[1].do \notin Outputs, status = "building", formats' = formats,
         NEW items, Does(items, Kinds \ Outputs),
         \/ \E es : Emit(es, items)
         \/ Then(items) /\ status' = status
         \/ Fail
  PROVE  FreshInv'
<1>1. \/ todo' = items \o Tail(todo) /\ status' = status
      \/ todo' = <<>> /\ status' = "failed"
  BY DEF Emit, Then, Fail
<1> QED
  BY <1>1, StreamFresh

LEMMA HeadIs ==
  ASSUME BuildInv, NEW what, At(what)
  PROVE  /\ todo # <<>> /\ todo[1].do = what /\ Now = todo[1] /\ status = "building"
         /\ IsItem(Now)
BY AtHead DEF At

LEMMA OpenImageFresh ==
  ASSUME BuildInv, FreshInv, OpenImage
  PROVE  FreshInv'
<1> DEFINE es    == Tars[Now.image]
           entry == [i \in DOMAIN es |-> [do |-> "entry", e |-> es[i], prefix |-> Now.prefix, to |-> Now.to,
                                          resolv |-> Now.resolv]]
           touch == [do |-> "touch", prefix |-> Now.prefix, to |-> Now.to, resolv |-> Now.resolv]
           D     == Kinds \ Outputs
<1>1. /\ todo # <<>> /\ todo[1].do = "image" /\ status = "building" /\ IsItem(Now) /\ Now.do = "image"
      /\ formats' = formats
  BY HeadIs DEF OpenImage
<1>2. IsList(es)
  BY <1>1, ArchivesAssumption DEF IsItem, IsArchive
<1>3. entry = [i \in DOMAIN es |-> entry[i]] /\ \A i \in DOMAIN es : entry[i].do \in D
  BY DEF Kinds, Outputs
<1>4. touch.do \in D
  BY DEF Kinds, Outputs
<1>5. Emit(TarPrefix(Now.prefix), entry \o <<touch>>)
  BY DEF OpenImage
<1> HIDE DEF es, entry, touch
<1>6. Does(entry \o <<touch>>, D)
  <2> HIDE DEF D
  <2>1. Does(entry, D)
    BY <1>2, <1>3, DoesEach
  <2>2. Does(<<touch>>, D)
    BY <1>4, DoesOne
  <2> QED
    BY <2>1, <2>2, DoesMore
<1>7. todo[1].do \notin Outputs
  BY <1>1 DEF Outputs
<1> QED
  BY <1>1, <1>5, <1>6, <1>7, EmitFresh

LEMMA AddFileDoes ==
  ASSUME AddFile
  PROVE  At("file") /\ formats' = formats /\ (Fail \/ \E es : Emit(es, <<>>))
<1> DEFINE f    == Now.f
           path == IF f.path[1] = "" THEN Tail(f.path) ELSE f.path
           dirs == Matching(Leading(path), ToSet(Leading(path)) \ added)
           uid  == IdNumeric(f.uid, Ids(cfg))
           file == CASE "directory" \in f.given -> Dir(path)
                     [] f.given \cap {"directory", "symlink"} = {"symlink"} -> Symlink(path, f.link)
                     [] OTHER -> Reg(path, f.body)
           es   == [i \in DOMAIN dirs |-> [Dir(dirs[i]) EXCEPT !.uid = uid]] \o <<[file EXCEPT !.uid = uid]>>
<1>1. At("file")
  BY ZenonT(60) DEF AddFile
<1>2. formats' = formats
  BY ZenonT(60) DEF AddFile
<1>3. Fail \/ Emit(<<>>, <<>>) \/ Emit(es, <<>>)
  BY ZenonT(60) DEF AddFile
<1> HIDE DEF f, path, dirs, uid, file, es
<1> QED
  BY <1>1, <1>2, <1>3

\* The steps that put nothing in their place.
LEMMA PlainFresh ==
  ASSUME BuildInv, FreshInv,
         ImageEntry \/ TouchFiles \/ CloseKernel \/ ImageBundle \/ AddFile \/ Addition \/ WriteMkimage
  PROVE  FreshInv'
<1> DEFINE whats == {"entry", "touch", "close", "bundle", "file", "addition", "create", "fill"}
<1>1. /\ \E what \in whats : At(what)
      /\ formats' = formats
      /\ \/ \E es : Emit(es, <<>>)
         \/ Then(<<>>) /\ status' = status
         \/ Fail
  <2>1. CASE ImageEntry
    <3>1. At("entry") /\ formats' = formats
      BY <2>1 DEF ImageEntry
    <3>2. \/ \E es : Emit(es, <<>>)
          \/ Then(<<>>) /\ status' = status
          \/ Fail
      BY <2>1 DEF ImageEntry
    <3> QED
      BY <3>1, <3>2
  <2>2. CASE TouchFiles
    <3>1. At("touch") /\ formats' = formats
      BY <2>2 DEF TouchFiles
    <3>2. \/ \E es : Emit(es, <<>>)
          \/ Then(<<>>) /\ status' = status
          \/ Fail
      BY <2>2 DEF TouchFiles
    <3> QED
      BY <3>1, <3>2
  <2>3. CASE CloseKernel
    <3>1. At("close") /\ formats' = formats
      BY <2>3 DEF CloseKernel
    <3>2. \/ \E es : Emit(es, <<>>)
          \/ Then(<<>>) /\ status' = status
          \/ Fail
      BY <2>3 DEF CloseKernel
    <3> QED
      BY <3>1, <3>2
  <2>4. CASE ImageBundle
    <3>1. At("bundle") /\ formats' = formats
      BY <2>4 DEF ImageBundle
    <3>2. \/ \E es : Emit(es, <<>>)
          \/ Then(<<>>) /\ status' = status
          \/ Fail
      BY <2>4 DEF ImageBundle
    <3> QED
      BY <3>1, <3>2
  <2>5. CASE AddFile
    <3>1. At("file") /\ formats' = formats
      BY <2>5, AddFileDoes
    <3>2. Fail \/ \E es : Emit(es, <<>>)
      BY <2>5, AddFileDoes
    <3> QED
      BY <3>1, <3>2
  <2>6. CASE Addition
    <3>1. At("addition") /\ formats' = formats
      BY <2>6 DEF Addition
    <3>2. \/ \E es : Emit(es, <<>>)
          \/ Then(<<>>) /\ status' = status
          \/ Fail
      BY <2>6 DEF Addition
    <3> QED
      BY <3>1, <3>2
  <2>7. CASE WriteMkimage
    <3>1. (At("create") \/ At("fill")) /\ formats' = formats
      BY <2>7 DEF WriteMkimage
    <3>2. \/ \E es : Emit(es, <<>>)
          \/ Then(<<>>) /\ status' = status
          \/ Fail
      BY <2>7 DEF WriteMkimage
    <3> QED
      BY <3>1, <3>2
  <2> QED
    BY <2>1, <2>2, <2>3, <2>4, <2>5, <2>6, <2>7
<1>2. todo # <<>> /\ todo[1].do \in whats /\ status = "building"
  BY <1>1, HeadIs
<1>3. todo[1].do \notin Outputs
  BY <1>2 DEF Outputs
<1> QED
  BY <1>1, <1>2, <1>3, DoesNone, EmitFresh

LEMMA OutputImageFresh ==
  ASSUME BuildInv, FreshInv, OutputImage
  PROVE  FreshInv'
<1> DEFINE D == Kinds \ Outputs
<1>1. todo # <<>> /\ todo[1].do = "container" /\ status = "building" /\ formats' = formats
  BY HeadIs DEF OutputImage
<1>2. PICK root, item :
        /\ item.do = "bundle"
        /\ \/ Fail
           \/ \E es : Emit(es, <<item>>)
           \/ \E es : Emit(es, <<ImageTar(Now.image, root, "tar", None), item>>)
  <2> DEFINE spec  == ConfigToOCI(Labels[Now.image], Now.yaml, Ids(cfg))
             root  == RootOf(Now.path, Now.image, spec.readonly)
             found == Now.image \in DOMAIN dup
             item  == [do |-> "bundle", to |-> "tar", image |-> Now.image, path |-> Now.path,
                       found |-> found, root |-> root]
  <2>1. \/ Fail
        \/ \E es : Emit(es, <<item>>)
        \/ \E es : Emit(es, <<ImageTar(Now.image, root, "tar", None), item>>)
    BY DEF OutputImage
  <2>2. item.do = "bundle"
    OBVIOUS
  <2> HIDE DEF spec, root, found, item
  <2> QED
    BY <2>1, <2>2
<1> DEFINE image == ImageTar(Now.image, root, "tar", None)
<1>3. image.do \in D /\ item.do \in D
  BY <1>2 DEF ImageTar, Kinds, Outputs
<1>4. Does(<<item>>, D) /\ Does(<<image, item>>, D)
  <2> HIDE DEF D, image
  <2>1. Does(<<item>>, D) /\ Does(<<image>>, D)
    BY <1>3, DoesOne
  <2> QED
    BY <2>1, OneAndOne, DoesMore
<1>5. todo[1].do \notin Outputs
  BY <1>1 DEF Outputs
<1>6. CASE Fail
  BY <1>1, <1>4, <1>5, <1>6, EmitFresh
<1>7. CASE \E es : Emit(es, <<item>>)
  BY <1>1, <1>4, <1>5, <1>7, EmitFresh
<1>8. CASE \E es : Emit(es, <<image, item>>)
  <2> HIDE DEF image
  <2> QED
    BY <1>1, <1>4, <1>5, <1>8, EmitFresh
<1> QED
  BY <1>2, <1>6, <1>7, <1>8

LEMMA EnsureMkimageFresh ==
  ASSUME BuildInv, FreshInv, EnsureMkimage
  PROVE  FreshInv'
<1> DEFINE D == Kinds \ Outputs
<1>1. todo # <<>> /\ todo[1].do = "mkimage" /\ status = "building" /\ formats' = formats
  BY HeadIs DEF EnsureMkimage
<1>2. (Then(<<>>) \/ Then(WriteParts)) /\ status' = status
  BY DEF EnsureMkimage
<1>3. Does(WriteParts, D)
  <2>1. /\ WriteParts \in Seq({WriteParts[i] : i \in 1..6}) /\ DOMAIN WriteParts = 1..6
        /\ WriteParts[1] = Create("kernel") /\ WriteParts[2] = Fill("kernel")
        /\ WriteParts[3] = Create("initrd") /\ WriteParts[4] = Fill("initrd")
        /\ WriteParts[5] = Create("cmdline") /\ WriteParts[6] = Fill("cmdline")
    BY DEF WriteParts
  <2>2. \A part : Create(part).do = "create" /\ Fill(part).do = "fill"
    BY DEF Create, Fill
  <2>3. \A i \in 1..6 : WriteParts[i].do \in {"create", "fill"}
    <3>1. \A i \in 1..6 : i \in {1, 2, 3, 4, 5, 6}
      OBVIOUS
    <3> QED
      BY <2>1, <2>2, <3>1
  <2>4. IsList(WriteParts)
    BY <2>1, ListIs
  <2> QED
    BY <2>1, <2>3, <2>4 DEF Does, Kinds, Outputs
<1>4. todo[1].do \notin Outputs
  BY <1>1 DEF Outputs
<1> QED
  BY <1>1, <1>2, <1>3, <1>4, DoesNone, EmitFresh

\* What stands behind an output is an output.
LEMMA OutputsBehind ==
  ASSUME BuildInv, FreshInv, todo # <<>>, todo[1].do \in Outputs
  PROVE  \A i \in DOMAIN todo : todo[i].do \in Outputs
<1>1. IsList(todo) /\ OutputsLast
  BY DEF BuildInv, BuildType, FreshInv
<1>2. Len(todo) \in Nat /\ DOMAIN todo = 1..Len(todo) /\ 1 \in DOMAIN todo
  BY <1>1, ListDomain
<1>3. ASSUME NEW i \in DOMAIN todo, i # 1
      PROVE  todo[i].do \in Outputs
  <2>1. 1 < i
    BY <1>2, <1>3
  <2> QED
    BY <1>1, <1>2, <2>1 DEF OutputsLast
<1> QED
  BY <1>3

\* What an output puts in its place, and what stays.
LEMMA OutputPlaced ==
  ASSUME BuildInv, FreshInv, todo # <<>>, todo[1].do \in Outputs,
         NEW items, Does(items, {"write"}), todo' = items \o Tail(todo)
  PROVE  /\ \A i \in DOMAIN todo' : todo'[i].do \in Outputs
         /\ OutputsLast'
         /\ \A i \in DOMAIN items : \E k \in DOMAIN todo' : todo'[k] = items[i]
         /\ \A i \in DOMAIN todo : i # 1 => \E k \in DOMAIN todo' : todo'[k] = todo[i]
<1> DEFINE n == Len(items)
<1>1. IsList(items) /\ IsList(todo)
  BY DEF Does, BuildInv, BuildType
<1>2. /\ DOMAIN todo' = 1..(n + Len(todo) - 1)
      /\ n \in Nat /\ Len(todo) \in Nat \ {0}
      /\ DOMAIN items = 1..n /\ DOMAIN todo = 1..Len(todo)
  BY <1>1, ListInPlace
<1>3. \A k \in 2..Len(todo) : todo'[n + k - 1] = todo[k]
  BY <1>1, ListInPlace
<1>4. \A k \in 1..(n + Len(todo) - 1) :
        \/ k \in 1..n /\ todo'[k] = items[k]
        \/ k > n /\ k - n + 1 \in 2..Len(todo) /\ todo'[k] = todo[k - n + 1]
  BY <1>1, ListInPlace
<1>5. \A k \in 1..n : todo'[k] = items[k]
  BY <1>1, ListInPlace
<1> HIDE DEF n
<1>6. ASSUME NEW i \in DOMAIN todo'
      PROVE  todo'[i].do \in Outputs
  <2> DEFINE k == i - n + 1
  <2>1. CASE i \in 1..n /\ todo'[i] = items[i]
    BY <1>2, <2>1 DEF Does, Outputs
  <2>2. CASE k \in 2..Len(todo) /\ todo'[i] = todo[k]
    <3>1. k \in DOMAIN todo
      BY <1>2, <2>2
    <3> HIDE DEF k
    <3> QED
      BY <2>2, <3>1, OutputsBehind
  <2> QED
    BY <1>2, <1>4, <2>1, <2>2
<1>7. OutputsLast'
  BY <1>6 DEF OutputsLast
<1>8. \A i \in DOMAIN items : i \in DOMAIN todo' /\ todo'[i] = items[i]
  BY <1>2, <1>5
<1>9. ASSUME NEW i \in DOMAIN todo, i # 1
      PROVE  \E k \in DOMAIN todo' : todo'[k] = todo[i]
  <2> DEFINE k == n + i - 1
  <2>1. k \in DOMAIN todo' /\ todo'[k] = todo[i]
    BY <1>2, <1>3, <1>9
  <2> HIDE DEF k
  <2> QED
    BY <2>1
<1> QED
  BY <1>6, <1>7, <1>8, <1>9

\* The split depends on the stream only.
LEMMA SplitKept ==
  ASSUME out' = out
  PROVE  SplitTar.kernel' = SplitTar.kernel /\ SplitTar.cmdline' = SplitTar.cmdline
<1>1. \A name : LastBody(name)' = LastBody(name)
  BY DEF LastBody
<1>2. /\ SplitTar.kernel = LastBody(<<"boot", "kernel">>)
      /\ SplitTar.cmdline = LastBody(<<"boot", "cmdline">>)
  BY DEF SplitTar
<1>3. /\ SplitTar.kernel' = LastBody(<<"boot", "kernel">>)'
      /\ SplitTar.cmdline' = LastBody(<<"boot", "cmdline">>)'
  BY DEF SplitTar
<1> QED
  BY <1>1, <1>2, <1>3

LEMMA OutputFormatFresh ==
  ASSUME BuildInv, FreshInv, OutputFormat
  PROVE  FreshInv'
<1> DEFINE items == Writes(Now.o, SplitTar)
<1>1. /\ todo # <<>> /\ todo[1].do = "format" /\ Now = todo[1] /\ status = "building"
      /\ todo[1].do \in Outputs
  BY HeadIs DEF OutputFormat, Outputs
<1>2. todo' = items \o Tail(todo) /\ UNCHANGED <<formats, out, disk, status, builds>>
  BY DEF OutputFormat, Then
<1>3. Does(items, {"write"})
  BY WritesDo
<1>4. SplitTar.kernel' = SplitTar.kernel /\ SplitTar.cmdline' = SplitTar.cmdline
  BY <1>2, SplitKept
<1>5. SplitTar.kernel # None /\ SplitTar.cmdline # None =>
        \A f \in FilesFor(Now.o) : \E i \in DOMAIN items : items[i].do = "write" /\ items[i].file = f
  <2> DEFINE s == SplitTar
  <2> HIDE DEF s
  <2> SUFFICES s.kernel # None /\ s.cmdline # None =>
                 \A f \in FilesFor(Now.o) : \E i \in DOMAIN Writes(Now.o, s) :
                   Writes(Now.o, s)[i].do = "write" /\ Writes(Now.o, s)[i].file = f
    BY DEF s
  <2> QED
    BY WritesAll
<1> HIDE DEF items
<1>6. /\ \A i \in DOMAIN todo' : todo'[i].do \in Outputs
      /\ OutputsLast'
      /\ \A i \in DOMAIN items : \E k \in DOMAIN todo' : todo'[k] = items[i]
      /\ \A i \in DOMAIN todo : i # 1 => \E k \in DOMAIN todo' : todo'[k] = todo[i]
  BY <1>1, <1>2, <1>3, OutputPlaced
<1>7. ASSUME NEW o, Pending(o) \/ Writable(o)
      PROVE  Pending(o)' \/ Writable(o)'
  <2>1. CASE Pending(o) /\ o # Now.o
    <3>1. PICK i \in DOMAIN todo : todo[i].do = "format" /\ todo[i].o = o
      BY <2>1 DEF Pending
    <3>2. i # 1
      BY <1>1, <2>1, <3>1
    <3>3. PICK k \in DOMAIN todo' : todo'[k] = todo[i]
      BY <1>6, <3>2
    <3> QED
      BY <3>1, <3>3 DEF Pending
  <2>2. CASE o = Now.o
    <3>1. SplitTar.kernel # None /\ SplitTar.cmdline # None =>
            \A f \in FilesFor(o) : \E k \in DOMAIN todo' : todo'[k].do = "write" /\ todo'[k].file = f
      BY <1>5, <1>6, <2>2
    <3> QED
      BY <1>4, <3>1 DEF Writable
  <2>3. CASE Writable(o)
    <3>1. ASSUME NEW f, \E i \in DOMAIN todo : todo[i].do = "write" /\ todo[i].file = f
          PROVE  \E k \in DOMAIN todo' : todo'[k].do = "write" /\ todo'[k].file = f
      <4>1. PICK i \in DOMAIN todo : todo[i].do = "write" /\ todo[i].file = f
        BY <3>1
      <4>2. i # 1
        BY <1>1, <4>1
      <4>3. PICK k \in DOMAIN todo' : todo'[k] = todo[i]
        BY <1>6, <4>2
      <4> QED
        BY <4>1, <4>3
    <3>2. \A f : Fresh(f)' <=> Fresh(f)
      BY <1>2 DEF Fresh
    <3> QED
      BY <1>4, <2>3, <3>1, <3>2 DEF Writable
  <2> QED
    BY <1>7, <2>1, <2>2, <2>3
<1>8. formats[1] \notin Streamable => \A k \in DOMAIN formats : Pending(formats[k]) \/ Writable(formats[k])
  BY <1>1 DEF FreshInv
<1>9. formats[1] \notin Streamable => \A k \in DOMAIN formats : Pending(formats[k])' \/ Writable(formats[k])'
  BY <1>2, <1>7, <1>8
<1> QED
  BY <1>1, <1>2, <1>6, <1>9 DEF FreshInv

LEMMA WriteOutputFresh ==
  ASSUME BuildInv, FreshInv, WriteOutput
  PROVE  FreshInv'
<1> DEFINE items == <<>>
<1>1. /\ todo # <<>> /\ todo[1].do = "write" /\ Now = todo[1] /\ status = "building"
      /\ todo[1].do \in Outputs
  BY HeadIs DEF WriteOutput, Outputs
<1> PICK file : file = todo[1].file
  OBVIOUS
<1>2. /\ todo' = items \o Tail(todo) /\ UNCHANGED <<formats, out, status, builds>>
      /\ disk' = [f \in DOMAIN disk \cup {Now.file} |->
                   IF f = Now.file THEN [format |-> Now.format, build |-> builds] ELSE disk[f]]
  BY DEF WriteOutput, Then
<1>3. Does(items, {"write"})
  BY DoesNone
<1>4. SplitTar.kernel' = SplitTar.kernel /\ SplitTar.cmdline' = SplitTar.cmdline
  BY <1>2, SplitKept
<1> HIDE DEF items
<1>5. /\ \A i \in DOMAIN todo' : todo'[i].do \in Outputs
      /\ OutputsLast'
      /\ \A i \in DOMAIN todo : i # 1 => \E k \in DOMAIN todo' : todo'[k] = todo[i]
  BY <1>1, <1>2, <1>3, OutputPlaced
<1>6. Fresh(file)' /\ \A f : Fresh(f) => Fresh(f)'
  <2>1. \A f \in DOMAIN disk \cup {file} :
          f \in DOMAIN disk' /\ disk'[f].build = IF f = file THEN builds ELSE disk[f].build
    BY <1>1, <1>2
  <2> QED
    BY <1>2, <2>1 DEF Fresh
<1>7. ASSUME NEW o, Pending(o)
      PROVE  Pending(o)'
  <2>1. PICK i \in DOMAIN todo : todo[i].do = "format" /\ todo[i].o = o
    BY <1>7 DEF Pending
  <2>2. i # 1
    BY <1>1, <2>1
  <2>3. PICK k \in DOMAIN todo' : todo'[k] = todo[i]
    BY <1>5, <2>2
  <2> QED
    BY <2>1, <2>3 DEF Pending
<1>8. ASSUME NEW f, \E i \in DOMAIN todo : todo[i].do = "write" /\ todo[i].file = f
      PROVE  Fresh(f)' \/ \E k \in DOMAIN todo' : todo'[k].do = "write" /\ todo'[k].file = f
  <2>1. PICK i \in DOMAIN todo : todo[i].do = "write" /\ todo[i].file = f
    BY <1>8
  <2>2. CASE i = 1
    BY <1>1, <1>6, <2>1, <2>2
  <2>3. CASE i # 1
    <3>1. PICK k \in DOMAIN todo' : todo'[k] = todo[i]
      BY <1>5, <2>3
    <3> QED
      BY <2>1, <3>1
  <2> QED
    BY <2>2, <2>3
<1>9. ASSUME NEW o, Writable(o)
      PROVE  Writable(o)'
  BY <1>4, <1>6, <1>8, <1>9 DEF Writable
<1>10. formats[1] \notin Streamable => \A k \in DOMAIN formats : Pending(formats[k]) \/ Writable(formats[k])
  BY <1>1 DEF FreshInv
<1>11. formats[1] \notin Streamable => \A k \in DOMAIN formats : Pending(formats[k])' \/ Writable(formats[k])'
  BY <1>2, <1>7, <1>9, <1>10
<1> QED
  BY <1>1, <1>2, <1>5, <1>11 DEF FreshInv

LEMMA StartBuildFresh ==
  ASSUME BuildInv, FreshInv, StartBuild
  PROVE  FreshInv'
<1>1. PICK files \in Configs, fs \in FormatLists :
        /\ todo' = Prerequisites(fs) \o BuildItems(Merged(files))
                     \o (IF fs[1] = "docker" THEN <<Do("addition")>> ELSE <<>>)
                     \o Prerequisites(fs)
                     \o FormatItems(fs)
        /\ formats' = fs
  BY DEF StartBuild
<1> DEFINE first == Prerequisites(fs)
           build == BuildItems(Merged(files))
           extra == IF fs[1] = "docker" THEN <<Do("addition")>> ELSE <<>>
           made  == FormatItems(fs)
           D     == Kinds \ Outputs
           rest  == ((first \o build) \o extra) \o first
           n     == Len(rest)
           l     == rest \o made
<1>2. status' = "building"
  BY DEF StartBuild
<1>3. /\ IsList(fs) /\ IsConfig(Merged(files))
      /\ \A i \in DOMAIN fs : fs[i] \in Streamable => Len(fs) = 1
  BY ConfigsAssumption, FormatsAssumption, MergedType
<1>4. todo' = l
  BY <1>1
<1>5. Does(first, D)
  <2>1. IsList(first) /\ \A i \in DOMAIN first : first[i].do = "mkimage"
    BY <1>3, PrerequisitesPlain DEF Plain
  <2> HIDE DEF first
  <2> QED
    BY <2>1 DEF Does, Kinds, Outputs
<1>6. Does(build, D)
  <2>1. Does(build, {"image", "close", "container", "file"})
    BY <1>3, BuildItemsDo
  <2> HIDE DEF build
  <2> QED
    BY <2>1 DEF Does, Kinds, Outputs
<1>7. Does(extra, D)
  <2> DEFINE t == Do("addition")
  <2>1. t.do \in D
    BY DEF Do, Kinds, Outputs
  <2>2. extra = <<t>> \/ extra = <<>>
    OBVIOUS
  <2> HIDE DEF t, extra, D
  <2> QED
    BY <2>1, <2>2, DoesOne, DoesNone
<1>8. Does(made, Outputs)
  BY <1>3, FormatItemsDo
<1>9. (\A k \in DOMAIN fs : fs[k] \notin Streamable) =>
        \A k \in DOMAIN fs : \E i \in DOMAIN made : made[i].do = "format" /\ made[i].o = fs[k]
  BY <1>3, FormatItemsAll
<1> HIDE DEF first, build, extra, made
<1>10. Does(rest, D)
  <2> HIDE DEF D
  <2>1. Does(first \o build, D)
    BY <1>5, <1>6, DoesMore
  <2>2. Does((first \o build) \o extra, D)
    BY <1>7, <2>1, DoesMore
  <2> QED
    BY <1>5, <2>2, DoesMore
<1> HIDE DEF rest
<1>11. /\ n \in Nat /\ DOMAIN l = 1..(n + Len(made)) /\ Len(made) \in Nat
       /\ DOMAIN rest = 1..n /\ DOMAIN made = 1..Len(made)
       /\ \A k \in 1..n : l[k] = rest[k]
       /\ \A k \in 1..Len(made) : l[n + k] = made[k]
  <2>1. IsList(rest) /\ IsList(made)
    BY <1>8, <1>10 DEF Does
  <2> QED
    BY <2>1, ListConcat, ListDomain
<1> HIDE DEF n, l
<1>12. ASSUME NEW i \in DOMAIN l
       PROVE  l[i].do \in Outputs <=> i > n
  <2>1. CASE i \in 1..n
    BY <1>10, <1>11, <2>1 DEF Does
  <2>2. CASE i \notin 1..n
    <3> DEFINE k == i - n
    <3>1. k \in 1..Len(made) /\ n + k = i
      BY <1>11, <2>2
    <3> HIDE DEF k
    <3>2. l[n + k] = made[k]
      BY <1>11, <3>1
    <3> QED
      BY <1>8, <1>11, <2>2, <3>1, <3>2 DEF Does
  <2> QED
    BY <2>1, <2>2
<1>13. OutputsLast'
  <2>1. \A i, j \in DOMAIN l : i < j /\ i > n => j > n
    BY <1>11
  <2>2. \A i, j \in DOMAIN l : i < j /\ l[i].do \in Outputs => l[j].do \in Outputs
    BY <1>12, <2>1
  <2> QED
    BY <1>4, <2>2 DEF OutputsLast
<1>14. ASSUME fs[1] \notin Streamable, NEW k \in DOMAIN fs
       PROVE  Pending(fs[k])'
  <2>1. fs[k] \notin Streamable /\ \A j \in DOMAIN fs : fs[j] \notin Streamable
    <3>1. DOMAIN fs = 1..Len(fs)
      BY <1>3, ListDomain
    <3> QED
      BY <1>3, <1>14, <3>1
  <2>2. PICK i \in DOMAIN made : made[i].do = "format" /\ made[i].o = fs[k]
    BY <1>9, <2>1
  <2> DEFINE m == n + i
  <2>3. m \in DOMAIN l /\ l[m] = made[i]
    BY <1>11
  <2> HIDE DEF m
  <2>4. \E j \in DOMAIN todo' : todo'[j].do = "format" /\ todo'[j].o = fs[k]
    BY <1>4, <2>2, <2>3
  <2> QED
    BY <1>1, <2>4 DEF Pending
<1>15. formats'[1] \notin Streamable => \A k \in DOMAIN formats' : Pending(fs[k])'
  BY <1>1, <1>14
<1> QED
  BY <1>1, <1>2, <1>13, <1>15 DEF FreshInv

LEMMA FinishFresh ==
  ASSUME BuildInv, FreshInv, Finish
  PROVE  FreshInv'
<1>1. /\ status = "building" /\ todo = <<>> /\ status' = "done"
      /\ UNCHANGED <<formats, todo, out, disk, builds>>
  BY DEF Finish
<1>2. SplitTar.kernel' = SplitTar.kernel /\ SplitTar.cmdline' = SplitTar.cmdline
  BY <1>1, SplitKept
<1>3. \A o : (Pending(o)' <=> Pending(o)) /\ (Writable(o)' <=> Writable(o))
  BY <1>1, <1>2 DEF Pending, Writable, Fresh
<1>4. OutputsLast'
  BY <1>1 DEF FreshInv, OutputsLast
<1>5. formats[1] \notin Streamable =>
        \A k \in DOMAIN formats :
          \/ Pending(formats[k])
          \/ (\A i \in DOMAIN todo : todo[i].do \in Outputs) /\ Writable(formats[k])
  BY <1>1 DEF FreshInv
<1>6. formats[1] \notin Streamable =>
        \A k \in DOMAIN formats :
          \/ Pending(formats[k])'
          \/ (\A i \in DOMAIN todo' : todo'[i].do \in Outputs) /\ Writable(formats[k])'
  BY <1>1, <1>3, <1>5
<1> QED
  BY <1>1, <1>4, <1>6 DEF FreshInv

LEMMA StoppedFresh ==
  ASSUME todo = <<>>, status \in {"idle", "failed"}
  PROVE  FreshInv
BY EmptyList DEF FreshInv, OutputsLast

LEMMA SameFresh ==
  ASSUME FreshInv, UNCHANGED vars
  PROVE  FreshInv'
<1>1. UNCHANGED <<formats, todo, out, disk, status, builds>>
  BY DEF vars
<1>2. SplitTar.kernel' = SplitTar.kernel /\ SplitTar.cmdline' = SplitTar.cmdline
  BY <1>1, SplitKept
<1>3. \A o : (Pending(o)' <=> Pending(o)) /\ (Writable(o)' <=> Writable(o))
  BY <1>1, <1>2 DEF Pending, Writable, Fresh
<1>4. OutputsLast'
  BY <1>1 DEF FreshInv, OutputsLast
<1>5. status \in {"building", "done"} /\ formats[1] \notin Streamable =>
        \A k \in DOMAIN formats :
          \/ Pending(formats[k])'
          \/ (\A i \in DOMAIN todo' : todo'[i].do \in Outputs) /\ Writable(formats[k])'
  BY <1>1, <1>3 DEF FreshInv
<1> QED
  BY <1>1, <1>4, <1>5 DEF FreshInv

THEOREM FreshInvariant == Spec => []FreshInv
<1>1. Init => FreshInv
  BY StoppedFresh DEF Init
<1>2. BuildInv /\ FreshInv /\ [Next]_vars => FreshInv'
  <2> SUFFICES ASSUME BuildInv, FreshInv, [Next]_vars
               PROVE  FreshInv'
    OBVIOUS
  <2>1. CASE StartBuild
    BY <2>1, StartBuildFresh
  <2>2. CASE OpenImage
    BY <2>2, OpenImageFresh
  <2>3. CASE ImageEntry \/ TouchFiles \/ CloseKernel \/ ImageBundle \/ AddFile \/ Addition \/ WriteMkimage
    BY <2>3, PlainFresh
  <2>4. CASE OutputImage
    BY <2>4, OutputImageFresh
  <2>5. CASE OutputFormat
    BY <2>5, OutputFormatFresh
  <2>6. CASE WriteOutput
    BY <2>6, WriteOutputFresh
  <2>7. CASE EnsureMkimage
    BY <2>7, EnsureMkimageFresh
  <2>8. CASE Finish
    BY <2>8, FinishFresh
  <2>9. CASE Abort
    <3>1. (todo = <<>> /\ status \in {"idle", "failed"})'
      BY <2>9 DEF Abort, Fail
    <3> QED
      BY <3>1, StoppedFresh, PTL
  <2>10. CASE UNCHANGED vars
    BY <2>10, SameFresh
  <2> QED
    BY <2>1, <2>2, <2>3, <2>4, <2>5, <2>6, <2>7, <2>8, <2>9, <2>10 DEF Next
<1> QED
  BY <1>1, <1>2, BuildInvariant, PTL DEF Spec

\* A build that succeeds has written every file of the formats asked for, for every list of
\* formats and whatever earlier builds left: each format stays in the list of things to do until
\* it has put the writes of all its files there, and the stream that decides which files these
\* are does not change after the first of them.
THEOREM OutputsNew == Spec => []OutputsFresh
<1>1. BuildInv /\ FreshInv => OutputsFresh
  <2> SUFFICES ASSUME FreshInv, status = "done", formats[1] \notin Streamable,
                      SplitTar.kernel # None, SplitTar.cmdline # None,
                      NEW k \in DOMAIN formats, NEW f \in FilesFor(formats[k])
               PROVE  f \in DOMAIN disk /\ disk[f].build = builds
    BY DEF OutputsFresh
  <2>1. DOMAIN todo = {}
    BY EmptyList DEF FreshInv
  <2>2. Writable(formats[k])
    BY <2>1 DEF FreshInv, Pending
  <2> QED
    BY <2>1, <2>2 DEF Writable, Fresh
<1> QED
  BY <1>1, BuildInvariant, FreshInvariant, PTL

(***************************************************************************)
(* The files of the kernel image arrive                                    *)
(***************************************************************************)

\* The last entry of a name.
LEMMA GreatestOf ==
  ASSUME NEW S \in SUBSET Nat, S # {}, NEW n \in Nat, \A i \in S : i <= n
  PROVE  \E m \in S : \A j \in S : j <= m
<1> DEFINE R == {n - i : i \in S}
<1>1. R \in SUBSET Nat /\ R # {}
  <2>1. \A i \in S : i \in Nat /\ n - i \in Nat
    OBVIOUS
  <2> QED
    BY <2>1
<1>2. PICK r \in R : \A k \in R : r <= k
  <2> HIDE DEF R
  <2> QED
    BY <1>1, LeastOf
<1>3. PICK m \in S : r = n - m
  BY <1>2
<1>4. ASSUME NEW j \in S
      PROVE  j <= m
  <2>1. r <= n - j
    BY <1>2
  <2> QED
    BY <1>3, <2>1
<1> QED
  BY <1>4

LEMMA LastLacks ==
  ASSUME NEW es, NEW name, \A i \in DOMAIN es : es[i].name # name
  PROVE  LastOf(es, name) = None
BY DEF LastOf

LEMMA LastIs ==
  ASSUME NEW es, IsList(es), NEW name, NEW m \in DOMAIN es, es[m].name = name,
         \A j \in DOMAIN es : es[j].name = name => j <= m
  PROVE  LastOf(es, name) = es[m].body
<1> DEFINE at == {i \in DOMAIN es : es[i].name = name}
           l  == CHOOSE i \in at : \A j \in at : j <= i
<1>1. m \in at /\ \A j \in at : j <= m
  OBVIOUS
<1>2. l \in at /\ \A j \in at : j <= l
  BY <1>1
<1>3. DOMAIN es \subseteq Nat
  BY ListDomain
<1>4. l = m
  <2>1. l \in Nat /\ m \in Nat /\ l <= m /\ m <= l
    BY <1>1, <1>2, <1>3
  <2> HIDE DEF l
  <2> QED
    BY <2>1
<1>5. LastOf(es, name) = es[l].body
  BY <1>1 DEF LastOf
<1> HIDE DEF l
<1> QED
  BY <1>4, <1>5

LEMMA LastFound ==
  ASSUME NEW es, IsList(es), NEW name, NEW i \in DOMAIN es, es[i].name = name
  PROVE  \E m \in DOMAIN es :
           /\ es[m].name = name /\ \A j \in DOMAIN es : es[j].name = name => j <= m
           /\ LastOf(es, name) = es[m].body
<1> DEFINE at == {k \in DOMAIN es : es[k].name = name}
<1>1. Len(es) \in Nat /\ DOMAIN es = 1..Len(es)
  BY ListDomain
<1>2. at \in SUBSET Nat /\ at # {} /\ \A k \in at : k <= Len(es)
  BY <1>1
<1>3. PICK m \in at : \A j \in at : j <= m
  <2> HIDE DEF at
  <2> QED
    BY <1>1, <1>2, GreatestOf
<1>4. /\ m \in DOMAIN es /\ es[m].name = name
      /\ \A j \in DOMAIN es : es[j].name = name => j <= m
  BY <1>3
<1> HIDE DEF at
<1> QED
  BY <1>4, LastIs

LEMMA LastConcat ==
  ASSUME NEW a, NEW b, IsList(a), IsList(b), NEW name, \A i \in DOMAIN b : b[i].name # name
  PROVE  LastOf(a \o b, name) = LastOf(a, name)
<1>1. /\ IsList(a \o b) /\ DOMAIN (a \o b) = 1..(Len(a) + Len(b))
      /\ \A k \in 1..Len(a) : (a \o b)[k] = a[k]
      /\ \A k \in DOMAIN (a \o b) :
           \/ k \in DOMAIN a /\ (a \o b)[k] = a[k]
           \/ k - Len(a) \in DOMAIN b /\ (a \o b)[k] = b[k - Len(a)]
      /\ Len(a) \in Nat /\ Len(b) \in Nat /\ DOMAIN a = 1..Len(a)
  BY ListConcat, ListDomain
<1> DEFINE c == a \o b
<1> HIDE DEF c
<1>2. \A k \in DOMAIN c : c[k].name = name => k \in DOMAIN a /\ c[k] = a[k]
  BY <1>1 DEF c
<1>3. CASE \E i \in DOMAIN a : a[i].name = name
  <2>1. PICK m \in DOMAIN a :
          /\ a[m].name = name /\ \A j \in DOMAIN a : a[j].name = name => j <= m
          /\ LastOf(a, name) = a[m].body
    BY <1>3, LastFound
  <2>2. m \in DOMAIN c /\ c[m] = a[m]
    BY <1>1 DEF c
  <2>3. \A j \in DOMAIN c : c[j].name = name => j <= m
    BY <1>2, <2>1
  <2>4. LastOf(c, name) = c[m].body
    BY <1>1, <2>1, <2>2, <2>3, LastIs DEF c
  <2> QED
    BY <2>1, <2>2, <2>4 DEF c
<1>4. CASE \A i \in DOMAIN a : a[i].name # name
  <2>1. \A i \in DOMAIN c : c[i].name # name
    BY <1>2, <1>4
  <2> QED
    BY <1>4, <2>1, LastLacks DEF c
<1> QED
  BY <1>3, <1>4

LEMMA LastAdded ==
  ASSUME NEW a, IsList(a), NEW e
  PROVE  LastOf(a \o <<e>>, e.name) = e.body
<1> DEFINE b == <<e>>
           c == a \o b
<1>1. IsList(b) /\ Len(b) = 1 /\ b[1] = e
  <2>1. b \in Seq({e}) /\ Len(b) = 1 /\ b[1] = e
    OBVIOUS
  <2> HIDE DEF b
  <2> QED
    BY <2>1, ListIs
<1> HIDE DEF b
<1>2. /\ IsList(c) /\ DOMAIN c = 1..(Len(a) + Len(b))
      /\ \A k \in 1..Len(b) : c[Len(a) + k] = b[k]
  <2>1. IsList(a) /\ IsList(b)
    BY <1>1
  <2> QED
    BY <2>1, ListConcat
<1> Len(a) \in Nat
  BY ListDomain
<1> HIDE DEF c
<1> DEFINE m == Len(a) + 1
<1>3. m \in DOMAIN c /\ c[m] = e /\ \A j \in DOMAIN c : j <= m
  BY <1>1, <1>2
<1> HIDE DEF m
<1>4. LastOf(c, e.name) = c[m].body
  BY <1>2, <1>3, LastIs
<1> QED
  BY <1>3, <1>4 DEF b, c

LEMMA LastInAll ==
  ASSUME NEW es, IsList(es), NEW p \in Nat, Len(es) <= p, NEW name
  PROVE  LastIn(es, p, name) = LastOf(es, name)
<1>1. DOMAIN es = 1..Len(es) /\ Len(es) \in Nat
  BY ListDomain
<1>2. \A i \in DOMAIN es : i <= p
  BY <1>1
<1>3. {i \in DOMAIN es : i <= p /\ es[i].name = name} = {i \in DOMAIN es : es[i].name = name}
  BY <1>2
<1> DEFINE pick(at) == IF at = {} THEN None ELSE es[CHOOSE i \in at : \A j \in at : j <= i].body
           early == {i \in DOMAIN es : i <= p /\ es[i].name = name}
           all   == {i \in DOMAIN es : es[i].name = name}
<1>4. LastIn(es, p, name) = pick(early) /\ LastOf(es, name) = pick(all)
  BY DEF LastIn, LastOf
<1>5. early = all
  BY <1>3
<1> HIDE DEF pick, early, all
<1> QED
  BY <1>4, <1>5

LEMMA LastInSkip ==
  ASSUME NEW es, IsList(es), NEW p \in Nat, NEW name, p + 1 \in DOMAIN es => es[p + 1].name # name
  PROVE  LastIn(es, p + 1, name) = LastIn(es, p, name)
<1>1. DOMAIN es = 1..Len(es) /\ Len(es) \in Nat
  BY ListDomain
<1>2. \A i \in DOMAIN es : (i <= p + 1) <=> (i <= p \/ i = p + 1)
  BY <1>1
<1>3. {i \in DOMAIN es : i <= p + 1 /\ es[i].name = name} = {i \in DOMAIN es : i <= p /\ es[i].name = name}
  BY <1>2
<1> DEFINE pick(at) == IF at = {} THEN None ELSE es[CHOOSE i \in at : \A j \in at : j <= i].body
           more == {i \in DOMAIN es : i <= p + 1 /\ es[i].name = name}
           less == {i \in DOMAIN es : i <= p /\ es[i].name = name}
<1>4. LastIn(es, p + 1, name) = pick(more) /\ LastIn(es, p, name) = pick(less)
  BY DEF LastIn
<1>5. more = less
  BY <1>3
<1> HIDE DEF pick, more, less
<1> QED
  BY <1>4, <1>5

LEMMA LastInMeets ==
  ASSUME NEW es, IsList(es), NEW p \in Nat, NEW name, p + 1 \in DOMAIN es, es[p + 1].name = name
  PROVE  LastIn(es, p + 1, name) = es[p + 1].body
<1> DEFINE at == {i \in DOMAIN es : i <= p + 1 /\ es[i].name = name}
           l  == CHOOSE i \in at : \A j \in at : j <= i
<1>1. DOMAIN es = 1..Len(es) /\ Len(es) \in Nat
  BY ListDomain
<1>2. p + 1 \in at /\ \A j \in at : j <= p + 1
  OBVIOUS
<1>3. l \in at /\ \A j \in at : j <= l
  BY <1>2
<1>4. l = p + 1
  <2>1. l \in Nat /\ l <= p + 1 /\ p + 1 <= l
    BY <1>1, <1>2, <1>3
  <2> HIDE DEF l
  <2> QED
    BY <2>1
<1>5. LastIn(es, p + 1, name) = es[l].body
  BY <1>2 DEF LastIn
<1> HIDE DEF l
<1> QED
  BY <1>4, <1>5

LEMMA BodySkip ==
  ASSUME IsList(KernelImage), NEW p \in Nat, NEW name,
         p + 1 \in DOMAIN KernelImage => KernelImage[p + 1].name # name
  PROVE  Body(p + 1, name) = Body(p, name)
BY LastInSkip DEF Body

LEMMA BodyMeets ==
  ASSUME IsList(KernelImage), NEW p \in Nat, NEW name, name # None,
         p + 1 \in DOMAIN KernelImage, KernelImage[p + 1].name = name
  PROVE  Body(p + 1, name) = KernelImage[p + 1].body
BY LastInMeets DEF Body

\* Entries that leave the files of the kernel image alone.
BootFiles == {KernelFile, CmdlineFile, UcodeFile}
Aside(es) == IsList(es) /\ \A i \in DOMAIN es : es[i].name \notin BootFiles

LEMMA BootFilesDiffer ==
  /\ KernelFile # CmdlineFile /\ KernelFile # UcodeFile /\ CmdlineFile # UcodeFile
  /\ KernelFile # None /\ CmdlineFile # None /\ UcodeFile # None
BY DEF KernelFile, CmdlineFile, UcodeFile, None

LEMMA AsideKeeps ==
  ASSUME NEW a, IsList(a), NEW es, Aside(es), NEW file \in BootFiles
  PROVE  LastOf(a \o es, file) = LastOf(a, file)
BY LastConcat DEF Aside

LEMMA OtherKeeps ==
  ASSUME NEW a, IsList(a), NEW e, NEW file, e.name # file
  PROVE  LastOf(a \o <<e>>, file) = LastOf(a, file)
<1> DEFINE b == <<e>>
<1>1. b \in Seq({e}) /\ DOMAIN b = 1..1 /\ b[1] = e
  OBVIOUS
<1> HIDE DEF b
<1>2. IsList(b) /\ \A i \in DOMAIN b : b[i].name # file
  BY <1>1, ListIs
<1> QED
  BY <1>2, LastConcat DEF b

LEMMA UnpackedMore ==
  ASSUME NEW s, IsList(s), NEW es, IsList(es), NEW body, Unpacked(s, body)
  PROVE  Unpacked(s \o es, body)
<1>1. /\ DOMAIN (s \o es) = 1..(Len(s) + Len(es))
      /\ \A k \in 1..Len(s) : (s \o es)[k] = s[k]
  BY ListConcat
<1>2. DOMAIN s = 1..Len(s) /\ Len(s) \in Nat /\ Len(es) \in Nat
  BY ListDomain
<1> DEFINE c == s \o es
<1> HIDE DEF c
<1>3. \A j \in DOMAIN s : j \in DOMAIN c /\ c[j] = s[j]
  BY <1>1, <1>2 DEF c
<1>4. Unpacked(c, body)
  BY <1>3 DEF Unpacked
<1> QED
  BY <1>4 DEF c

LEMMA UnpackedNow ==
  ASSUME NEW s, IsList(s), NEW body \in DOMAIN KernelTar, IsList(KernelTar[body])
  PROVE  Unpacked(s \o KernelTar[body], body)
<1> DEFINE es == KernelTar[body]
           c  == s \o es
<1>1. /\ DOMAIN c = 1..(Len(s) + Len(es))
      /\ \A k \in 1..Len(es) : c[Len(s) + k] = es[k]
  BY ListConcat
<1>2. DOMAIN es = 1..Len(es) /\ Len(s) \in Nat /\ Len(es) \in Nat
  BY ListDomain
<1> HIDE DEF c, es
<1>3. ASSUME NEW i \in DOMAIN es
      PROVE  \E j \in DOMAIN c : c[j].name = es[i].name
  <2> DEFINE j == Len(s) + i
  <2>1. j \in DOMAIN c /\ c[j] = es[i]
    BY <1>1, <1>2
  <2> HIDE DEF j
  <2> QED
    BY <2>1
<1> QED
  BY <1>3 DEF Unpacked, c, es

LEMMA ArchiveAside ==
  ASSUME BootIsOurs, NEW body \in DOMAIN KernelTar
  PROVE  Aside(KernelTar[body]) /\ IsList(KernelTar[body])
<1>1. IsList(KernelTar[body])
  BY ArchivesAssumption DEF IsArchive
<1>2. ASSUME NEW i \in DOMAIN KernelTar[body]
      PROVE  KernelTar[body][i].name \notin BootFiles
  <2>1. ~InBoot(KernelTar[body][i].name)
    BY <1>2 DEF BootIsOurs
  <2>2. \A name : name \in BootFiles => InBoot(name)
    BY DEF InBoot, BootFiles, KernelFile, CmdlineFile, UcodeFile
  <2> QED
    BY <2>1, <2>2, Zenon
<1> QED
  BY <1>1, <1>2 DEF Aside

\* What finishTar sends to the stream arrives there.
LEMMA FinishTarArrives ==
  ASSUME BootIsOurs, NEW k, IsFilter(k), NEW p, Arrived(k, p)
  PROVE  \/ FinishTar(k).failed
         \/ Arrived(FinishTar(k), p) /\ ~FinishTar(k).open /\ FinishTar(k).hdr = NoHdr
<1>1. CASE ~k.open
  <2>1. FinishTar(k) = k
    BY <1>1 DEF FinishTar
  <2> QED
    BY <1>1, <2>1 DEF Arrived
<1>2. CASE k.open /\ k.hdr # NoHdr /\ ~(cfg.unzip /\ Unzipped(k.buf) = None)
  <2> DEFINE e == [k.hdr EXCEPT !.body = IF cfg.unzip THEN Unzipped(k.buf) ELSE k.buf]
             l == [k EXCEPT !.out = Append(@, e), !.hdr = NoHdr, !.open = FALSE]
  <2>1. FinishTar(k) = l
    BY <1>2 DEF FinishTar
  <2>2. k.hdr = Reg(KernelFile, None) /\ IsList(k.out)
    BY <1>2 DEF IsFilter, KernelFile, IsArchive
  <2>3. e.name = KernelFile /\ e.body = Ready(k.buf)
    <3>1. cfg.unzip => Unzipped(k.buf) = Unzip[k.buf]
      BY <1>2 DEF Unzipped
    <3> QED
      BY <2>2, <3>1 DEF Reg, Ready
  <2> HIDE DEF e
  <2>4. Append(k.out, e) = k.out \o <<e>>
    <3>1. k.out \in Seq(ToSet(k.out) \cup {e})
      BY <2>2, SeqMonotonic DEF IsList
    <3>2. e \in ToSet(k.out) \cup {e}
      OBVIOUS
    <3> QED
      BY <3>1, <3>2, AppendIsConcat
  <2> DEFINE o == k.out \o <<e>>
  <2>5. /\ LastOf(o, KernelFile) = Ready(k.buf)
        /\ LastOf(o, CmdlineFile) = LastOf(k.out, CmdlineFile)
        /\ LastOf(o, UcodeFile) = LastOf(k.out, UcodeFile)
    <3>1. LastOf(o, e.name) = e.body
      BY <2>2, LastAdded
    <3>2. e.name # CmdlineFile /\ e.name # UcodeFile
      BY <2>3, BootFilesDiffer
    <3> QED
      BY <2>2, <2>3, <3>1, <3>2, OtherKeeps
  <2>6. \A body : Unpacked(k.out, body) => Unpacked(o, body)
    <3>1. IsList(<<e>>)
      BY ListIs, <<e>> \in Seq({e})
    <3> QED
      BY <2>2, <3>1, UnpackedMore
  <2> HIDE DEF o
  <2>7. /\ l.out = o /\ l.hdr = NoHdr /\ l.open = FALSE /\ l.buf = k.buf
        /\ l.kernel = k.kernel /\ l.tar = k.tar /\ l.failed = k.failed
    BY <2>4 DEF IsFilter, o
  <2> HIDE DEF l
  <2>8. Arrived(l, p)
    BY <1>2, <2>5, <2>6, <2>7 DEF Arrived
  <2> QED
    BY <2>1, <2>7, <2>8
<1>3. CASE k.open /\ k.hdr = NoHdr /\ k.buf \in DOMAIN KernelTar
  <2> DEFINE o == k.out \o KernelTar[k.buf]
             l == [k EXCEPT !.out = o, !.open = FALSE]
  <2>1. FinishTar(k) = l
    BY <1>3 DEF FinishTar
  <2>2. IsList(k.out)
    BY DEF IsFilter, IsArchive
  <2>3. Aside(KernelTar[k.buf]) /\ IsList(KernelTar[k.buf])
    BY <1>3, ArchiveAside
  <2>4. \A file \in BootFiles : LastOf(o, file) = LastOf(k.out, file)
    BY <2>2, <2>3, AsideKeeps
  <2>5. Unpacked(o, k.buf)
    BY <1>3, <2>2, <2>3, UnpackedNow
  <2> HIDE DEF o
  <2>6. /\ l.out = o /\ l.hdr = NoHdr /\ l.open = FALSE
        /\ l.kernel = k.kernel /\ l.tar = k.tar /\ l.failed = k.failed
    BY <1>3 DEF IsFilter
  <2> HIDE DEF l
  <2>7. Arrived(l, p)
    BY <1>3, <2>4, <2>5, <2>6 DEF Arrived, BootFiles
  <2> QED
    BY <2>1, <2>6, <2>7
<1>4. CASE \/ k.open /\ k.hdr # NoHdr /\ cfg.unzip /\ Unzipped(k.buf) = None
           \/ k.open /\ k.hdr = NoHdr /\ k.buf \notin DOMAIN KernelTar
  <2>1. FinishTar(k) = [k EXCEPT !.failed = TRUE]
    BY <1>4 DEF FinishTar
  <2> QED
    BY <2>1 DEF IsFilter
<1> QED
  BY <1>1, <1>2, <1>3, <1>4 DEF IsFilter

LEMMA AsideOne ==
  ASSUME NEW e, e.name \notin BootFiles
  PROVE  Aside(<<e>>)
<1> DEFINE b == <<e>>
<1>1. b \in Seq({e}) /\ DOMAIN b = 1..1 /\ b[1] = e
  OBVIOUS
<1> HIDE DEF b
<1>2. IsList(b) /\ \A i \in DOMAIN b : b[i].name \notin BootFiles
  BY <1>1, ListIs
<1> QED
  BY <1>2 DEF Aside, b

LEMMA AsideNone == Aside(<<>>)
BY EmptyList DEF Aside

LEMMA AsideMore ==
  ASSUME NEW a, NEW b, Aside(a), Aside(b)
  PROVE  Aside(a \o b)
<1>1. IsList(a) /\ IsList(b)
  BY DEF Aside
<1>2. IsList(a \o b)
  BY <1>1, ListConcat
<1>3. ASSUME NEW k \in DOMAIN (a \o b)
      PROVE  (a \o b)[k].name \notin BootFiles
  <2>1. \/ k \in DOMAIN a /\ (a \o b)[k] = a[k]
        \/ k - Len(a) \in DOMAIN b /\ (a \o b)[k] = b[k - Len(a)]
    BY <1>1, ListConcat
  <2> QED
    BY <2>1 DEF Aside
<1> QED
  BY <1>2, <1>3 DEF Aside

\* A file of the boot directory and, if need be, the directory.
LEMMA BootAdded ==
  ASSUME NEW s, IsList(s), NEW k, NEW there \in BOOLEAN, NEW e
  PROVE  LET o == s \o BootDir(k, there) \o <<e>> IN
         /\ LastOf(o, e.name) = e.body
         /\ \A file \in BootFiles : file # e.name => LastOf(o, file) = LastOf(s, file)
         /\ \A body : Unpacked(s, body) => Unpacked(o, body)
<1> DEFINE d == BootDir(k, there)
           r == s \o d
           o == r \o <<e>>
<1>1. Aside(d)
  <2>1. Dir(<<"boot">>).name \notin BootFiles
    BY DEF Dir, BootFiles, KernelFile, CmdlineFile, UcodeFile
  <2> QED
    BY <2>1, AsideOne, AsideNone DEF BootDir
<1> HIDE DEF d
<1>2. IsList(d)
  BY <1>1 DEF Aside
<1>3. IsList(r) /\ \A file \in BootFiles : LastOf(r, file) = LastOf(s, file)
  BY <1>1, <1>2, ListConcat, AsideKeeps
<1>4. \A body : Unpacked(s, body) => Unpacked(r, body)
  BY <1>2, UnpackedMore
<1> HIDE DEF r
<1>5. LastOf(o, e.name) = e.body
  BY <1>3, LastAdded
<1>6. \A file : file # e.name => LastOf(o, file) = LastOf(r, file)
  BY <1>3, OtherKeeps
<1>7. \A body : Unpacked(r, body) => Unpacked(o, body)
  <2>1. IsList(<<e>>)
    BY ListIs, <<e>> \in Seq({e})
  <2> QED
    BY <1>3, <2>1, UnpackedMore
<1>8. o = s \o BootDir(k, there) \o <<e>>
  BY DEF d, r
<1> HIDE DEF o
<1> QED
  BY <1>3, <1>4, <1>5, <1>6, <1>7, <1>8

\* An entry that is not looked for.
LEMMA ForeignArrives ==
  ASSUME BootIsOurs, NEW k, IsFilter(k), NEW p, Arrived(k, p),
         NEW e, e.name \notin {KernelName(cfg), TarName(cfg), cfg.ucode}
  PROVE  KernelEntry(k, e).failed \/ Arrived(KernelEntry(k, e), p)
<1> DEFINE l == FinishTar(k)
<1>1. l.failed \/ Arrived(l, p)
  BY FinishTarArrives
<1>2. KernelEntry(k, e) = l
  BY DEF KernelEntry
<1> HIDE DEF l
<1> QED
  BY <1>1, <1>2

LEMMA EntrySkipped ==
  ASSUME IsList(KernelImage), NEW k, NEW p \in Nat, Arrived(k, p),
         p + 1 \in DOMAIN KernelImage =>
           KernelImage[p + 1].name \notin {KernelName(cfg), TarName(cfg), cfg.ucode}
  PROVE  Arrived(k, p + 1)
<1>1. /\ Body(p + 1, KernelName(cfg)) = Body(p, KernelName(cfg))
      /\ Body(p + 1, TarName(cfg)) = Body(p, TarName(cfg))
      /\ Body(p + 1, cfg.ucode) = Body(p, cfg.ucode)
  BY BodySkip
<1> QED
  BY <1>1 DEF Arrived

LEMMA KernelImageIs ==
  ASSUME BootIsOurs, cfg.kimage[1] \in DOMAIN Tars
  PROVE  /\ IsList(KernelImage) /\ IsArchive(KernelImage)
         /\ \A i \in DOMAIN KernelImage : Clear(KernelImage[i].name) /\ KernelImage[i].name # None
BY ArchivesAssumption DEF KernelImage, IsArchive, BootIsOurs, Clear, None

\* The next entry of the kernel image.
LEMMA EntryArrives ==
  ASSUME BootIsOurs, cfg.kimage[1] \in DOMAIN Tars, NamesApart(cfg),
         NEW k0, IsFilter(k0), NEW p \in Nat, Arrived(k0, p),
         p + 1 \in DOMAIN KernelImage, NEW e, e.name = KernelImage[p + 1].name, e.body = KernelImage[p + 1].body
  PROVE  KernelEntry(k0, e).failed \/ Arrived(KernelEntry(k0, e), p + 1)
<1> DEFINE k == FinishTar(k0)
           K == KernelName(cfg)
           T == TarName(cfg)
           U == cfg.ucode
           cmdline == Reg(CmdlineFile, cfg.cmdline)
           ucode   == Reg(UcodeFile, e.body)
           full    == k.out \o BootDir(k, k.ucode) \o <<cmdline>>
           code    == k.out \o BootDir(k, k.kernel) \o <<ucode>>
           begun   == [k EXCEPT !.kernel = TRUE, !.open = TRUE, !.buf = e.body,
                                !.hdr = Reg(KernelFile, None), !.out = full]
           packed  == [k EXCEPT !.tar = TRUE, !.open = TRUE, !.buf = e.body]
           coded   == [k EXCEPT !.ucode = TRUE, !.out = code]
<1>1. IsFilter(k)
  BY FinishTarType
<1>2. k.failed \/ (Arrived(k, p) /\ ~k.open /\ k.hdr = NoHdr)
  BY FinishTarArrives
<1>3. IsList(KernelImage) /\ e.name # None /\ e.name = KernelImage[p + 1].name
  BY KernelImageIs
<1>4. U # None => U # K /\ U # T
  BY DEF NamesApart
<1>5. KernelEntry(k0, e) =
        CASE k.failed -> k
          [] ~k.failed /\ e.name = K /\ k.kernel -> [k EXCEPT !.failed = TRUE]
          [] ~k.failed /\ e.name = K /\ ~k.kernel -> begun
          [] ~k.failed /\ e.name # K /\ e.name = T -> packed
          [] ~k.failed /\ e.name # K /\ e.name # T /\ e.name = U -> coded
          [] OTHER -> k
  BY DEF KernelEntry, KernelFile, CmdlineFile, UcodeFile
<1> HIDE DEF k
<1>6. IsList(k.out) /\ k.kernel \in BOOLEAN /\ k.ucode \in BOOLEAN
  BY <1>1 DEF IsFilter, IsArchive
<1>7. [k EXCEPT !.failed = TRUE].failed
  BY <1>1 DEF IsFilter
<1>8. ASSUME ~k.failed, e.name = K, ~k.kernel
      PROVE  Arrived(begun, p + 1)
  <2>1. cmdline.name = CmdlineFile /\ cmdline.body = cfg.cmdline
    BY DEF Reg
  <2>2. Arrived(k, p) /\ ~k.open
    BY <1>2, <1>8
  <2> HIDE DEF cmdline
  <2>3. /\ LastOf(full, CmdlineFile) = cfg.cmdline
        /\ LastOf(full, UcodeFile) = LastOf(k.out, UcodeFile)
        /\ \A body : Unpacked(k.out, body) => Unpacked(full, body)
    <3>1. LastOf(full, cmdline.name) = cmdline.body
      BY <1>6, BootAdded
    <3>2. \A file \in BootFiles : file # cmdline.name => LastOf(full, file) = LastOf(k.out, file)
      BY <1>6, BootAdded
    <3>3. \A body : Unpacked(k.out, body) => Unpacked(full, body)
      BY <1>6, BootAdded
    <3> HIDE DEF full
    <3> QED
      BY <2>1, <3>1, <3>2, <3>3, BootFilesDiffer DEF BootFiles
  <2>4. Body(p + 1, K) = e.body
    BY <1>3, <1>8, BodyMeets
  <2>5. Body(p + 1, U) = Body(p, U)
    <3>1. U # e.name
      BY <1>3, <1>4, <1>8
    <3> QED
      BY <1>3, <3>1, BodySkip
  <2>6. T # K => Body(p + 1, T) = Body(p, T)
    BY <1>3, <1>8, BodySkip
  <2> HIDE DEF full
  <2>7. /\ begun.out = full /\ begun.hdr = Reg(KernelFile, None) /\ begun.open /\ begun.buf = e.body
        /\ begun.kernel /\ begun.tar = k.tar /\ begun.failed = k.failed
    BY <1>1 DEF IsFilter
  <2>8. begun.hdr # NoHdr
    BY <2>7, BootFilesDiffer DEF NoHdr, Reg
  <2> HIDE DEF begun
  <2> QED
    BY <1>8, <2>2, <2>3, <2>4, <2>5, <2>6, <2>7, <2>8 DEF Arrived
<1>9. ASSUME ~k.failed, e.name # K, e.name = T
      PROVE  Arrived(packed, p + 1)
  <2>1. Arrived(k, p) /\ ~k.open /\ k.hdr = NoHdr
    BY <1>2, <1>9
  <2>2. Body(p + 1, T) = e.body
    BY <1>3, <1>9, BodyMeets
  <2>3. Body(p + 1, K) = Body(p, K)
    BY <1>3, <1>9, BodySkip
  <2>4. Body(p + 1, U) = Body(p, U)
    <3>1. U # e.name
      BY <1>3, <1>4, <1>9
    <3> QED
      BY <1>3, <3>1, BodySkip
  <2>5. /\ packed.out = k.out /\ packed.hdr = k.hdr /\ packed.open /\ packed.buf = e.body
        /\ packed.kernel = k.kernel /\ packed.tar /\ packed.failed = k.failed
    BY <1>1 DEF IsFilter
  <2> HIDE DEF packed
  <2> QED
    BY <1>9, <2>1, <2>2, <2>3, <2>4, <2>5 DEF Arrived
<1>10. ASSUME ~k.failed, e.name # K, e.name # T, e.name = U
       PROVE  Arrived(coded, p + 1)
  <2>1. ucode.name = UcodeFile /\ ucode.body = e.body
    BY DEF Reg
  <2>2. Arrived(k, p) /\ ~k.open /\ k.hdr = NoHdr
    BY <1>2, <1>10
  <2> HIDE DEF ucode
  <2>3. /\ LastOf(code, UcodeFile) = e.body
        /\ LastOf(code, CmdlineFile) = LastOf(k.out, CmdlineFile)
        /\ LastOf(code, KernelFile) = LastOf(k.out, KernelFile)
        /\ \A body : Unpacked(k.out, body) => Unpacked(code, body)
    <3>1. LastOf(code, ucode.name) = ucode.body
      BY <1>6, BootAdded
    <3>2. \A file \in BootFiles : file # ucode.name => LastOf(code, file) = LastOf(k.out, file)
      BY <1>6, BootAdded
    <3>3. \A body : Unpacked(k.out, body) => Unpacked(code, body)
      BY <1>6, BootAdded
    <3> HIDE DEF code
    <3> QED
      BY <2>1, <3>1, <3>2, <3>3, BootFilesDiffer DEF BootFiles
  <2>4. Body(p + 1, U) = e.body
    BY <1>3, <1>10, BodyMeets
  <2>5. Body(p + 1, K) = Body(p, K) /\ Body(p + 1, T) = Body(p, T)
    BY <1>3, <1>10, BodySkip
  <2> HIDE DEF code
  <2>6. /\ coded.out = code /\ coded.hdr = k.hdr /\ coded.open = k.open /\ coded.buf = k.buf
        /\ coded.kernel = k.kernel /\ coded.tar = k.tar /\ coded.failed = k.failed
    BY <1>1 DEF IsFilter
  <2> HIDE DEF coded
  <2> QED
    BY <1>10, <2>2, <2>3, <2>4, <2>5, <2>6 DEF Arrived
<1>11. ASSUME ~k.failed, e.name \notin {K, T, U}
       PROVE  Arrived(k, p + 1)
  <2>1. Arrived(k, p)
    BY <1>2, <1>11
  <2> QED
    BY <1>3, <1>11, <2>1, EntrySkipped
<1> HIDE DEF begun, packed, coded, K, T, U
<1> QED
  BY <1>5, <1>7, <1>8, <1>9, <1>10, <1>11

LEMMA FailedStays ==
  ASSUME NEW k, IsFilter(k), k.failed, NEW e
  PROVE  KernelEntry(k, e).failed
<1> DEFINE l == FinishTar(k)
<1>1. l.failed
  <2>1. \/ l = k
        \/ l = [k EXCEPT !.failed = TRUE]
        \/ l = [k EXCEPT !.out = Append(@, [k.hdr EXCEPT !.body = IF cfg.unzip THEN Unzipped(k.buf) ELSE k.buf]),
                         !.hdr = NoHdr, !.open = FALSE]
        \/ l = [k EXCEPT !.out = @ \o KernelTar[k.buf], !.open = FALSE]
    BY DEF FinishTar, IsFilter
  <2> HIDE DEF l
  <2> QED
    BY <2>1 DEF IsFilter
<1>2. l.failed => KernelEntry(k, e) = l
  BY DEF KernelEntry
<1> HIDE DEF l
<1> QED
  BY <1>1, <1>2

\* Entries that are not looked for, one after the other.
Foreign(name) == name \notin {KernelName(cfg), TarName(cfg), cfg.ucode}

LEMMA ForeignThrough ==
  ASSUME BootIsOurs, IsFilter(kf), IsArchive(out), NEW p, Arrived([kf EXCEPT !.out = out], p),
         NEW es, IsList(es), \A i \in DOMAIN es : Foreign(es[i].name)
  PROVE  Through(es).failed \/ Arrived(Through(es), p)
<1> DEFINE f == CHOOSE f : Filterings(es, f, Len(es))
<1>1. Len(es) \in Nat /\ DOMAIN es = 1..Len(es)
  BY ListDomain
<1>2. Filterings(es, f, Len(es))
  BY <1>1, FilteringsExist
<1>3. Through(es) = f[Len(es)]
  BY DEF Through, Filterings, Filtered
<1> HIDE DEF f
<1>4. \A i \in 0..Len(es) : f[i] = Filtered(es, f, i)
  BY <1>2 DEF Filterings
<1> DEFINE Good(k) == IsFilter(k) /\ (k.failed \/ Arrived(k, p))
           Bad == {m \in 0..Len(es) : ~Good(f[m])}
<1>5. ASSUME Bad # {} PROVE FALSE
  <2>1. PICK m \in Bad : \A k \in Bad : m <= k
    <3>1. Bad \in SUBSET Nat
      BY <1>1
    <3> HIDE DEF Bad
    <3> QED
      BY <1>5, <3>1, LeastOf
  <2>2. m \in 0..Len(es) /\ ~Good(f[m])
    BY <2>1
  <2>3. CASE m = 0
    <3>1. f[m] = [kf EXCEPT !.out = out]
      BY <1>4, <2>2, <2>3 DEF Filtered
    <3>2. IsFilter([kf EXCEPT !.out = out])
      BY DEF IsFilter
    <3> QED
      BY <2>2, <3>1, <3>2
  <2>4. CASE m # 0
    <3>1. m - 1 \in 0..Len(es) /\ m - 1 \notin Bad /\ m \in DOMAIN es
      BY <1>1, <2>1, <2>2, <2>4
    <3>2. Good(f[m - 1])
      BY <3>1
    <3> DEFINE k == f[m - 1]
               e == es[m]
    <3>3. f[m] = KernelEntry(k, e)
      BY <1>4, <2>2, <2>4 DEF Filtered
    <3>4. IsFilter(k) /\ (k.failed \/ Arrived(k, p))
      BY <3>2
    <3>5. Foreign(e.name)
      BY <3>1
    <3> HIDE DEF k, e
    <3>6. IsFilter(KernelEntry(k, e))
      BY <3>4, KernelEntryType
    <3>7. KernelEntry(k, e).failed \/ Arrived(KernelEntry(k, e), p)
      BY <3>4, <3>5, FailedStays, ForeignArrives DEF Foreign
    <3> QED
      BY <2>2, <3>3, <3>6, <3>7
  <2> QED
    BY <2>3, <2>4
<1>6. Len(es) \in 0..Len(es)
  BY <1>1
<1> QED
  BY <1>3, <1>5, <1>6

LEMMA ThroughOne ==
  ASSUME NEW e
  PROVE  Through(<<e>>) = KernelEntry([kf EXCEPT !.out = out], e)
<1> DEFINE es == <<e>>
           f  == CHOOSE f : Filterings(es, f, Len(es))
<1>1. Len(es) = 1 /\ es[1] = e
  OBVIOUS
<1>2. Filterings(es, f, Len(es))
  BY <1>1, FilteringsExist
<1>3. Through(es) = f[Len(es)]
  BY DEF Through, Filterings, Filtered
<1> HIDE DEF f, es
<1>4. \A i \in 0..1 : f[i] = Filtered(es, f, i)
  BY <1>1, <1>2 DEF Filterings
<1>5. f[0] = [kf EXCEPT !.out = out] /\ f[1] = KernelEntry(f[0], es[1])
  BY <1>4 DEF Filtered
<1> QED
  BY <1>1, <1>3, <1>5 DEF es

\* What the filter has does not depend on when one looks.
LEMMA ArrivedStays ==
  ASSUME cfg' = cfg, NEW k, NEW p
  PROVE  /\ Arrived(k, p)' <=> Arrived(k, p)
         /\ KernelImage' = KernelImage /\ KernelItem(p)' = KernelItem(p)
<1>1. /\ KernelImage' = KernelImage /\ KernelName(cfg)' = KernelName(cfg) /\ TarName(cfg)' = TarName(cfg)
      /\ cfg.ucode' = cfg.ucode /\ cfg.cmdline' = cfg.cmdline
  BY DEF KernelImage
<1>2. \A name : Body(p, name)' = Body(p, name)
  BY <1>1 DEF Body
<1>3. \A body : Ready(body)' = Ready(body)
  BY DEF Ready
<1>4. Arrived(k, p)' <=> Arrived(k, p)
  BY <1>1, <1>2, <1>3 DEF Arrived
<1>5. KernelItem(p)' = KernelItem(p)
  BY <1>1 DEF KernelItem
<1> QED
  BY <1>1, <1>4, <1>5

LEMMA WholeStays ==
  ASSUME cfg' = cfg, IsList(out), NEW es, Aside(es), out' = out \o es, Whole
  PROVE  Whole'
<1>1. /\ KernelImage' = KernelImage /\ KernelName(cfg)' = KernelName(cfg) /\ TarName(cfg)' = TarName(cfg)
      /\ cfg.ucode' = cfg.ucode /\ cfg.cmdline' = cfg.cmdline
  BY DEF KernelImage
<1> DEFINE n == Len(KernelImage)
<1>2. \A name : Body(n, name)' = Body(n, name)
  BY <1>1 DEF Body
<1>3. \A body : Ready(body)' = Ready(body)
  BY DEF Ready
<1>4. \A file \in BootFiles : LastOf(out', file) = LastOf(out, file)
  BY AsideKeeps
<1>5. \A body : Unpacked(out, body) => Unpacked(out', body)
  BY UnpackedMore DEF Aside
<1> QED
  BY <1>1, <1>2, <1>3, <1>4, <1>5 DEF Whole, BootFiles

\* The first item is done and leaves nothing behind.
LEMMA TailOnly ==
  ASSUME NEW t, IsList(t), t # <<>>
  PROVE  /\ IsList(<<>> \o Tail(t)) /\ Len(<<>> \o Tail(t)) = Len(t) - 1
         /\ DOMAIN (<<>> \o Tail(t)) = 1..(Len(t) - 1) /\ Len(t) \in Nat \ {0} /\ DOMAIN t = 1..Len(t)
         /\ \A k \in 1..(Len(t) - 1) : (<<>> \o Tail(t))[k] = t[k + 1]
<1> DEFINE a == <<>>
           u == a \o Tail(t)
<1>1. IsList(a) /\ Len(a) = 0
  BY EmptyList
<1> HIDE DEF a
<1>2. /\ IsList(u) /\ Len(u) = Len(a) + Len(t) - 1
      /\ DOMAIN u = 1..(Len(a) + Len(t) - 1)
      /\ Len(t) \in Nat \ {0}
      /\ DOMAIN t = 1..Len(t)
      /\ \A k \in 2..Len(t) : u[Len(a) + k - 1] = t[k]
  <2>1. IsList(a) /\ IsList(t) /\ t # <<>>
    BY <1>1
  <2> QED
    BY <2>1, ListInPlace
<1> HIDE DEF u
<1>3. ASSUME NEW k \in 1..(Len(t) - 1)
      PROVE  u[k] = t[k + 1]
  <2> DEFINE m == k + 1
  <2>1. m \in 2..Len(t) /\ Len(a) + m - 1 = k
    BY <1>1, <1>2
  <2> HIDE DEF m
  <2>2. u[Len(a) + m - 1] = t[m]
    BY <1>2, <2>1
  <2> QED
    BY <2>1, <2>2 DEF m
<1>4. IsList(u) /\ Len(u) = Len(t) - 1 /\ DOMAIN u = 1..(Len(t) - 1)
  BY <1>1, <1>2
<1> QED
  BY <1>2, <1>3, <1>4 DEF a, u

\* An item of the kernel image has gone through the filter.
LEMMA WithinMoves ==
  ASSUME BootIsOurs, IsList(todo), todo # <<>>, cfg.kimage[1] \in DOMAIN Tars, cfg' = cfg,
         NEW p \in 0..Len(KernelImage), Within(p), todo' = <<>> \o Tail(todo),
         Arrived([kf' EXCEPT !.out = out'], p + 1)
  PROVE  Within(p + 1)'
<1>1. Len(KernelImage) \in Nat
  BY KernelImageIs, ListDomain
<1> DEFINE n == Len(KernelImage)
           left == n + 2 - p
           less == n + 2 - (p + 1)
<1>2. /\ Len(todo') = Len(todo) - 1 /\ DOMAIN todo' = 1..(Len(todo) - 1)
      /\ Len(todo) \in Nat \ {0} /\ DOMAIN todo = 1..Len(todo)
      /\ \A k \in 1..(Len(todo) - 1) : todo'[k] = todo[k + 1]
  BY TailOnly
<1>3. /\ left <= Len(todo)
      /\ \A i \in DOMAIN todo : IF i <= left THEN todo[i] = KernelItem(p + i) ELSE Tame(todo[i])
  BY DEF Within
<1>4. less = left - 1 /\ less <= Len(todo')
  BY <1>1, <1>2, <1>3
<1>5. ASSUME NEW i \in DOMAIN todo'
      PROVE  IF i <= less THEN todo'[i] = KernelItem((p + 1) + i) ELSE Tame(todo'[i])
  <2> DEFINE j == i + 1
  <2>0. i \in 1..(Len(todo) - 1) /\ Len(todo) \in Nat /\ todo'[i] = todo[i + 1]
    BY <1>2
  <2>1. j \in DOMAIN todo /\ todo'[i] = todo[j] /\ j \in Nat
    BY <2>0, <1>2
  <2>a. (p + 1) + i = p + j
    BY <2>0
  <2>b. (j <= left) <=> (i <= less)
    BY <2>0, <1>1
  <2> HIDE DEF j, left, less
  <2>2. IF j <= left THEN todo[j] = KernelItem(p + j) ELSE Tame(todo[j])
    BY <1>3, <2>1
  <2> QED
    BY <2>1, <2>2, <2>a, <2>b
<1>6. KernelImage' = KernelImage /\ \A m : KernelItem(m)' = KernelItem(m)
  BY ArrivedStays
<1>7. Arrived([kf EXCEPT !.out = out], p + 1)'
  <2>1. PICK k : k = [kf' EXCEPT !.out = out']
    OBVIOUS
  <2>2. Arrived(k, p + 1)
    BY <2>1
  <2>3. Arrived(k, p + 1)'
    BY <2>2, ArrivedStays
  <2> QED
    BY <2>1, <2>3
<1> DEFINE more == p + 1
<1>8. /\ Len(KernelImage') + 2 - more <= Len(todo')
      /\ \A i \in DOMAIN todo' :
           IF i <= Len(KernelImage') + 2 - more THEN todo'[i] = KernelItem(more + i)' ELSE Tame(todo'[i])
  BY <1>4, <1>5, <1>6
<1> QED
  BY <1>7, <1>8 DEF Within

\* Items that leave the files of the kernel image alone.
TameAll(items) == IsList(items) /\ \A i \in DOMAIN items : Tame(items[i])

LEMMA TameOne ==
  ASSUME NEW t, Tame(t)
  PROVE  TameAll(<<t>>)
<1> DEFINE b == <<t>>
<1>1. b \in Seq({t}) /\ DOMAIN b = 1..1 /\ b[1] = t
  OBVIOUS
<1> HIDE DEF b
<1>2. IsList(b) /\ \A i \in DOMAIN b : Tame(b[i])
  BY <1>1, ListIs
<1> QED
  BY <1>2 DEF TameAll, b

LEMMA TameNone == TameAll(<<>>)
BY EmptyList DEF TameAll

LEMMA TameMore ==
  ASSUME NEW a, NEW b, TameAll(a), TameAll(b)
  PROVE  TameAll(a \o b)
<1>1. IsList(a) /\ IsList(b)
  BY DEF TameAll
<1>2. IsList(a \o b)
  BY <1>1, ListConcat
<1>3. ASSUME NEW k \in DOMAIN (a \o b)
      PROVE  Tame((a \o b)[k])
  <2>1. \/ k \in DOMAIN a /\ (a \o b)[k] = a[k]
        \/ k - Len(a) \in DOMAIN b /\ (a \o b)[k] = b[k - Len(a)]
    BY <1>1, ListConcat
  <2> QED
    BY <2>1 DEF TameAll
<1> QED
  BY <1>2, <1>3 DEF TameAll

LEMMA TameEach ==
  ASSUME NEW s, IsList(s), NEW f, f = [i \in DOMAIN s |-> f[i]], \A i \in DOMAIN s : Tame(f[i])
  PROVE  TameAll(f)
<1>1. Len(s) \in Nat /\ DOMAIN s = 1..Len(s)
  BY ListDomain
<1>2. IsList(f)
  BY <1>1, Listed
<1>3. DOMAIN f = DOMAIN s
  OBVIOUS
<1> QED
  BY <1>2, <1>3 DEF TameAll

\* The first item is replaced by others.
LEMMA TameInPlace ==
  ASSUME NEW a, TameAll(a), NEW t, IsList(t), t # <<>>, \A i \in DOMAIN t : Tame(t[i])
  PROVE  \A i \in DOMAIN (a \o Tail(t)) : Tame((a \o Tail(t))[i])
<1> DEFINE u == a \o Tail(t)
<1>1. /\ DOMAIN u = 1..(Len(a) + Len(t) - 1)
      /\ DOMAIN a = 1..Len(a) /\ DOMAIN t = 1..Len(t) /\ Len(t) \in Nat
      /\ \A k \in 1..(Len(a) + Len(t) - 1) :
           \/ k \in 1..Len(a) /\ u[k] = a[k]
           \/ k > Len(a) /\ k - Len(a) + 1 \in 2..Len(t) /\ u[k] = t[k - Len(a) + 1]
  BY ListInPlace DEF TameAll
<1> HIDE DEF u
<1>2. ASSUME NEW k \in DOMAIN u
      PROVE  Tame(u[k])
  <2>1. \/ k \in DOMAIN a /\ u[k] = a[k]
        \/ k - Len(a) + 1 \in DOMAIN t /\ u[k] = t[k - Len(a) + 1]
    <3>1. \A j \in 2..Len(t) : j \in DOMAIN t
      BY <1>1
    <3> QED
      BY <1>1, <3>1
  <2> QED
    BY <2>1 DEF TameAll
<1> QED
  BY <1>2 DEF u

LEMMA ClosedStays ==
  ASSUME Closed, IsList(todo), IsList(out), todo # <<>>, cfg' = cfg,
         NEW items, TameAll(items), todo' = items \o Tail(todo), NEW es, Aside(es), out' = out \o es
  PROVE  Closed'
<1>1. \A i \in DOMAIN todo : Tame(todo[i])
  BY DEF Closed
<1>2. \A i \in DOMAIN todo' : Tame(todo'[i])
  BY <1>1, TameInPlace
<1>3. Whole'
  BY WholeStays DEF Closed
<1> QED
  BY <1>2, <1>3 DEF Closed

LEMMA SplitSame ==
  ASSUME cfg' = cfg, split' = split, KernelSplit
  PROVE  KernelSplit'
BY DEF KernelSplit, BodyOf, Has, KernelName, TarName

LEMMA SplitKeeps ==
  ASSUME SplitInv, cfg.kimage # None, cfg' = cfg, KernelSplit',
         status' = "building" =>
           Unopened' \/ Closed' \/ \E p \in 0..(Len(KernelImage) + 1) : Within(p)'
  PROVE  SplitInv'
<1>1. KernelImage' = KernelImage
  BY DEF KernelImage
<1>2. cfg.kimage[1] \in DOMAIN Tars /\ NamesApart(cfg)
  BY DEF SplitInv
<1>3. (cfg.kimage[1] \in DOMAIN Tars)' /\ NamesApart(cfg)'
  BY <1>2 DEF NamesApart, KernelName, TarName
<1> QED
  BY <1>1, <1>3 DEF SplitInv

\* Which part of the build an item that is to be done belongs to.
LEMMA Phases ==
  ASSUME BootIsOurs, BuildInv, SplitInv, cfg.kimage # None, NEW what, At(what)
  PROVE  /\ cfg.kimage[1] \in DOMAIN Tars /\ NamesApart(cfg) /\ KernelSplit
         /\ \/ Closed /\ Tame(Now)
            \/ /\ what \in Tool /\ out = <<>> /\ kf = Filter
               /\ \E m \in 2..(Len(todo) - 1) : Starts(todo, m)
            \/ /\ what = "image" /\ out = <<>> /\ kf = Filter
               /\ Len(todo) >= 2 /\ Starts(todo, 1) /\ Now = ImageTar(cfg.kimage[1], None, "kernel", None)
            \/ /\ what = "entry"
               /\ \E p \in 0..(Len(KernelImage) - 1) :
                    Within(p) /\ p + 1 \in DOMAIN KernelImage /\ Now = KernelItem(p + 1)
            \/ what = "touch" /\ Within(Len(KernelImage)) /\ Now = KernelItem(Len(KernelImage) + 1)
            \/ what = "close" /\ Within(Len(KernelImage) + 1)
<1>1. todo # <<>> /\ Now = todo[1] /\ todo[1].do = what /\ status = "building" /\ 1 \in DOMAIN todo
  BY HeadIs, AtHead
<1>2. /\ cfg.kimage[1] \in DOMAIN Tars /\ NamesApart(cfg) /\ KernelSplit
      /\ Unopened \/ Closed \/ \E p \in 0..(Len(KernelImage) + 1) : Within(p)
  BY <1>1 DEF SplitInv
<1>3. IsList(todo) /\ Len(todo) \in Nat /\ DOMAIN todo = 1..Len(todo)
  BY ListDomain DEF BuildInv, BuildType
<1>4. IsList(KernelImage) /\ Len(KernelImage) \in Nat /\ DOMAIN KernelImage = 1..Len(KernelImage)
  BY <1>2, KernelImageIs, ListDomain
<1>5. CASE Closed
  BY <1>1, <1>2, <1>5 DEF Closed
<1>6. CASE Unopened
  <2>1. PICK m \in 1..(Len(todo) - 1) : out = <<>> /\ kf = Filter /\ Starts(todo, m)
    BY <1>6 DEF Unopened
  <2>2. CASE m = 1
    <3>1. todo[1] = ImageTar(cfg.kimage[1], None, "kernel", None) /\ Len(todo) >= 2
      BY <1>1, <1>3, <2>1, <2>2 DEF Starts
    <3>2. what = "image"
      BY <3>1, <1>1 DEF ImageTar
    <3> QED
      BY <1>1, <1>2, <2>1, <2>2, <3>1, <3>2
  <2>3. CASE m # 1
    <3>1. m \in 2..(Len(todo) - 1) /\ 1 < m
      BY <1>3, <2>3
    <3>2. what \in Tool
      BY <1>1, <2>1, <3>1 DEF Starts
    <3> QED
      BY <1>2, <2>1, <3>1, <3>2
  <2> QED
    BY <2>2, <2>3
<1>7. ASSUME NEW p \in 0..(Len(KernelImage) + 1), Within(p)
      PROVE  \/ what = "entry" /\ p \in 0..(Len(KernelImage) - 1) /\ p + 1 \in DOMAIN KernelImage
                  /\ Now = KernelItem(p + 1)
             \/ what = "touch" /\ p = Len(KernelImage) /\ Now = KernelItem(p + 1)
             \/ what = "close" /\ p = Len(KernelImage) + 1
  <2> DEFINE n == Len(KernelImage)
  <2>1. todo[1] = KernelItem(p + 1)
    BY <1>1, <1>4, <1>7 DEF Within
  <2>2. CASE p + 1 <= n
    <3>1. KernelItem(p + 1).do = "entry"
      BY <2>2 DEF KernelItem
    <3>2. n \in Nat /\ p \in Nat
      BY <1>4
    <3>3. p \in 0..(n - 1) /\ p + 1 \in 1..n
      BY <2>2, <3>2
    <3> QED
      BY <1>1, <1>4, <2>1, <3>1, <3>3
  <2>3. CASE p = n
    <3>1. KernelItem(p + 1).do = "touch"
      BY <1>4, <2>3 DEF KernelItem
    <3> QED
      BY <1>1, <1>4, <2>1, <2>3, <3>1
  <2>4. CASE p = n + 1
    <3>1. KernelItem(p + 1).do = "close"
      BY <1>4, <2>4 DEF KernelItem, Do
    <3> QED
      BY <1>1, <1>4, <2>1, <2>4, <3>1
  <2>5. n \in Nat /\ p \in 0..(n + 1)
    BY <1>4
  <2>6. p + 1 <= n \/ p = n \/ p = n + 1
    BY <2>5
  <2> QED
    BY <2>6, <2>2, <2>3, <2>4
<1> QED
  BY <1>2, <1>5, <1>6, <1>7

\* A step that ends the build, or is of a build without a kernel.
LEMMA SplitEnds ==
  ASSUME SplitInv, cfg' = cfg, split' = split, status' # "building"
  PROVE  SplitInv'
<1>1. CASE cfg.kimage = None
  BY <1>1 DEF SplitInv
<1>2. CASE cfg.kimage # None
  <2>1. KernelSplit'
    BY <1>2, SplitSame DEF SplitInv
  <2> QED
    BY <1>2, <2>1, SplitKeeps
<1> QED
  BY <1>1, <1>2

\* A tame item puts its entries on the stream.
LEMMA TameStep ==
  ASSUME BuildInv, SplitInv, cfg.kimage # None, Closed, Tame(Now), Now.do \notin Outputs, todo # <<>>,
         cfg' = cfg, split' = split,
         NEW items, TameAll(items), NEW es, Aside(es), Emit(es, items)
  PROVE  SplitInv'
<1>1. out' = out \o es /\ todo' = items \o Tail(todo)
  BY DEF Tame, Emit, Then
<1>2. IsList(todo) /\ IsList(out)
  BY DEF BuildInv, BuildType, IsArchive
<1>3. Closed'
  BY <1>1, <1>2, ClosedStays
<1>4. KernelSplit'
  BY SplitSame DEF SplitInv
<1> QED
  BY <1>3, <1>4, SplitKeeps

LEMMA BootFileIs ==
  ASSUME NEW file \in BootFiles
  PROVE  Len(file) = 2 /\ file[1] = "boot" /\ file[2] \in {"kernel", "cmdline", "ucode.cpio"}
<1>1. file = KernelFile \/ file = CmdlineFile \/ file = UcodeFile
  BY DEF BootFiles
<1>2. CASE file = KernelFile
  BY <1>2 DEF KernelFile
<1>3. CASE file = CmdlineFile
  BY <1>3 DEF CmdlineFile
<1>4. CASE file = UcodeFile
  BY <1>4 DEF UcodeFile
<1> QED
  BY <1>1, <1>2, <1>3, <1>4

LEMMA ClearAside ==
  ASSUME NEW name, Clear(name)
  PROVE  name \notin BootFiles
<1> SUFFICES ASSUME name \in BootFiles PROVE FALSE
  OBVIOUS
<1>1. Len(name) = 2 /\ name[1] = "boot" /\ name[2] \in {"kernel", "cmdline", "ucode.cpio"}
  BY BootFileIs
<1> QED
  BY <1>1 DEF Clear

LEMMA PrefixedAside ==
  ASSUME NEW prefix, Prefixed(prefix), NEW name, IsList(name), prefix = None => name \notin BootFiles
  PROVE  prefix \o name \notin BootFiles
<1>1. CASE prefix = None
  <2>1. prefix \o name = name
    BY <1>1 DEF None, IsList
  <2> QED
    BY <1>1, <2>1
<1>2. CASE prefix # None
  <2>1. IsList(prefix) /\ prefix[1] = "containers" /\ Len(prefix) \in Nat /\ Len(prefix) # 0
    BY <1>2, ListDomain DEF Prefixed, None
  <2>2. \A k \in 1..Len(prefix) : (prefix \o name)[k] = prefix[k]
    BY <2>1, ListConcat
  <2>3. (prefix \o name)[1] = "containers"
    BY <2>1, <2>2
  <2> DEFINE whole == prefix \o name
  <2> HIDE DEF whole
  <2>4. whole \in BootFiles => whole[1] = "boot"
    BY BootFileIs
  <2>5. whole[1] # "boot"
    BY <2>3 DEF whole
  <2> QED
    BY <2>4, <2>5 DEF whole
<1> QED
  BY <1>1, <1>2

LEMMA InsideAside ==
  ASSUME NEW path, Prefixed(path), path # None, NEW f
  PROVE  Append(path, f) \notin BootFiles
<1>1. IsList(path) /\ path[1] = "containers" /\ Len(path) \in Nat /\ Len(path) # 0
  BY ListDomain DEF Prefixed, None
<1> DEFINE S == ToSet(path) \cup {f}
<1>2. path \in Seq(S) /\ f \in S
  BY <1>1, SeqMonotonic DEF IsList
<1> HIDE DEF S
<1>3. \A k \in 1..Len(path) : Append(path, f)[k] = path[k]
  BY <1>2, AppendProperties
<1>4. Append(path, f)[1] = "containers"
  BY <1>1, <1>3
<1> DEFINE whole == Append(path, f)
<1> HIDE DEF whole
<1>5. whole \in BootFiles => whole[1] = "boot"
  BY BootFileIs
<1>6. whole[1] # "boot"
  BY <1>4 DEF whole
<1> QED
  BY <1>5, <1>6 DEF whole

LEMMA TarPrefixAside ==
  ASSUME NEW prefix, Prefixed(prefix)
  PROVE  Aside(TarPrefix(prefix)) /\ (prefix = None => DOMAIN TarPrefix(prefix) = {})
<1>1. IsList(prefix) /\ Len(prefix) \in Nat /\ DOMAIN prefix = 1..Len(prefix)
  BY ListDomain DEF Prefixed
<1>2. IsList(TarPrefix(prefix))
  BY <1>1, TarPrefixType DEF IsArchive
<1>3. DOMAIN TarPrefix(prefix) = 1..Len(prefix)
  BY <1>1 DEF TarPrefix
<1>4. ASSUME NEW i \in 1..Len(prefix)
      PROVE  TarPrefix(prefix)[i].name \notin BootFiles
  <2> DEFINE above == SubSeq(prefix, 1, i)
  <2>1. TarPrefix(prefix)[i] = Dir(above)
    BY <1>1 DEF TarPrefix
  <2>2. TarPrefix(prefix)[i].name = above
    BY <2>1 DEF Dir
  <2>3. above[1] = prefix[1]
    BY <1>1 DEF IsList
  <2>4. prefix # None
    BY <1>1 DEF None
  <2>5. above[1] = "containers"
    BY <2>3, <2>4 DEF Prefixed
  <2> HIDE DEF above
  <2>6. above \in BootFiles => above[1] = "boot"
    BY BootFileIs
  <2>7. above[1] # "boot"
    BY <2>5
  <2> QED
    BY <2>2, <2>6, <2>7
<1>5. prefix = None => Len(prefix) = 0
  BY DEF None
<1> QED
  BY <1>1, <1>2, <1>3, <1>4, <1>5 DEF Aside

LEMMA LeadingAside ==
  ASSUME NEW path, Clear(path), NEW i \in DOMAIN Leading(path)
  PROVE  Leading(path)[i] \notin BootFiles
<1>1. IsList(path) /\ Len(path) \in Nat /\ DOMAIN path = 1..Len(path)
  BY ListDomain DEF Clear
<1>2. i \in 1..(Len(path) - 1) /\ Leading(path)[i] = SubSeq(path, 1, i)
  BY <1>1 DEF Leading
<1> DEFINE above == SubSeq(path, 1, i)
<1>3. Len(above) = i /\ \A k \in 1..i : above[k] = path[k]
  BY <1>1, <1>2 DEF IsList
<1> HIDE DEF above
<1>4. ASSUME above \in BootFiles
      PROVE  FALSE
  <2>1. Len(above) = 2 /\ above[1] = "boot" /\ above[2] \in {"kernel", "cmdline", "ucode.cpio"}
    BY <1>4, BootFileIs
  <2>2. i = 2 /\ path[1] = "boot" /\ path[2] \in {"kernel", "cmdline", "ucode.cpio"} /\ Len(path) > 1
    BY <1>1, <1>2, <1>3, <2>1
  <2> QED
    BY <2>2 DEF Clear
<1> QED
  BY <1>2, <1>4 DEF above

LEMMA TouchNames ==
  ASSUME NEW i \in DOMAIN Touch
  PROVE  IsList(Touch[i].name) /\ Touch[i].name \notin BootFiles
<1>1. DOMAIN Touch = 1..10
  BY DEF Touch
<1>2. \A n : n[1] # "boot" => n \notin BootFiles
  BY BootFileIs
<1>3. /\ Touch[1].name = <<"dev">> /\ Touch[2].name = <<"dev", "console">> /\ Touch[3].name = <<"dev", "pts">>
      /\ Touch[4].name = <<"dev", "shm">> /\ Touch[5].name = <<"etc">> /\ Touch[6].name = <<"etc", "hosts">>
      /\ Touch[7].name = <<"etc", "mtab">> /\ Touch[8].name = <<"etc", "resolv.conf">>
      /\ Touch[9].name = <<"proc">> /\ Touch[10].name = <<"sys">>
  <2> DEFINE mounts == <<"", "proc", "mounts">>
  <2>1. Symlink(<<"etc", "mtab">>, mounts) = Touch[7]
    BY ZenonT(60) DEF Touch
  <2> HIDE DEF mounts
  <2> QED
    BY <2>1 DEF Touch, Dir, Char, Reg, Symlink, EtcHosts, ResolvConf
<1>4. \A f : <<f>> \in Seq({f}) /\ <<f>>[1] = f
  OBVIOUS
<1>5. \A f, g : <<f, g>> \in Seq({f, g}) /\ <<f, g>>[1] = f
  OBVIOUS
<1>6. \A f : IsList(<<f>>)
  BY <1>4, ListIs
<1>7. \A f, g : IsList(<<f, g>>)
  BY <1>5, ListIs
<1> DEFINE Fine(n) == IsList(n) /\ n[1] # "boot"
<1>8. \A f : f # "boot" => Fine(<<f>>)
  BY <1>4, <1>6
<1>9. \A f, g : f # "boot" => Fine(<<f, g>>)
  BY <1>5, <1>7
<1>10. Fine(Touch[i].name)
  <2> HIDE DEF Fine, Touch
  <2>1. Fine(<<"dev">>) /\ Fine(<<"etc">>) /\ Fine(<<"proc">>) /\ Fine(<<"sys">>)
    BY <1>8
  <2>2. /\ Fine(<<"dev", "console">>) /\ Fine(<<"dev", "pts">>) /\ Fine(<<"dev", "shm">>)
        /\ Fine(<<"etc", "hosts">>) /\ Fine(<<"etc", "mtab">>) /\ Fine(<<"etc", "resolv.conf">>)
    BY <1>9
  <2>3. /\ Fine(Touch[1].name) /\ Fine(Touch[2].name) /\ Fine(Touch[3].name) /\ Fine(Touch[4].name)
        /\ Fine(Touch[5].name) /\ Fine(Touch[6].name) /\ Fine(Touch[7].name) /\ Fine(Touch[8].name)
        /\ Fine(Touch[9].name) /\ Fine(Touch[10].name)
    BY <1>3, <2>1, <2>2
  <2>4. i \in {1, 2, 3, 4, 5, 6, 7, 8, 9, 10}
    BY <1>1
  <2> QED
    BY <2>3, <2>4
<1> QED
  BY <1>2, <1>10

LEMMA TouchedNames ==
  ASSUME NEW prefix, NEW resolv
  PROVE  /\ IsList(Touched(prefix, resolv))
         /\ \A i \in DOMAIN Touched(prefix, resolv) :
              \E k \in DOMAIN Touch : Touched(prefix, resolv)[i].name = prefix \o Touch[k].name
<1> DEFINE missing == Matching(Touch, {e \in ToSet(Touch) : Key(e) \notin seen})
           f == [i \in DOMAIN missing |-> [Made(missing[i], resolv) EXCEPT !.name = prefix \o @]]
<1>1. Touched(prefix, resolv) = f
  BY DEF Touched
<1>2. IsList(Touch)
  BY TouchType DEF IsArchive
<1>3. IsList(missing) /\ \A i \in DOMAIN missing : \E k \in DOMAIN Touch : missing[i] = Touch[k]
  BY <1>2, ListMatching
<1> HIDE DEF missing
<1>4. ASSUME NEW i \in DOMAIN missing
      PROVE  f[i].name = prefix \o missing[i].name
  <2> DEFINE e == Made(missing[i], resolv)
  <2>1. IsEntry(missing[i])
    BY <1>3, TouchType DEF IsArchive
  <2>2. IsEntry(e) /\ e.name = missing[i].name
    BY <2>1, EntriesMade DEF Made, Symlink, Reg
  <2>3. f[i] = [e EXCEPT !.name = prefix \o @]
    OBVIOUS
  <2> HIDE DEF e, f
  <2> QED
    BY <2>2, <2>3 DEF IsEntry
<1>5. DOMAIN f = DOMAIN missing
  OBVIOUS
<1> HIDE DEF f
<1>6. IsList(Touched(prefix, resolv))
  BY TouchedType DEF IsArchive
<1> QED
  BY <1>1, <1>3, <1>4, <1>5, <1>6

\* Entries go through the filter.
LEMMA EmitThrough ==
  ASSUME BuildInv, NEW es, IsList(es), NEW items, Emit(es, items), Now.to = "kernel"
  PROVE  /\ [kf' EXCEPT !.out = out'] = Through(es)
         /\ IF Through(es).failed THEN status' = "failed" ELSE todo' = items \o Tail(todo)
<1> DEFINE k == Through(es)
<1>1. IsFilter(kf) /\ IsArchive(out) /\ Len(es) \in Nat
  BY ListDomain DEF BuildInv, BuildType
<1>2. IsFilter(k)
  BY <1>1, ThroughType
<1>3. kf' = [k EXCEPT !.out = <<>>] /\ out' = k.out
  BY DEF Emit
<1>4. IF k.failed THEN status' = "failed" ELSE todo' = items \o Tail(todo)
  BY DEF Emit, Fail, Then
<1> HIDE DEF k
<1>5. [kf' EXCEPT !.out = out'] = k
  BY <1>2, <1>3 DEF IsFilter
<1> QED
  BY <1>4, <1>5 DEF k

\* Nothing has arrived before the first entry.
LEMMA NothingArrived ==
  ASSUME BootIsOurs, cfg.kimage[1] \in DOMAIN Tars, out = <<>>, kf = Filter
  PROVE  Arrived([kf EXCEPT !.out = out], 0)
<1> DEFINE k == [kf EXCEPT !.out = out]
<1>1. /\ ~k.failed /\ ~k.kernel /\ ~k.tar /\ ~k.open /\ k.hdr = NoHdr /\ k.out = <<>>
  BY DEF Filter
<1>2. \A file : LastOf(<<>>, file) = None
  BY LastLacks
<1>3. Body(0, cfg.ucode) = None
  <2>1. IsList(KernelImage) /\ DOMAIN KernelImage = 1..Len(KernelImage)
    BY KernelImageIs, ListDomain
  <2>2. {i \in DOMAIN KernelImage : i <= 0 /\ KernelImage[i].name = cfg.ucode} = {}
    BY <2>1
  <2> QED
    BY <2>2 DEF Body, LastIn
<1> HIDE DEF k
<1> QED
  BY <1>1, <1>2, <1>3 DEF Arrived, k

\* The kernel image is opened: its entries are to go through the filter.
LEMMA KernelOpens ==
  ASSUME IsList(todo), Len(todo) >= 2, Starts(todo, 1), IsList(KernelImage), cfg' = cfg,
         NEW items, IsList(items), Len(items) = Len(KernelImage) + 1,
         \A i \in DOMAIN items : items[i] = KernelItem(i), todo' = items \o Tail(todo),
         Arrived([kf' EXCEPT !.out = out'], 0)
  PROVE  Within(0)'
<1> DEFINE n == Len(KernelImage)
           u == items \o Tail(todo)
<1>1. n \in Nat /\ Len(items) = n + 1 /\ DOMAIN items = 1..(n + 1)
  BY ListDomain
<1>2. todo # <<>> /\ Len(todo) \in Nat /\ DOMAIN todo = 1..Len(todo)
  BY ListDomain, EmptyList
<1>3. /\ Len(u) = Len(items) + Len(todo) - 1
      /\ DOMAIN u = 1..(Len(items) + Len(todo) - 1)
      /\ \A k \in 1..Len(items) : u[k] = items[k]
      /\ \A k \in 2..Len(todo) : u[Len(items) + k - 1] = todo[k]
  <2>1. todo # <<>> /\ IsList(items) /\ IsList(todo)
    BY <1>2
  <2>2. Len(items \o Tail(todo)) = Len(items) + Len(todo) - 1
    BY <2>1, ListInPlace
  <2>3. DOMAIN (items \o Tail(todo)) = 1..(Len(items) + Len(todo) - 1)
    BY <2>1, ListInPlace
  <2>4. \A k \in 1..Len(items) : (items \o Tail(todo))[k] = items[k]
    BY <2>1, ListInPlace
  <2>5. \A k \in 2..Len(todo) : (items \o Tail(todo))[Len(items) + k - 1] = todo[k]
    BY <2>1, ListInPlace
  <2> QED
    BY <2>2, <2>3, <2>4, <2>5
<1> HIDE DEF u
<1>4. Len(u) = n + Len(todo) /\ DOMAIN u = 1..(n + Len(todo)) /\ n + 2 <= Len(u)
  BY <1>1, <1>2, <1>3
<1>5. KernelItem(n + 2) = Do("close")
  BY <1>1 DEF KernelItem
<1>6. ASSUME NEW i \in DOMAIN u
      PROVE  IF i <= n + 2 THEN u[i] = KernelItem(i) ELSE Tame(u[i])
  <2>1. CASE i <= n + 1
    <3>1. i \in 1..Len(items)
      BY <1>1, <1>4, <2>1
    <3>2. u[i] = items[i] /\ items[i] = KernelItem(i)
      BY <1>1, <1>3, <3>1
    <3> QED
      BY <1>1, <1>4, <2>1, <3>2
  <2>2. CASE i > n + 1
    <3> DEFINE j == i - n
    <3>1. j \in 2..Len(todo) /\ i = Len(items) + j - 1 /\ j \in DOMAIN todo /\ j \in Nat
      BY <1>1, <1>2, <1>4, <2>2
    <3>2. u[i] = todo[j]
      BY <1>3, <3>1
    <3>3. /\ j = 2 => todo[j] = Do("close")
          /\ j > 2 => Tame(todo[j])
      BY <3>1 DEF Starts
    <3>4. /\ i <= n + 2 => i = n + 2 /\ j = 2
          /\ ~(i <= n + 2) => j > 2
      BY <1>1, <1>4, <2>2
    <3> HIDE DEF j
    <3> QED
      BY <1>5, <3>2, <3>3, <3>4
  <2> QED
    BY <1>1, <1>4, <2>1, <2>2
<1>7. KernelImage' = KernelImage /\ \A m : KernelItem(m)' = KernelItem(m)
  BY ArrivedStays
<1>8. Arrived([kf EXCEPT !.out = out], 0)'
  <2>1. PICK k : k = [kf' EXCEPT !.out = out']
    OBVIOUS
  <2>2. Arrived(k, 0)'
    BY <2>1, ArrivedStays
  <2> QED
    BY <2>1, <2>2
<1>9. /\ Len(KernelImage') + 2 - 0 <= Len(todo')
      /\ \A i \in DOMAIN todo' :
           IF i <= Len(KernelImage') + 2 - 0 THEN todo'[i] = KernelItem(0 + i)' ELSE Tame(todo'[i])
  <2>1. n + 2 - 0 = n + 2
    BY <1>1
  <2>2. \A i \in DOMAIN u : 0 + i = i
    BY <1>4
  <2> QED
    BY <1>4, <1>6, <1>7, <2>1, <2>2 DEF u
<1> QED
  BY <1>8, <1>9 DEF Within

LEMMA OpenImageSplit ==
  ASSUME BootIsOurs, BuildInv, SplitInv, OpenImage
  PROVE  SplitInv'
<1> DEFINE es    == Tars[Now.image]
           entry == [i \in DOMAIN es |-> [do |-> "entry", e |-> es[i], prefix |-> Now.prefix, to |-> Now.to,
                                          resolv |-> Now.resolv]]
           touch == [do |-> "touch", prefix |-> Now.prefix, to |-> Now.to, resolv |-> Now.resolv]
           items == entry \o <<touch>>
<1>1. /\ At("image") /\ cfg' = cfg /\ split' = split
      /\ Emit(TarPrefix(Now.prefix), items)
  BY DEF OpenImage
<1>2. /\ todo # <<>> /\ Now = todo[1] /\ Now.do = "image" /\ IsItem(Now) /\ status = "building"
  BY <1>1, HeadIs
<1>3. IsArchive(es) /\ Now.image \in DOMAIN Tars /\ IsList(es)
  BY <1>2, ArchivesAssumption DEF IsItem, IsArchive
<1>4. CASE cfg.kimage = None
  BY <1>1, <1>4 DEF SplitInv
<1>5. CASE cfg.kimage # None
  <2>1. CASE Closed /\ Tame(Now)
    <3>1. Prefixed(Now.prefix) /\ Now.to = "tar" /\ Now.do \notin Outputs
      BY <1>2, <2>1 DEF Tame, Outputs
    <3>2. TameAll(entry)
      <4>1. entry = [i \in DOMAIN es |-> entry[i]]
        OBVIOUS
      <4>2. ASSUME NEW i \in DOMAIN es
            PROVE  Tame(entry[i])
        <5>1. entry[i] = [do |-> "entry", e |-> es[i], prefix |-> Now.prefix, to |-> Now.to, resolv |-> Now.resolv]
          OBVIOUS
        <5>2. Clear(es[i].name)
          BY <1>3 DEF BootIsOurs
        <5> HIDE DEF entry, es
        <5> QED
          BY <3>1, <5>1, <5>2 DEF Tame, Kinds, Outputs
      <4> HIDE DEF entry, es
      <4> QED
        BY <1>3, <4>1, <4>2, TameEach
    <3>3. Tame(touch)
      BY <3>1 DEF Tame, Kinds, Outputs
    <3>4. TameAll(items)
      <4> HIDE DEF entry, touch
      <4> QED
        BY <3>2, <3>3, TameOne, TameMore
    <3>5. Aside(TarPrefix(Now.prefix))
      BY <3>1, TarPrefixAside
    <3> HIDE DEF items
    <3> QED
      BY <1>1, <1>2, <1>5, <2>1, <3>1, <3>4, <3>5, TameStep
  <2>2. CASE /\ out = <<>> /\ kf = Filter /\ Len(todo) >= 2 /\ Starts(todo, 1)
             /\ Now = ImageTar(cfg.kimage[1], None, "kernel", None)
    <3>1. Now.image = cfg.kimage[1] /\ Now.prefix = None /\ Now.to = "kernel" /\ Now.resolv = None
      BY <2>2 DEF ImageTar
    <3>2. es = KernelImage /\ cfg.kimage[1] \in DOMAIN Tars /\ KernelSplit
      BY <1>2, <1>5, <3>1 DEF KernelImage, SplitInv
    <3>3. Len(es) \in Nat /\ DOMAIN es = 1..Len(es)
      BY <1>3, ListDomain
    <3>4. /\ IsList(entry) /\ Len(entry) = Len(es) /\ DOMAIN entry = 1..Len(es)
          /\ \A i \in 1..Len(es) : entry[i] = KernelItem(i)
      <4>1. DOMAIN entry = 1..Len(es) /\ entry = [i \in 1..Len(es) |-> entry[i]]
        BY <3>3
      <4>2. ASSUME NEW i \in 1..Len(es)
            PROVE  entry[i] = KernelItem(i)
        <5>1. entry[i] = [do |-> "entry", e |-> es[i], prefix |-> Now.prefix, to |-> Now.to, resolv |-> Now.resolv]
          BY <3>3
        <5> HIDE DEF entry
        <5> QED
          BY <3>1, <3>2, <3>3, <5>1 DEF KernelItem
      <4> HIDE DEF entry, es
      <4> QED
        BY <3>3, <4>1, <4>2, Listed
    <3>5. touch = KernelItem(Len(es) + 1)
      BY <3>1, <3>2, <3>3 DEF KernelItem
    <3>6. /\ IsList(items) /\ Len(items) = Len(es) + 1
          /\ \A i \in DOMAIN items : items[i] = KernelItem(i)
      <4> DEFINE b == <<touch>>
      <4>1. b \in Seq({touch}) /\ Len(b) = 1 /\ DOMAIN b = 1..1 /\ b[1] = touch
        BY Tuples
      <4> HIDE DEF entry, touch, b, es
      <4>2. IsList(b)
        BY <4>1, ListIs
      <4>3. /\ IsList(entry \o b) /\ Len(entry \o b) = Len(entry) + Len(b)
            /\ DOMAIN (entry \o b) = 1..(Len(entry) + Len(b))
            /\ \A k \in 1..Len(entry) : (entry \o b)[k] = entry[k]
            /\ \A k \in 1..Len(b) : (entry \o b)[Len(entry) + k] = b[k]
        BY <3>4, <4>2, ListConcat
      <4>4. (entry \o b)[Len(es) + 1] = touch
        BY <3>4, <4>1, <4>3
      <4> QED
        BY <3>3, <3>4, <3>5, <4>1, <4>3, <4>4 DEF b
    <3>7. IsList(TarPrefix(None)) /\ DOMAIN TarPrefix(None) = {}
      <4>1. Prefixed(None)
        BY EmptyList DEF Prefixed, None
      <4> QED
        BY <4>1, TarPrefixAside DEF Aside
    <3> DEFINE k == Through(TarPrefix(Now.prefix))
    <3>8. /\ [kf' EXCEPT !.out = out'] = k
          /\ IF k.failed THEN status' = "failed" ELSE todo' = items \o Tail(todo)
      <4> HIDE DEF items
      <4> QED
        BY <1>1, <3>1, <3>7, EmitThrough
    <3>9. k.failed \/ Arrived(k, 0)
      <4>1. Arrived([kf EXCEPT !.out = out], 0)
        BY <2>2, <3>2, NothingArrived
      <4>2. IsFilter(kf) /\ IsArchive(out)
        BY DEF BuildInv, BuildType
      <4> QED
        BY <3>1, <3>7, <4>1, <4>2, ForeignThrough
    <3> HIDE DEF k, items
    <3>10. CASE k.failed
      BY <1>1, <3>8, <3>10, SplitEnds
    <3>11. CASE ~k.failed
      <4>1. IsList(todo)
        BY DEF BuildInv, BuildType
      <4>2. Within(0)'
        BY <1>1, <1>3, <2>2, <3>2, <3>6, <3>8, <3>9, <3>11, <4>1, KernelOpens
      <4>3. KernelSplit'
        BY <1>1, <3>2, SplitSame
      <4>4. 0 \in 0..(Len(KernelImage) + 1)
        BY <3>2, <3>3
      <4> HIDE DEF es
      <4> QED
        BY <1>1, <1>5, <4>2, <4>3, <4>4, SplitKeeps
    <3> QED
      BY <3>10, <3>11
  <2> QED
    BY <1>1, <1>5, <2>1, <2>2, Phases DEF Tool
<1> QED
  BY <1>4, <1>5

\* An item of the kernel image puts its entries through the filter.
LEMMA WithinStep ==
  ASSUME BootIsOurs, BuildInv, SplitInv, cfg.kimage # None, todo # <<>>, cfg' = cfg, split' = split,
         NEW p \in 0..Len(KernelImage), Within(p),
         NEW es, IsList(es), Now.to = "kernel", Emit(es, <<>>),
         Through(es).failed \/ Arrived(Through(es), p + 1)
  PROVE  SplitInv'
<1> DEFINE k == Through(es)
<1>1. /\ [kf' EXCEPT !.out = out'] = k
      /\ IF k.failed THEN status' = "failed" ELSE todo' = <<>> \o Tail(todo)
  BY EmitThrough
<1>2. k.failed \/ Arrived(k, p + 1)
  OBVIOUS
<1> HIDE DEF k
<1>3. CASE k.failed
  BY <1>1, <1>3, SplitEnds
<1>4. CASE ~k.failed
  <2>1. cfg.kimage[1] \in DOMAIN Tars /\ KernelSplit
    BY DEF SplitInv
  <2>2. IsList(todo)
    BY DEF BuildInv, BuildType
  <2>3. Within(p + 1)'
    BY <1>1, <1>2, <1>4, <2>1, <2>2, WithinMoves
  <2>4. KernelSplit'
    BY <2>1, SplitSame
  <2>5. p + 1 \in 0..(Len(KernelImage) + 1)
    BY <2>1, KernelImageIs, ListDomain
  <2> QED
    BY <2>3, <2>4, <2>5, SplitKeeps
<1> QED
  BY <1>3, <1>4

\* What an item that is of no interest to the filter adds there.
LEMMA ForeignStep ==
  ASSUME BootIsOurs, BuildInv, SplitInv, cfg.kimage # None, todo # <<>>, cfg' = cfg, split' = split,
         NEW p \in 0..Len(KernelImage), Within(p),
         p + 1 \in DOMAIN KernelImage => Foreign(KernelImage[p + 1].name),
         NEW es, IsList(es), \A i \in DOMAIN es : Foreign(es[i].name), Now.to = "kernel", Emit(es, <<>>)
  PROVE  SplitInv'
<1>1. Arrived([kf EXCEPT !.out = out], p)
  BY DEF Within
<1>2. IsFilter(kf) /\ IsArchive(out)
  BY DEF BuildInv, BuildType
<1> DEFINE k == Through(es)
<1>3. k.failed \/ Arrived(k, p)
  BY <1>1, <1>2, ForeignThrough
<1> HIDE DEF k
<1>4. IsList(KernelImage) /\ p \in Nat
  BY KernelImageIs DEF SplitInv
<1>5. k.failed \/ Arrived(k, p + 1)
  BY <1>3, <1>4, EntrySkipped DEF Foreign
<1> QED
  BY <1>5, WithinStep DEF k

LEMMA OwnForeign ==
  ASSUME NamesApart(cfg), NEW name, ~Own(name)
  PROVE  Foreign(name)
BY DEF NamesApart, Foreign

LEMMA ImageEntrySplit ==
  ASSUME BootIsOurs, BuildInv, SplitInv, ImageEntry
  PROVE  SplitInv'
<1> DEFINE e     == Now.e
           moved == [e EXCEPT !.name = Now.prefix \o @,
                              !.link = IF e.type = "link" THEN Now.prefix \o @ ELSE @]
           given == [moved EXCEPT !.body = Default(e.name)]
           symlink == Symlink(moved.name, Now.resolv)
<1>1. At("entry") /\ cfg' = cfg /\ split' = split
  BY DEF ImageEntry
<1>2. /\ todo # <<>> /\ Now = todo[1] /\ Now.do = "entry" /\ IsItem(Now) /\ status = "building"
  BY <1>1, HeadIs
<1>3. \/ e.name \in Exclude /\ Emit(<<>>, <<>>)
      \/ Now.resolv # None /\ Emit(<<symlink>>, <<>>)
      \/ Fail
      \/ e.name \in Replace /\ Emit(<<given>>, <<>>)
      \/ Emit(<<moved>>, <<>>)
  BY DEF ImageEntry
<1>4. IsEntry(e)
  BY <1>2 DEF IsItem
<1>5. /\ moved.name = Now.prefix \o e.name /\ moved.body = e.body
      /\ given.name = moved.name /\ symlink.name = moved.name
  BY <1>4 DEF IsEntry, Symlink
<1> HIDE DEF moved, given, symlink, e
<1>6. CASE cfg.kimage = None
  BY <1>1, <1>6 DEF SplitInv
<1>7. CASE Fail
  BY <1>1, <1>7, SplitEnds DEF Fail
<1>8. CASE cfg.kimage # None /\ ~Fail
  <2>1. CASE Closed /\ Tame(Now)
    <3>1. Prefixed(Now.prefix) /\ Now.do \notin Outputs /\ Clear(e.name)
      BY <1>2, <2>1 DEF Tame, Outputs, e
    <3>2. moved.name \notin BootFiles
      BY <1>5, <3>1, ClearAside, PrefixedAside DEF Clear
    <3>3. Aside(<<moved>>) /\ Aside(<<given>>) /\ Aside(<<symlink>>) /\ Aside(<<>>)
      BY <1>5, <3>2, AsideOne, AsideNone
    <3> QED
      BY <1>1, <1>2, <1>3, <1>8, <2>1, <3>1, <3>3, TameNone, TameStep
  <2>2. ASSUME NEW p \in 0..(Len(KernelImage) - 1),
               Within(p), p + 1 \in DOMAIN KernelImage, Now = KernelItem(p + 1)
        PROVE  SplitInv'
    <3>1. cfg.kimage[1] \in DOMAIN Tars /\ NamesApart(cfg)
      BY <1>2, <1>8 DEF SplitInv
    <3>2. IsList(KernelImage) /\ Len(KernelImage) \in Nat /\ DOMAIN KernelImage = 1..Len(KernelImage)
      BY <3>1, KernelImageIs, ListDomain
    <3>3. p \in 0..Len(KernelImage) /\ p + 1 <= Len(KernelImage)
      BY <3>2
    <3>4. e = KernelImage[p + 1] /\ Now.prefix = None /\ Now.to = "kernel" /\ Now.resolv = None
      BY <2>2, <3>3 DEF KernelItem, e
    <3>5. IsList(e.name)
      BY <2>2, <3>1, <3>4, KernelImageIs DEF Clear
    <3>6. moved.name = e.name
      BY <1>5, <3>4, <3>5 DEF None, IsList
    <3>7. CASE e.name \in Exclude /\ Emit(<<>>, <<>>)
      <4>1. Foreign(KernelImage[p + 1].name)
        BY <3>1, <3>4, <3>7, OwnForeign DEF Own
      <4>2. IsList(<<>>) /\ DOMAIN <<>> = {}
        BY EmptyList
      <4> QED
        BY <1>1, <1>2, <1>8, <2>2, <3>3, <3>4, <3>7, <4>1, <4>2, ForeignStep
    <3>8. CASE e.name \in Replace /\ Emit(<<given>>, <<>>)
      <4>1. Foreign(KernelImage[p + 1].name) /\ Foreign(given.name)
        BY <1>5, <3>1, <3>4, <3>6, <3>8, OwnForeign DEF Own
      <4> DEFINE b == <<given>>
      <4>2. b \in Seq({given}) /\ DOMAIN b = 1..1 /\ b[1] = given
        OBVIOUS
      <4>3. Emit(b, <<>>)
        BY <3>8
      <4> HIDE DEF b
      <4>4. IsList(b) /\ \A i \in DOMAIN b : Foreign(b[i].name)
        BY <4>1, <4>2, ListIs
      <4> QED
        BY <1>1, <1>2, <1>8, <2>2, <3>3, <3>4, <4>1, <4>3, <4>4, ForeignStep
    <3>9. CASE Emit(<<moved>>, <<>>)
      <4> DEFINE k == [kf EXCEPT !.out = out]
      <4>1. IsFilter(k) /\ p \in Nat
        BY <3>3 DEF BuildInv, BuildType, IsFilter
      <4>2. Arrived(k, p)
        BY <2>2 DEF Within
      <4>3. Through(<<moved>>) = KernelEntry(k, moved)
        BY ThroughOne
      <4> HIDE DEF k
      <4>4. KernelEntry(k, moved).failed \/ Arrived(KernelEntry(k, moved), p + 1)
        BY <1>5, <2>2, <3>1, <3>4, <3>6, <4>1, <4>2, EntryArrives
      <4> DEFINE b == <<moved>>
      <4>5. b \in Seq({moved})
        OBVIOUS
      <4>6. Emit(b, <<>>) /\ (Through(b).failed \/ Arrived(Through(b), p + 1))
        BY <3>9, <4>3, <4>4
      <4> HIDE DEF b
      <4>7. IsList(b)
        BY <4>5, ListIs
      <4> QED
        BY <1>1, <1>2, <1>8, <2>2, <3>3, <3>4, <4>6, <4>7, WithinStep
    <3> QED
      BY <1>3, <1>8, <3>4, <3>7, <3>8, <3>9
  <2> QED
    BY <1>1, <1>8, <2>1, <2>2, Phases DEF Tool
<1> QED
  BY <1>6, <1>7, <1>8

LEMMA TouchFilesSplit ==
  ASSUME BootIsOurs, BuildInv, SplitInv, TouchFiles
  PROVE  SplitInv'
<1> DEFINE es == Touched(Now.prefix, Now.resolv)
<1>1. At("touch") /\ cfg' = cfg /\ split' = split /\ Emit(es, <<>>)
  BY DEF TouchFiles
<1>2. /\ todo # <<>> /\ Now = todo[1] /\ Now.do = "touch" /\ IsItem(Now) /\ status = "building"
  BY <1>1, HeadIs
<1>3. /\ IsList(es)
      /\ \A i \in DOMAIN es : \E k \in DOMAIN Touch : es[i].name = Now.prefix \o Touch[k].name
  <2>1. PICK prefix, resolv : prefix = Now.prefix /\ resolv = Now.resolv
    OBVIOUS
  <2>2. /\ IsList(Touched(prefix, resolv))
        /\ \A i \in DOMAIN Touched(prefix, resolv) :
             \E k \in DOMAIN Touch : Touched(prefix, resolv)[i].name = prefix \o Touch[k].name
    BY TouchedNames
  <2>3. Touched(prefix, resolv) = es
    BY <2>1
  <2> HIDE DEF es
  <2> QED
    BY <2>1, <2>2, <2>3
<1> HIDE DEF es
<1>4. CASE cfg.kimage = None
  BY <1>1, <1>4 DEF SplitInv
<1>5. CASE cfg.kimage # None
  <2>1. CASE Closed /\ Tame(Now)
    <3>1. Prefixed(Now.prefix) /\ Now.do \notin Outputs
      BY <1>2, <2>1 DEF Tame, Outputs
    <3>2. ASSUME NEW i \in DOMAIN es
          PROVE  es[i].name \notin BootFiles
      <4>1. PICK k \in DOMAIN Touch : es[i].name = Now.prefix \o Touch[k].name
        BY <1>3
      <4>2. IsList(Touch[k].name) /\ Touch[k].name \notin BootFiles
        BY TouchNames
      <4> QED
        BY <3>1, <4>1, <4>2, PrefixedAside
    <3>3. Aside(es)
      BY <1>3, <3>2 DEF Aside
    <3> QED
      BY <1>1, <1>2, <1>5, <2>1, <3>1, <3>3, TameNone, TameStep
  <2>2. CASE Within(Len(KernelImage)) /\ Now = KernelItem(Len(KernelImage) + 1)
    <3>1. cfg.kimage[1] \in DOMAIN Tars /\ NamesApart(cfg)
      BY <1>2, <1>5 DEF SplitInv
    <3>2. IsList(KernelImage) /\ Len(KernelImage) \in Nat /\ DOMAIN KernelImage = 1..Len(KernelImage)
      BY <3>1, KernelImageIs, ListDomain
    <3>3. Now.prefix = None /\ Now.to = "kernel"
      BY <2>2, <3>2 DEF KernelItem
    <3>4. ASSUME NEW i \in DOMAIN es
          PROVE  Foreign(es[i].name)
      <4>1. PICK k \in DOMAIN Touch : es[i].name = None \o Touch[k].name
        BY <1>3, <3>3
      <4>2. es[i].name = Touch[k].name
        BY <4>1, TouchNames DEF None, IsList
      <4>3. ~Own(es[i].name)
        BY <4>2 DEF Own
      <4> QED
        BY <3>1, <4>3, OwnForeign
    <3>5. Len(KernelImage) \in 0..Len(KernelImage) /\ Len(KernelImage) + 1 \notin DOMAIN KernelImage
      BY <3>2
    <3> QED
      BY <1>1, <1>2, <1>3, <1>5, <2>2, <3>3, <3>4, <3>5, ForeignStep
  <2> QED
    BY <1>1, <1>5, <2>1, <2>2, Phases DEF Tool
<1> QED
  BY <1>4, <1>5

LEMMA FinishTarSame ==
  ASSUME NEW k, IsFilter(k)
  PROVE  FinishTar(k).kernel = k.kernel /\ FinishTar(k).tar = k.tar
BY DEF FinishTar, IsFilter

\* What had arrived is the whole image once the filter holds nothing back.
LEMMA WholeArrived ==
  ASSUME BootIsOurs, cfg' = cfg, cfg.kimage[1] \in DOMAIN Tars, NEW k, Arrived(k, Len(KernelImage) + 1),
         k.kernel, k.hdr = NoHdr, ~k.open, k.tar \/ TarName(cfg) = None, out' = k.out
  PROVE  Whole'
<1> DEFINE n == Len(KernelImage)
<1>1. IsList(KernelImage) /\ n \in Nat /\ DOMAIN KernelImage = 1..n
  BY KernelImageIs, ListDomain
<1>2. n + 1 \notin DOMAIN KernelImage
  BY <1>1
<1>3. \A name : Body(n + 1, name) = Body(n, name)
  BY <1>1, <1>2, BodySkip
<1>4. /\ LastOf(out', KernelFile) = Ready(Body(n, KernelName(cfg)))
      /\ LastOf(out', CmdlineFile) = cfg.cmdline
      /\ LastOf(out', UcodeFile) = Body(n, cfg.ucode)
      /\ TarName(cfg) # None => Unpacked(out', Body(n, TarName(cfg)))
  BY <1>3 DEF Arrived
<1>5. /\ KernelImage' = KernelImage /\ KernelName(cfg)' = KernelName(cfg) /\ TarName(cfg)' = TarName(cfg)
      /\ cfg.ucode' = cfg.ucode /\ cfg.cmdline' = cfg.cmdline
  BY DEF KernelImage
<1>6. \A name : Body(n, name)' = Body(n, name)
  BY <1>5 DEF Body
<1>7. \A body : Ready(body)' = Ready(body)
  BY DEF Ready
<1> QED
  BY <1>4, <1>5, <1>6, <1>7 DEF Whole

LEMMA CloseKernelSplit ==
  ASSUME BootIsOurs, BuildInv, SplitInv, CloseKernel
  PROVE  SplitInv'
<1> DEFINE k0 == [kf EXCEPT !.out = out]
           k  == FinishTar(k0)
<1>1. At("close") /\ cfg' = cfg /\ split' = split
  BY DEF CloseKernel
<1>2. /\ todo # <<>> /\ Now = todo[1] /\ Now.do = "close" /\ IsItem(Now) /\ status = "building"
  BY <1>1, HeadIs
<1>3. \/ Fail
      \/ /\ kf.kernel /\ (kf.tar \/ TarName(cfg) = None) /\ ~k.failed
         /\ out' = k.out /\ todo' = <<>> \o Tail(todo)
  BY DEF CloseKernel, Then
<1>4. IsFilter(k0) /\ k0.kernel = kf.kernel /\ k0.tar = kf.tar
  BY DEF BuildInv, BuildType, IsFilter
<1> HIDE DEF k0
<1>5. k.kernel = kf.kernel /\ k.tar = kf.tar
  BY <1>4, FinishTarSame
<1>6. CASE cfg.kimage = None
  BY <1>1, <1>6 DEF SplitInv
<1>7. CASE Fail
  BY <1>1, <1>7, SplitEnds DEF Fail
<1>8. CASE cfg.kimage # None /\ ~Fail
  <2>1. cfg.kimage[1] \in DOMAIN Tars /\ KernelSplit
    BY <1>2, <1>8 DEF SplitInv
  <2>2. Within(Len(KernelImage) + 1)
    BY <1>1, <1>2, <1>8, Phases DEF Tool, Tame
  <2>3. IsList(KernelImage) /\ Len(KernelImage) \in Nat
    BY <2>1, KernelImageIs, ListDomain
  <2>4. Arrived(k0, Len(KernelImage) + 1)
    BY <2>2 DEF Within, k0
  <2>5. Arrived(k, Len(KernelImage) + 1) /\ ~k.open /\ k.hdr = NoHdr
    BY <1>3, <1>4, <1>8, <2>4, FinishTarArrives
  <2> HIDE DEF k
  <2>6. Whole'
    BY <1>1, <1>3, <1>5, <1>8, <2>1, <2>5, WholeArrived
  <2>7. \A i \in DOMAIN todo' : Tame(todo'[i])
    <3>1. IsList(todo)
      BY DEF BuildInv, BuildType
    <3>2. /\ DOMAIN todo' = 1..(Len(todo) - 1) /\ Len(todo) \in Nat /\ DOMAIN todo = 1..Len(todo)
          /\ \A i \in 1..(Len(todo) - 1) : todo'[i] = todo[i + 1]
      BY <1>2, <1>3, <1>8, <3>1, TailOnly
    <3>3. Len(KernelImage) + 2 - (Len(KernelImage) + 1) = 1
      BY <2>3
    <3>4. \A i \in DOMAIN todo : i > 1 => Tame(todo[i])
      BY <2>2, <3>2, <3>3 DEF Within
    <3>5. ASSUME NEW i \in DOMAIN todo'
          PROVE  i + 1 \in DOMAIN todo /\ i + 1 > 1 /\ todo'[i] = todo[i + 1]
      BY <3>2
    <3> QED
      BY <3>4, <3>5
  <2>8. Closed'
    BY <2>6, <2>7 DEF Closed
  <2>9. KernelSplit'
    BY <1>1, <2>1, SplitSame
  <2> QED
    BY <1>1, <1>8, <2>8, <2>9, SplitKeeps
<1> QED
  BY <1>6, <1>7, <1>8

\* What only comes once the filter is closed.
LEMMA StreamHead ==
  ASSUME BootIsOurs, BuildInv, SplitInv, cfg.kimage # None,
         NEW what \in {"container", "bundle", "file", "addition", "format", "write"}, At(what)
  PROVE  /\ Closed /\ Tame(Now) /\ todo # <<>> /\ Now = todo[1] /\ Now.do = what
         /\ status = "building" /\ IsItem(Now)
<1>1. Closed /\ Tame(Now)
  BY Phases DEF Tool
<1> QED
  BY <1>1, HeadIs

LEMMA StreamStep ==
  ASSUME BootIsOurs, BuildInv, SplitInv, NEW what \in {"container", "bundle", "file", "addition"}, At(what),
         cfg' = cfg, split' = split, NEW items, NEW es,
         cfg.kimage # None /\ Tame(Now) => TameAll(items) /\ Aside(es),
         Fail \/ Emit(es, items)
  PROVE  SplitInv'
<1>1. CASE cfg.kimage = None
  BY <1>1 DEF SplitInv
<1>2. CASE Fail
  BY <1>2, SplitEnds DEF Fail
<1>3. CASE cfg.kimage # None /\ Emit(es, items)
  <2>1. Closed /\ Tame(Now) /\ todo # <<>> /\ Now.do \notin Outputs
    BY <1>3, StreamHead DEF Outputs
  <2> QED
    BY <1>3, <2>1, TameStep
<1> QED
  BY <1>1, <1>2, <1>3

LEMMA OutputImageSplit ==
  ASSUME BootIsOurs, BuildInv, SplitInv, OutputImage
  PROVE  SplitInv'
<1> DEFINE spec  == ConfigToOCI(Labels[Now.image], Now.yaml, Ids(cfg))
           found == Now.image \in DOMAIN dup
           root  == RootOf(Now.path, Now.image, spec.readonly)
           item  == [do |-> "bundle", to |-> "tar", image |-> Now.image, path |-> Now.path,
                     found |-> found, root |-> root]
           unpack == ImageTar(Now.image, root, "tar", None)
<1>1. At("container") /\ cfg' = cfg /\ split' = split
  BY DEF OutputImage
<1>2. Now.do = "container" /\ IsItem(Now)
  BY <1>1, HeadIs
<1>3. \/ Fail
      \/ Emit(TarPrefix(Now.path), <<item>>)
      \/ ~found /\ Emit(<<>>, <<unpack, item>>)
  BY DEF OutputImage
<1>4. Tame(Now) => Prefixed(Now.path) /\ Now.path # None
  BY <1>2 DEF Tame
<1>5. Tame(Now) => TameAll(<<item>>)
  <2>1. Tame(Now) => Tame(item)
    BY <1>4 DEF Tame, Kinds, Outputs
  <2> HIDE DEF item
  <2> QED
    BY <2>1, TameOne
<1>6. Tame(Now) /\ ~found => TameAll(<<unpack, item>>)
  <2> SUFFICES ASSUME Tame(Now), ~found PROVE TameAll(<<unpack, item>>)
    OBVIOUS
  <2> HIDE DEF spec
  <2>1. root = Append(Now.path, "rootfs") \/ root = Append(Now.path, "lower")
    BY DEF RootOf
  <2>2. Prefixed(Append(Now.path, "rootfs")) /\ Prefixed(Append(Now.path, "lower"))
    <3>1. IsList(Now.path) /\ Len(Now.path) \in Nat /\ Len(Now.path) # 0 /\ Now.path[1] = "containers"
      BY <1>4, ListDomain DEF Prefixed, None
    <3>2. \A f : IsList(Append(Now.path, f))
      BY <3>1, ListAppend
    <3>3. \A f : Append(Now.path, f)[1] = "containers"
      <4> SUFFICES ASSUME NEW f PROVE Append(Now.path, f)[1] = "containers"
        OBVIOUS
      <4> DEFINE S == ToSet(Now.path) \cup {f}
      <4>1. Now.path \in Seq(S) /\ f \in S
        BY <3>1, SeqMonotonic DEF IsList
      <4> HIDE DEF S
      <4>2. \A k \in 1..Len(Now.path) : Append(Now.path, f)[k] = Now.path[k]
        BY <4>1, AppendProperties
      <4> QED
        BY <3>1, <4>2
    <3> QED
      BY <3>2, <3>3 DEF Prefixed
  <2>3. Prefixed(root)
    BY <2>1, <2>2
  <2> HIDE DEF root
  <2>4. Tame(unpack)
    BY <2>3 DEF Tame, Kinds, Outputs, ImageTar
  <2> HIDE DEF unpack, item
  <2>5. TameAll(<<unpack>>) /\ TameAll(<<item>>)
    BY <1>5, <2>4, TameOne
  <2>6. <<unpack>> \o <<item>> = <<unpack, item>>
    BY OneAndOne
  <2> QED
    BY <2>5, <2>6, TameMore
<1>7. Tame(Now) => Aside(TarPrefix(Now.path))
  BY <1>4, TarPrefixAside
<1> HIDE DEF item, unpack, found
<1>8. CASE Fail
  BY <1>1, <1>8, SplitEnds DEF Fail
<1>9. CASE Emit(TarPrefix(Now.path), <<item>>)
  BY <1>1, <1>5, <1>7, <1>9, StreamStep
<1>10. CASE ~found /\ Emit(<<>>, <<unpack, item>>)
  BY <1>1, <1>6, <1>10, AsideNone, StreamStep
<1> QED
  BY <1>3, <1>8, <1>9, <1>10

LEMMA ImageBundleSplit ==
  ASSUME BootIsOurs, BuildInv, SplitInv, ImageBundle
  PROVE  SplitInv'
<1> DEFINE in(f)    == Append(Now.path, f)
           points(readonly) ==
             CASE ~readonly -> <<Dir(in("tmp")), Dir(in("rootfs"))>>
               [] readonly /\ Now.found -> <<Dir(in("rootfs"))>>
               [] OTHER -> <<>>
           config  == <<Reg(in("config.json"), None)>>
           runtime == <<Reg(in("runtime.json"), Now.root)>>
           es == config \o points(bundles[Now.path].readonly) \o runtime
<1>1. At("bundle") /\ cfg' = cfg /\ split' = split /\ Emit(es, <<>>)
  BY DEF ImageBundle
<1>2. Now.do = "bundle"
  BY <1>1, HeadIs
<1>3. ASSUME Tame(Now) PROVE Aside(es)
  <2>1. \A f : in(f) \notin BootFiles
    BY <1>2, <1>3, InsideAside DEF Tame
  <2>2. /\ \A f : Aside(<<Dir(in(f))>>)
        /\ \A f, x : Aside(<<Reg(in(f), x)>>)
    BY <2>1, AsideOne DEF Dir, Reg
  <2>3. Aside(config) /\ Aside(runtime)
    BY <2>2
  <2>4. \A readonly : Aside(points(readonly))
    <3> SUFFICES ASSUME NEW readonly PROVE Aside(points(readonly))
      OBVIOUS
    <3> DEFINE tmp == Dir(in("tmp"))
               rootfs == Dir(in("rootfs"))
    <3>1. Aside(<<tmp>>) /\ Aside(<<rootfs>>)
      BY <2>2
    <3>2. points(readonly) \in {<<tmp, rootfs>>, <<rootfs>>, <<>>}
      OBVIOUS
    <3> HIDE DEF tmp, rootfs
    <3>3. Aside(<<tmp, rootfs>>)
      <4>1. <<tmp>> \o <<rootfs>> = <<tmp, rootfs>>
        BY OneAndOne
      <4> QED
        BY <3>1, <4>1, AsideMore
    <3> HIDE DEF points
    <3> QED
      BY <3>1, <3>2, <3>3, AsideNone
  <2> HIDE DEF points, config, runtime
  <2> QED
    BY <2>3, <2>4, AsideMore
<1> HIDE DEF es
<1> QED
  BY <1>1, <1>3, TameNone, StreamStep

LEMMA AdditionSplit ==
  ASSUME BootIsOurs, BuildInv, SplitInv, Addition
  PROVE  SplitInv'
<1> DEFINE e  == Reg(<<"Dockerfile">>, <<"dockerfile">>)
           es == <<e>>
<1>1. At("addition") /\ cfg' = cfg /\ split' = split /\ Emit(es, <<>>)
  BY DEF Addition
<1>2. e.name \notin BootFiles
  <2>1. e.name = <<"Dockerfile">> /\ Len(e.name) = 1
    BY DEF Reg
  <2> HIDE DEF e
  <2> QED
    BY <2>1, BootFileIs
<1> HIDE DEF e
<1>3. Aside(es)
  BY <1>2, AsideOne
<1> HIDE DEF es
<1> QED
  BY <1>1, <1>3, TameNone, StreamStep

LEMMA AddFileSplit ==
  ASSUME BootIsOurs, BuildInv, SplitInv, AddFile
  PROVE  SplitInv'
<1> DEFINE f    == Now.f
           path == IF f.path[1] = "" THEN Tail(f.path) ELSE f.path
           dirs == Matching(Leading(path), ToSet(Leading(path)) \ added)
           uid  == IdNumeric(f.uid, Ids(cfg))
           file == CASE "directory" \in f.given -> Dir(path)
                     [] f.given \cap {"directory", "symlink"} = {"symlink"} -> Symlink(path, f.link)
                     [] OTHER -> Reg(path, f.body)
           above == [i \in DOMAIN dirs |-> [Dir(dirs[i]) EXCEPT !.uid = uid]]
           owned == [file EXCEPT !.uid = uid]
           es    == above \o <<owned>>
<1>1. At("file") /\ cfg' = cfg /\ split' = split
  BY ZenonT(60) DEF AddFile
<1>2. Fail \/ Emit(<<>>, <<>>) \/ Emit(es, <<>>)
  BY ZenonT(60) DEF AddFile
<1>3. Now.do = "file"
  BY <1>1, HeadIs
<1>4. path = PathOf(Now.f)
  BY ZenonT(60) DEF PathOf
<1>5. owned.name = path
  <2>1. file.name = path /\ IsEntry(file)
    BY EntriesMade, ZenonT(60) DEF Dir, Symlink, Reg
  <2> HIDE DEF file
  <2> QED
    BY <2>1 DEF IsEntry
<1> HIDE DEF owned, path, f, uid
<1>6. ASSUME Tame(Now) PROVE Aside(es)
  <2>1. Clear(path)
    BY <1>3, <1>4, <1>6 DEF Tame
  <2>2. IsList(path)
    BY <2>1 DEF Clear
  <2>3. IsList(Leading(path))
    BY <2>2, LeadingType
  <2>4. IsList(dirs) /\ \A i \in DOMAIN dirs : \E k \in DOMAIN Leading(path) : dirs[i] = Leading(path)[k]
    BY <2>3, ListMatching
  <2>5. \A i \in DOMAIN dirs : dirs[i] \notin BootFiles
    BY <2>1, <2>4, LeadingAside
  <2> HIDE DEF dirs
  <2>6. Aside(above)
    <3>1. Len(dirs) \in Nat /\ DOMAIN dirs = 1..Len(dirs)
      BY <2>4, ListDomain
    <3>2. /\ above = [i \in 1..Len(dirs) |-> above[i]] /\ DOMAIN above = 1..Len(dirs)
          /\ \A i \in 1..Len(dirs) : above[i].name = dirs[i]
      BY <3>1 DEF Dir
    <3> HIDE DEF above
    <3>3. IsList(above)
      BY <3>1, <3>2, Listed
    <3> QED
      BY <2>5, <3>1, <3>2, <3>3 DEF Aside
  <2>7. Aside(<<owned>>)
    BY <1>5, <2>1, ClearAside, AsideOne
  <2> HIDE DEF above
  <2> QED
    BY <2>6, <2>7, AsideMore
<1> HIDE DEF es
<1>7. CASE Emit(<<>>, <<>>)
  BY <1>1, <1>7, TameNone, AsideNone, StreamStep
<1>8. CASE Emit(es, <<>>)
  BY <1>1, <1>6, <1>8, TameNone, StreamStep
<1>9. CASE Fail
  BY <1>1, <1>9, SplitEnds DEF Fail
<1> QED
  BY <1>2, <1>7, <1>8, <1>9

\* The stream behind the filter, split.
LEMMA WholeSplits ==
  ASSUME BootIsOurs, cfg.kimage[1] \in DOMAIN Tars, IsArchive(out), Whole,
         NEW kernel, kernel = BodyOf(cfg.kimage[1], KernelName(cfg)),
         NEW archive, archive = BodyOf(cfg.kimage[1], TarName(cfg))
  PROVE  /\ SplitTar.kernel = IF cfg.unzip THEN Unzip[kernel] ELSE kernel
         /\ SplitTar.cmdline = cfg.cmdline
         /\ SplitTar.ucode = BodyOf(cfg.kimage[1], cfg.ucode)
         /\ archive # None => \A i \in DOMAIN KernelTar[archive] :
              \E j \in DOMAIN SplitTar.initrd : Bare(SplitTar.initrd[j].name) = Bare(KernelTar[archive][i].name)
<1> DEFINE n == Len(KernelImage)
<1>1. IsList(KernelImage) /\ n \in Nat
  BY KernelImageIs, ListDomain
<1>2. \A name : Body(n, name) = BodyOf(cfg.kimage[1], name)
  <2>1. \A name : LastIn(KernelImage, n, name) = LastOf(KernelImage, name)
    BY <1>1, LastInAll
  <2> QED
    BY <2>1 DEF Body, BodyOf, KernelImage
<1>3. /\ LastOf(out, KernelFile) = Ready(kernel)
      /\ LastOf(out, CmdlineFile) = cfg.cmdline
      /\ LastOf(out, UcodeFile) = BodyOf(cfg.kimage[1], cfg.ucode)
      /\ TarName(cfg) # None => Unpacked(out, archive)
  BY <1>2 DEF Whole
<1>4. /\ SplitTar.kernel = LastOf(out, KernelFile)
      /\ SplitTar.cmdline = LastOf(out, CmdlineFile)
      /\ SplitTar.ucode = LastOf(out, UcodeFile)
      /\ SplitTar.initrd = [i \in DOMAIN Rest |-> Converted(Rest[i])]
  BY DEF SplitTar, LastBody, KernelFile, CmdlineFile, UcodeFile
<1>5. ASSUME archive # None, NEW i \in DOMAIN KernelTar[archive]
      PROVE  \E j \in DOMAIN SplitTar.initrd : SplitTar.initrd[j].name = KernelTar[archive][i].name
  <2>1. TarName(cfg) # None
    BY <1>5 DEF BodyOf
  <2>2. archive \in DOMAIN KernelTar /\ \E j \in DOMAIN out : out[j].name = KernelTar[archive][i].name
    BY <1>3, <2>1 DEF Unpacked
  <2>3. PICK k \in DOMAIN out : out[k].name = KernelTar[archive][i].name
    BY <2>2
  <2>4. ~InBoot(out[k].name)
    BY <2>2, <2>3 DEF BootIsOurs
  <2> DEFINE kept == {e \in ToSet(out) : ~InBoot(e.name)}
  <2>5. IsList(out)
    BY DEF IsArchive
  <2>6. out[k] \in kept
    BY <2>4 DEF ToSet
  <2>7. Rest = Matching(out, kept)
    BY DEF Rest
  <2> HIDE DEF kept
  <2>8. PICK j \in DOMAIN Rest : Rest[j] = out[k]
    BY <2>5, <2>6, <2>7, ListMatching
  <2>9. Converted(out[k]).name = out[k].name
    <3>1. IsEntry(out[k])
      BY DEF IsArchive
    <3> QED
      BY <3>1 DEF Converted, IsEntry
  <2>10. j \in DOMAIN SplitTar.initrd /\ SplitTar.initrd[j] = Converted(out[k])
    BY <1>4, <2>8
  <2> QED
    BY <2>3, <2>9, <2>10
<1> QED
  BY <1>3, <1>4, <1>5 DEF Ready

LEMMA WritesTame ==
  ASSUME NEW o, NEW s
  PROVE  TameAll(Writes(o, s))
<1>1. \A i \in DOMAIN Writes(o, s) : Tame(Writes(o, s)[i])
  <2>1. \A t : t.do = "write" => Tame(t)
    BY DEF Tame, Kinds, Outputs
  <2> QED
    BY <2>1, WritesDo DEF Does
<1> QED
  BY <1>1, WritesDo DEF TameAll, Does

\* A step of the outputs, behind the closed filter.
LEMMA OutputStep ==
  ASSUME BootIsOurs, BuildInv, SplitInv, NEW what \in {"format", "write"}, At(what),
         cfg' = cfg, out' = out, NEW items, TameAll(items), todo' = items \o Tail(todo),
         split' = split \/ split' = SplitTar
  PROVE  SplitInv'
<1>1. CASE cfg.kimage = None
  BY <1>1 DEF SplitInv
<1>2. CASE cfg.kimage # None
  <2>1. Closed /\ todo # <<>> /\ status = "building"
    BY <1>2, StreamHead
  <2>2. cfg.kimage[1] \in DOMAIN Tars /\ KernelSplit
    BY <1>2, <2>1 DEF SplitInv
  <2>3. IsArchive(out) /\ IsList(out) /\ IsList(todo)
    BY DEF BuildInv, BuildType, IsArchive
  <2>4. out' = out \o <<>>
    BY <2>3 DEF IsList
  <2>5. Closed'
    BY <2>1, <2>3, <2>4, AsideNone, ClosedStays
  <2>6. KernelSplit'
    <3>1. CASE split' = split
      BY <2>2, <3>1, SplitSame
    <3>2. CASE split' = SplitTar
      <4> DEFINE kernel == BodyOf(cfg.kimage[1], KernelName(cfg))
                 archive == BodyOf(cfg.kimage[1], TarName(cfg))
      <4>1. PICK s : s = SplitTar
        OBVIOUS
      <4>2. /\ s.kernel = IF cfg.unzip THEN Unzip[kernel] ELSE kernel
            /\ s.cmdline = cfg.cmdline
            /\ s.ucode = BodyOf(cfg.kimage[1], cfg.ucode)
            /\ archive # None => \A i \in DOMAIN KernelTar[archive] :
                 \E j \in DOMAIN s.initrd : Bare(s.initrd[j].name) = Bare(KernelTar[archive][i].name)
        BY <2>1, <2>2, <2>3, <4>1, WholeSplits DEF Closed
      <4>3. split' = s
        BY <3>2, <4>1
      <4>4. cfg' = cfg
        OBVIOUS
      <4> QED
        <5>1. /\ kernel = BodyOf(cfg'.kimage[1], KernelName(cfg'))
              /\ archive = BodyOf(cfg'.kimage[1], TarName(cfg'))
          BY <4>4, Zenon
        <5> HIDE DEF kernel, archive
        <5>2. /\ split'.kernel = IF cfg'.unzip THEN Unzip[kernel] ELSE kernel
              /\ split'.cmdline = cfg'.cmdline
              /\ split'.ucode = BodyOf(cfg'.kimage[1], cfg'.ucode)
          BY <4>2, <4>3, <4>4
        <5>3. archive # None => \A i \in DOMAIN KernelTar[archive] :
                \E j \in DOMAIN split'.initrd :
                  Bare(split'.initrd[j].name) = Bare(KernelTar[archive][i].name)
          BY <4>2, <4>3, Zenon
        <5> QED
          BY <5>1, <5>2, <5>3 DEF KernelSplit, Has, BodyOf, KernelName, TarName
    <3> QED
      BY <3>1, <3>2
  <2> QED
    BY <1>2, <2>5, <2>6, SplitKeeps
<1> QED
  BY <1>1, <1>2

LEMMA OutputFormatSplit ==
  ASSUME BootIsOurs, BuildInv, SplitInv, OutputFormat
  PROVE  SplitInv'
<1> DEFINE items == Writes(Now.o, SplitTar)
<1>1. /\ At("format") /\ cfg' = cfg /\ out' = out /\ (split' = split \/ split' = SplitTar)
      /\ todo' = items \o Tail(todo)
  BY DEF OutputFormat, Then
<1>2. TameAll(items)
  BY WritesTame
<1> HIDE DEF items
<1> QED
  BY <1>1, <1>2, OutputStep

LEMMA WriteOutputSplit ==
  ASSUME BootIsOurs, BuildInv, SplitInv, WriteOutput
  PROVE  SplitInv'
<1>1. At("write") /\ cfg' = cfg /\ out' = out /\ split' = split /\ todo' = <<>> \o Tail(todo)
  BY DEF WriteOutput, Then
<1> QED
  BY <1>1, TameNone, OutputStep

(***************************************************************************)
(* Before the kernel image is opened                                       *)
(***************************************************************************)
\* A list of items that is still to open the image, as its m-th item.
Opens(image, l, m) ==
  /\ IsList(l) /\ m \in 1..(Len(l) - 1)
  /\ \A i \in DOMAIN l :
       /\ i < m     => l[i].do \in Tool
       /\ i = m     => l[i] = ImageTar(image, None, "kernel", None)
       /\ i = m + 1 => l[i] = Do("close")
       /\ i > m + 1 => Tame(l[i])

\* Items that see to the tool's files.
ToolItems(a) == IsList(a) /\ \A i \in DOMAIN a : a[i].do \in Tool

LEMMA OpensAfter ==
  ASSUME NEW image, NEW a, ToolItems(a), NEW l, NEW m, Opens(image, l, m)
  PROVE  Opens(image, a \o l, Len(a) + m)
<1> DEFINE u == a \o l
<1>1. IsList(a) /\ IsList(l) /\ m \in 1..(Len(l) - 1)
  BY DEF ToolItems, Opens
<1>2. Len(a) \in Nat /\ Len(l) \in Nat /\ DOMAIN a = 1..Len(a) /\ DOMAIN l = 1..Len(l)
  BY <1>1, ListDomain
<1>3. IsList(u) /\ Len(u) = Len(a) + Len(l) /\ DOMAIN u = 1..(Len(a) + Len(l))
  BY <1>1, ListConcat
<1>4. \A k \in DOMAIN u :
        \/ k \in DOMAIN a /\ u[k] = a[k]
        \/ k - Len(a) \in DOMAIN l /\ u[k] = l[k - Len(a)]
  BY <1>1, ListConcat
<1>5. Len(a) + m \in 1..(Len(u) - 1)
  BY <1>1, <1>2, <1>3
<1> HIDE DEF u
<1>6. ASSUME NEW i \in DOMAIN u
      PROVE  /\ i < Len(a) + m     => u[i].do \in Tool
             /\ i = Len(a) + m     => u[i] = ImageTar(image, None, "kernel", None)
             /\ i = Len(a) + m + 1 => u[i] = Do("close")
             /\ i > Len(a) + m + 1 => Tame(u[i])
  <2>1. CASE i \in DOMAIN a /\ u[i] = a[i]
    <3>1. i < Len(a) + m /\ ~(i > Len(a) + m + 1) /\ i # Len(a) + m /\ i # Len(a) + m + 1
      BY <1>1, <1>2, <2>1
    <3>2. u[i].do \in Tool
      BY <2>1 DEF ToolItems
    <3> QED
      BY <3>1, <3>2
  <2>2. CASE i - Len(a) \in DOMAIN l /\ u[i] = l[i - Len(a)]
    <3> DEFINE j == i - Len(a)
    <3>1. /\ i < Len(a) + m => j < m
          /\ i = Len(a) + m => j = m
          /\ i = Len(a) + m + 1 => j = m + 1
          /\ i > Len(a) + m + 1 => j > m + 1
      BY <1>1, <1>2, <1>3
    <3>2. j \in DOMAIN l /\ u[i] = l[j]
      BY <2>2
    <3> HIDE DEF j
    <3>3. /\ j < m     => l[j].do \in Tool
          /\ j = m     => l[j] = ImageTar(image, None, "kernel", None)
          /\ j = m + 1 => l[j] = Do("close")
          /\ j > m + 1 => Tame(l[j])
      BY <3>2 DEF Opens
    <3> QED
      BY <3>1, <3>2, <3>3
  <2> QED
    BY <1>4, <2>1, <2>2
<1> QED
  BY <1>3, <1>5, <1>6 DEF Opens, u

LEMMA OpensMore ==
  ASSUME NEW image, NEW l, NEW m, Opens(image, l, m), NEW b, TameAll(b)
  PROVE  Opens(image, l \o b, m)
<1> DEFINE u == l \o b
<1>1. IsList(b) /\ IsList(l) /\ m \in 1..(Len(l) - 1)
  BY DEF TameAll, Opens
<1>2. Len(b) \in Nat /\ Len(l) \in Nat /\ DOMAIN b = 1..Len(b) /\ DOMAIN l = 1..Len(l)
  BY <1>1, ListDomain
<1>3. IsList(u) /\ Len(u) = Len(l) + Len(b) /\ DOMAIN u = 1..(Len(l) + Len(b))
  BY <1>1, ListConcat
<1>4. \A k \in DOMAIN u :
        \/ k \in DOMAIN l /\ u[k] = l[k]
        \/ k - Len(l) \in DOMAIN b /\ u[k] = b[k - Len(l)]
  BY <1>1, ListConcat
<1>5. m \in 1..(Len(u) - 1)
  BY <1>1, <1>2, <1>3
<1> HIDE DEF u
<1>6. ASSUME NEW i \in DOMAIN u
      PROVE  /\ i < m     => u[i].do \in Tool
             /\ i = m     => u[i] = ImageTar(image, None, "kernel", None)
             /\ i = m + 1 => u[i] = Do("close")
             /\ i > m + 1 => Tame(u[i])
  <2>1. CASE i \in DOMAIN l /\ u[i] = l[i]
    BY <2>1 DEF Opens
  <2>2. CASE i - Len(l) \in DOMAIN b /\ u[i] = b[i - Len(l)]
    <3>1. i > m + 1 /\ ~(i < m) /\ i # m /\ i # m + 1
      BY <1>1, <1>2, <1>3, <2>2
    <3>2. Tame(u[i])
      BY <2>2 DEF TameAll
    <3> QED
      BY <3>1, <3>2
  <2> QED
    BY <1>4, <2>1, <2>2
<1> QED
  BY <1>3, <1>5, <1>6 DEF Opens, u

LEMMA OpensBefore ==
  ASSUME NEW image, NEW l, NEW m, Opens(image, l, m), out' = <<>>, kf' = Filter,
         cfg'.kimage[1] = image, todo' = l
  PROVE  Unopened'
<1>1. m \in 1..(Len(todo') - 1)
  BY DEF Opens
<1>2. \A i \in DOMAIN todo' :
        /\ i < m     => todo'[i].do \in Tool
        /\ i = m     => todo'[i] = ImageTar(cfg'.kimage[1], None, "kernel", None)
        /\ i = m + 1 => todo'[i] = Do("close")
        /\ i > m + 1 => Tame(todo'[i])
  BY DEF Opens
<1>3. Starts(todo, m)'
  BY <1>2 DEF Starts
<1> QED
  BY <1>1, <1>3 DEF Unopened

\* A step that sees to the tool's files.
LEMMA ToolStep ==
  ASSUME BootIsOurs, BuildInv, SplitInv, NEW what \in Tool, At(what),
         cfg' = cfg, out' = out, kf' = kf, split' = split,
         NEW items, ToolItems(items), TameAll(items), todo' = items \o Tail(todo)
  PROVE  SplitInv'
<1>1. todo # <<>> /\ status = "building" /\ IsList(todo) /\ IsList(out)
  BY HeadIs DEF BuildInv, BuildType, IsArchive
<1>2. CASE cfg.kimage = None
  BY <1>2 DEF SplitInv
<1>3. CASE cfg.kimage # None
  <2>1. KernelSplit'
    BY <1>1, <1>3, SplitSame DEF SplitInv
  <2>2. CASE Closed
    <3>1. out' = out \o <<>>
      BY <1>1 DEF IsList
    <3>2. Closed'
      BY <1>1, <2>2, <3>1, AsideNone, ClosedStays
    <3> QED
      BY <1>3, <2>1, <3>2, SplitKeeps
  <2>3. ASSUME out = <<>>, kf = Filter, NEW m \in 2..(Len(todo) - 1), Starts(todo, m)
        PROVE  SplitInv'
    <3> DEFINE t == Tail(todo)
               l == m - 1
    <3>1. IsList(t) /\ Len(t) = Len(todo) - 1 /\ Len(todo) \in Nat
      BY <1>1, ListTail, ListDomain
    <3>2. DOMAIN t = 1..(Len(todo) - 1) /\ DOMAIN todo = 1..Len(todo)
      BY <1>1, <3>1, ListDomain
    <3>3. \A i \in DOMAIN t : i + 1 \in DOMAIN todo /\ t[i] = todo[i + 1]
      <4>1. \A i \in 1..(Len(todo) - 1) : t[i] = todo[i + 1]
        BY <1>1 DEF IsList
      <4> QED
        BY <3>1, <3>2, <4>1
    <3>4. l \in 1..(Len(t) - 1) /\ l + 1 = m
      BY <2>3, <3>1
    <3> HIDE DEF t, l
    <3>5. ASSUME NEW i \in DOMAIN t
          PROVE  /\ i < l     => t[i].do \in Tool
                 /\ i = l     => t[i] = ImageTar(cfg.kimage[1], None, "kernel", None)
                 /\ i = l + 1 => t[i] = Do("close")
                 /\ i > l + 1 => Tame(t[i])
      <4> DEFINE j == i + 1
      <4>1. j \in DOMAIN todo /\ t[i] = todo[j]
        BY <3>3
      <4>2. /\ i < l => j < m
            /\ i = l => j = m
            /\ i = l + 1 => j = m + 1
            /\ i > l + 1 => j > m + 1
        BY <3>1, <3>2, <3>4
      <4> HIDE DEF j
      <4>3. /\ j < m     => todo[j].do \in Tool
            /\ j = m     => todo[j] = ImageTar(cfg.kimage[1], None, "kernel", None)
            /\ j = m + 1 => todo[j] = Do("close")
            /\ j > m + 1 => Tame(todo[j])
        BY <2>3, <4>1 DEF Starts
      <4> QED
        BY <4>1, <4>2, <4>3
    <3>6. Opens(cfg.kimage[1], t, l)
      BY <3>1, <3>4, <3>5 DEF Opens
    <3>7. Opens(cfg.kimage[1], items \o t, Len(items) + l)
      BY <3>6, OpensAfter
    <3>8. Unopened'
      BY <2>3, <3>7, OpensBefore DEF t
    <3> QED
      BY <1>3, <2>1, <3>8, SplitKeeps
  <2> QED
    BY <1>3, <2>2, <2>3, Phases DEF Tool
<1> QED
  BY <1>2, <1>3

LEMMA PartsTools == ToolItems(WriteParts) /\ TameAll(WriteParts) /\ ToolItems(<<>>)
<1>1. /\ \A part : Create(part).do \in Tool /\ Tame(Create(part))
      /\ \A part : Fill(part).do \in Tool /\ Tame(Fill(part))
  BY DEF Create, Fill, Tool, Tame, Kinds, Outputs
<1>2. \A i \in 1..6 : WriteParts[i].do \in Tool /\ Tame(WriteParts[i])
  <2>1. \A i \in 1..6 : i = 1 \/ i = 2 \/ i = 3 \/ i = 4 \/ i = 5 \/ i = 6
    OBVIOUS
  <2> QED
    BY <1>1, <2>1, WritePartsIs
<1> QED
  BY <1>2, WritePartsIs, EmptyList DEF ToolItems, TameAll

LEMMA EnsureMkimageSplit ==
  ASSUME BootIsOurs, BuildInv, SplitInv, EnsureMkimage
  PROVE  SplitInv'
<1>1. /\ At("mkimage") /\ cfg' = cfg /\ out' = out /\ kf' = kf /\ split' = split
      /\ todo' = <<>> \o Tail(todo) \/ todo' = WriteParts \o Tail(todo)
  BY DEF EnsureMkimage, Then
<1> QED
  BY <1>1, PartsTools, TameNone, ToolStep DEF Tool

LEMMA WriteMkimageSplit ==
  ASSUME BootIsOurs, BuildInv, SplitInv, WriteMkimage
  PROVE  SplitInv'
<1>1. /\ At("create") \/ At("fill")
      /\ cfg' = cfg /\ out' = out /\ kf' = kf /\ split' = split /\ todo' = <<>> \o Tail(todo)
  BY DEF WriteMkimage, Then
<1> QED
  BY <1>1, PartsTools, TameNone, ToolStep DEF Tool

(***************************************************************************)
(* A new build opens the kernel image before all that makes the stream     *)
(***************************************************************************)
LEMMA ContainerTame ==
  ASSUME NEW c, NEW section, NEW dir
  PROVE  Tame(Container(c, section, dir))
<1> DEFINE path == <<"containers", section, dir>>
<1>1. Container(c, section, dir) = [do |-> "container", to |-> "tar", image |-> c.image, yaml |-> c.yaml,
                                    path |-> path]
  BY DEF Container
<1>2. path \in Seq({"containers", section, dir}) /\ Len(path) = 3 /\ path[1] = "containers"
  OBVIOUS
<1> HIDE DEF path
<1>3. Prefixed(path) /\ path # None
  <2>1. IsList(path)
    BY <1>2, ListIs
  <2>2. path # None
    <3>1. Len(None) = 0 /\ Len(path) = 3 /\ 3 # 0
      BY <1>2, EmptyList DEF None
    <3> QED
      BY <3>1, Zenon
  <2> QED
    BY <1>2, <2>1, <2>2 DEF Prefixed
<1> QED
  BY <1>1, <1>3 DEF Tame, Kinds, Outputs

LEMMA ContainersTame ==
  ASSUME NEW cs, IsList(cs), NEW section
  PROVE  /\ TameAll(Numbered(cs, section))
         /\ TameAll([i \in DOMAIN cs |-> Container(cs[i], "services", cs[i].name)])
<1>1. TameAll(Numbered(cs, section))
  <2> DEFINE f == [i \in DOMAIN cs |-> Container(cs[i], section, NumberedName(i, cs[i].name))]
  <2>1. f = [i \in DOMAIN cs |-> f[i]]
    OBVIOUS
  <2>2. ASSUME NEW i \in DOMAIN cs PROVE Tame(f[i])
    <3>1. f[i] = Container(cs[i], section, NumberedName(i, cs[i].name))
      OBVIOUS
    <3> HIDE DEF f
    <3> QED
      BY <3>1, ContainerTame
  <2> HIDE DEF f
  <2>3. TameAll(f)
    BY <2>1, <2>2, TameEach
  <2> QED
    BY <2>3 DEF f, Numbered
<1>2. TameAll([i \in DOMAIN cs |-> Container(cs[i], "services", cs[i].name)])
  <2> DEFINE f == [i \in DOMAIN cs |-> Container(cs[i], "services", cs[i].name)]
  <2>1. f = [i \in DOMAIN cs |-> f[i]]
    OBVIOUS
  <2>2. ASSUME NEW i \in DOMAIN cs PROVE Tame(f[i])
    <3>1. f[i] = Container(cs[i], "services", cs[i].name)
      OBVIOUS
    <3> HIDE DEF f
    <3> QED
      BY <3>1, ContainerTame
  <2> HIDE DEF f
  <2>3. TameAll(f)
    BY <2>1, <2>2, TameEach
  <2> QED
    BY <2>3 DEF f
<1> QED
  BY <1>1, <1>2

LEMMA BuildItemsOpen ==
  ASSUME NEW c, IsConfig(c), c.kimage # None, \A i \in DOMAIN c.files : Clear(PathOf(c.files[i]))
  PROVE  Opens(c.kimage[1], BuildItems(c), 1)
<1> DEFINE kernel == IF c.kimage = None THEN <<>>
                     ELSE <<ImageTar(c.kimage[1], None, "kernel", None), Do("close")>>
           init == [i \in DOMAIN c.init |-> ImageTar(c.init[i], None, "tar", <<"", "run", "resolvconf", "resolv.conf">>)]
           onboot == Numbered(c.onboot, "onboot")
           onshutdown == Numbered(c.onshutdown, "onshutdown")
           services == [i \in DOMAIN c.services |-> Container(c.services[i], "services", c.services[i].name)]
           files == [i \in DOMAIN c.files |-> [do |-> "file", to |-> "tar", f |-> c.files[i]]]
<1>1. BuildItems(c) = kernel \o init \o onboot \o onshutdown \o services \o files
  BY DEF BuildItems
<1>2. Opens(c.kimage[1], kernel, 1)
  <2> DEFINE t == ImageTar(c.kimage[1], None, "kernel", None)
             u == Do("close")
  <2>1. kernel = <<t, u>>
    OBVIOUS
  <2> HIDE DEF t, u, kernel
  <2>2. /\ kernel \in Seq({t, u}) /\ Len(kernel) = 2 /\ DOMAIN kernel = 1..2 /\ kernel[1] = t /\ kernel[2] = u
    BY <2>1
  <2>3. IsList(kernel)
    BY <2>2, ListIs
  <2>4. ASSUME NEW i \in DOMAIN kernel
        PROVE  /\ i < 1     => kernel[i].do \in Tool
               /\ i = 1     => kernel[i] = t
               /\ i = 1 + 1 => kernel[i] = u
               /\ i > 1 + 1 => Tame(kernel[i])
    BY <2>2
  <2> QED
    BY <2>2, <2>3, <2>4 DEF Opens, t, u
<1>3. TameAll(init)
  <2> DEFINE resolv == <<"", "run", "resolvconf", "resolv.conf">>
  <2>1. init = [i \in DOMAIN c.init |-> init[i]]
    BY ZenonT(60)
  <2>2. ASSUME NEW i \in DOMAIN c.init PROVE Tame(init[i])
    <3>1. init[i] = ImageTar(c.init[i], None, "tar", resolv)
      BY ZenonT(60)
    <3> HIDE DEF init, resolv
    <3>2. Prefixed(None)
      BY EmptyList DEF Prefixed, None
    <3> QED
      BY <3>1, <3>2 DEF Tame, Kinds, Outputs, ImageTar
  <2> HIDE DEF init
  <2> QED
    BY <2>1, <2>2, TameEach DEF IsConfig
<1>4. TameAll(onboot) /\ TameAll(onshutdown) /\ TameAll(services)
  BY ContainersTame DEF IsConfig, HasImages
<1>5. TameAll(files)
  <2>1. files = [i \in DOMAIN c.files |-> files[i]]
    OBVIOUS
  <2>2. ASSUME NEW i \in DOMAIN c.files PROVE Tame(files[i])
    <3>1. files[i] = [do |-> "file", to |-> "tar", f |-> c.files[i]]
      OBVIOUS
    <3> HIDE DEF files
    <3> QED
      BY <3>1 DEF Tame, Kinds, Outputs
  <2> HIDE DEF files
  <2> QED
    BY <2>1, <2>2, TameEach DEF IsConfig
<1> HIDE DEF kernel, init, onboot, onshutdown, services, files
<1> DEFINE image == c.kimage[1]
<1> HIDE DEF image
<1>6. Opens(image, kernel \o init \o onboot \o onshutdown \o services \o files, 1)
  <2>1. Opens(image, kernel \o init, 1)
    BY <1>2, <1>3, OpensMore DEF image
  <2>2. Opens(image, (kernel \o init) \o onboot, 1)
    BY <1>4, <2>1, OpensMore
  <2>3. Opens(image, ((kernel \o init) \o onboot) \o onshutdown, 1)
    BY <1>4, <2>2, OpensMore
  <2>4. Opens(image, (((kernel \o init) \o onboot) \o onshutdown) \o services, 1)
    BY <1>4, <2>3, OpensMore
  <2> QED
    BY <1>5, <2>4, OpensMore
<1> QED
  BY <1>1, <1>6 DEF image

LEMMA StartBuildSplit ==
  ASSUME BootIsOurs, BuildInv, SplitInv, StartBuild
  PROVE  SplitInv'
<1>1. PICK files \in Configs, fs \in FormatLists, unzip \in BOOLEAN :
        /\ cfg' = [Merged(files) EXCEPT !.unzip = unzip]
        /\ todo' = Prerequisites(fs) \o BuildItems(Merged(files))
                     \o (IF fs[1] = "docker" THEN <<Do("addition")>> ELSE <<>>)
                     \o Prerequisites(fs)
                     \o FormatItems(fs)
  BY DEF StartBuild
<1> DEFINE c     == Merged(files)
           first == Prerequisites(fs)
           build == BuildItems(c)
           extra == IF fs[1] = "docker" THEN <<Do("addition")>> ELSE <<>>
           made  == FormatItems(fs)
<1>2. status' = "building" /\ out' = <<>> /\ kf' = Filter /\ split' = NoSplit
  BY DEF StartBuild
<1>3. IsList(fs) /\ IsConfig(c)
  BY ConfigsAssumption, FormatsAssumption, MergedType
<1>4. todo' = (((first \o build) \o extra) \o first) \o made
  BY <1>1
<1>5. NamesApart(c) /\ \A i \in DOMAIN c.files : Clear(PathOf(c.files[i]))
  BY DEF BootIsOurs
<1>6. ToolItems(first) /\ TameAll(first)
  <2>1. IsList(first) /\ DOMAIN first = 1..Len(first) /\ \A i \in DOMAIN first : first[i] = Do("mkimage")
    <3>1. IsList(first)
      BY <1>3, PrerequisitesPlain DEF Plain
    <3>2. \A i \in DOMAIN first : first[i] = Do("mkimage")
      BY DEF Prerequisites
    <3> QED
      BY <3>1, <3>2, ListDomain
  <2>2. Do("mkimage").do \in Tool /\ Tame(Do("mkimage"))
    BY DEF Do, Tool, Tame, Kinds, Outputs
  <2> QED
    BY <2>1, <2>2 DEF ToolItems, TameAll
<1>7. TameAll(extra)
  <2> DEFINE t == Do("addition")
  <2>1. Tame(t)
    BY DEF Do, Tame, Kinds, Outputs
  <2>2. extra = <<t>> \/ extra = <<>>
    OBVIOUS
  <2> HIDE DEF t, extra
  <2> QED
    BY <2>1, <2>2, TameOne, TameNone
<1>8. TameAll(made)
  <2>1. Does(made, Outputs)
    BY <1>3, FormatItemsDo
  <2> HIDE DEF made
  <2>2. \A t : t.do \in Outputs => Tame(t)
    BY DEF Tame, Kinds, Outputs
  <2> QED
    BY <2>1, <2>2 DEF Does, TameAll
<1>9. /\ cfg'.kimage = c.kimage /\ cfg'.binary = c.binary /\ cfg'.tar = c.tar /\ cfg'.ucode = c.ucode
  <2> HIDE DEF c
  <2>1. cfg' = [c EXCEPT !.unzip = unzip]
    BY <1>1 DEF c
  <2>2. c \in [kimage : {c.kimage}, cmdline : {c.cmdline}, binary : {c.binary}, tar : {c.tar}, ucode : {c.ucode},
               unzip : {c.unzip}, init : {c.init}, onboot : {c.onboot}, onshutdown : {c.onshutdown},
               services : {c.services}, files : {c.files}, valid : {c.valid}]
    BY <1>3 DEF IsConfig
  <2> QED
    BY <2>1, <2>2
<1>10. CASE c.kimage = None
  BY <1>9, <1>10 DEF SplitInv
<1>11. CASE c.kimage # None
  <2> DEFINE image == c.kimage[1]
  <2>1. Opens(image, build, 1)
    BY <1>3, <1>5, <1>11, BuildItemsOpen
  <2>2. image \in DOMAIN Tars
    BY <1>3, <1>11 DEF IsConfig
  <2>3. cfg'.kimage[1] = image
    BY <1>9
  <2> HIDE DEF image, first, build, extra, made
  <2>4. Opens(image, first \o build, Len(first) + 1)
    BY <1>6, <2>1, OpensAfter
  <2> DEFINE m == Len(first) + 1
  <2> HIDE DEF m
  <2>5. Opens(image, (first \o build) \o extra, m)
    BY <1>7, <2>4, OpensMore DEF m
  <2>6. Opens(image, ((first \o build) \o extra) \o first, m)
    BY <1>6, <2>5, OpensMore
  <2>7. Opens(image, (((first \o build) \o extra) \o first) \o made, m)
    BY <1>8, <2>6, OpensMore
  <2>8. Unopened'
    BY <1>2, <1>4, <2>3, <2>7, OpensBefore
  <2>9. KernelSplit'
    BY <1>2 DEF KernelSplit
  <2>10. NamesApart(cfg)'
    BY <1>5, <1>9 DEF NamesApart, KernelName, TarName
  <2>11. (cfg.kimage[1] \in DOMAIN Tars)'
    BY <2>2, <2>3
  <2> QED
    BY <2>8, <2>9, <2>10, <2>11 DEF SplitInv
<1> QED
  BY <1>10, <1>11

LEMMA SplitStill ==
  ASSUME SplitInv, IsList(out), UNCHANGED <<cfg, todo, out, kf, split, status>>
  PROVE  SplitInv'
<1>1. CASE cfg.kimage = None
  BY <1>1 DEF SplitInv
<1>2. CASE cfg.kimage # None
  <2>1. KernelSplit'
    BY <1>2, SplitSame DEF SplitInv
  <2>2. Unopened => Unopened'
    BY DEF Unopened, Starts
  <2>3. Closed => Closed'
    <3>1. out' = out \o <<>>
      BY DEF IsList
    <3>2. Whole => Whole'
      BY <3>1, AsideNone, WholeStays
    <3> QED
      BY <3>2 DEF Closed
  <2>4. \A p : Within(p) => Within(p)'
    <3> SUFFICES ASSUME NEW p, Within(p) PROVE Within(p)'
      OBVIOUS
    <3>1. KernelImage' = KernelImage /\ \A m : KernelItem(m)' = KernelItem(m)
      BY ArrivedStays
    <3>2. PICK k : k = [kf EXCEPT !.out = out]
      OBVIOUS
    <3>3. Arrived(k, p)
      BY <3>2 DEF Within
    <3>4. Arrived(k, p)'
      BY <3>3, ArrivedStays
    <3>5. Arrived([kf EXCEPT !.out = out], p)'
      BY <3>2, <3>4
    <3> QED
      BY <3>1, <3>5 DEF Within
  <2> QED
    BY <1>2, <2>1, <2>2, <2>3, <2>4, SplitKeeps DEF SplitInv
<1> QED
  BY <1>1, <1>2

(***************************************************************************)
(* The kernel                                                              *)
(***************************************************************************)
LEMMA SplitNext ==
  ASSUME BootIsOurs, BuildInv, SplitInv, [Next]_vars
  PROVE  SplitInv'
<1>1. CASE StartBuild
  BY <1>1, StartBuildSplit
<1>2. CASE OpenImage
  BY <1>2, OpenImageSplit
<1>3. CASE ImageEntry
  BY <1>3, ImageEntrySplit
<1>4. CASE TouchFiles
  BY <1>4, TouchFilesSplit
<1>5. CASE CloseKernel
  BY <1>5, CloseKernelSplit
<1>6. CASE OutputImage
  BY <1>6, OutputImageSplit
<1>7. CASE ImageBundle
  BY <1>7, ImageBundleSplit
<1>8. CASE AddFile
  BY <1>8, AddFileSplit
<1>9. CASE Addition
  BY <1>9, AdditionSplit
<1>10. CASE OutputFormat
  BY <1>10, OutputFormatSplit
<1>11. CASE WriteOutput
  BY <1>11, WriteOutputSplit
<1>12. CASE EnsureMkimage
  BY <1>12, EnsureMkimageSplit
<1>13. CASE WriteMkimage
  BY <1>13, WriteMkimageSplit
<1>14. CASE Finish
  <2>1. cfg' = cfg /\ split' = split /\ status' # "building"
    BY <1>14 DEF Finish
  <2> QED
    BY <2>1, SplitEnds
<1>15. CASE Abort
  <2>1. cfg' = cfg /\ split' = split /\ status' # "building"
    BY <1>15 DEF Abort, Fail
  <2> QED
    BY <2>1, SplitEnds
<1>16. CASE UNCHANGED vars
  BY <1>16, SplitStill DEF vars, BuildInv, BuildType, IsArchive
<1> QED
  BY <1>1, <1>2, <1>3, <1>4, <1>5, <1>6, <1>7, <1>8, <1>9, <1>10, <1>11, <1>12, <1>13, <1>14, <1>15, <1>16 DEF Next

\* The kernel, command line, microcode and kernel files of a stream that has been split are
\* those of the kernel image, for every configuration whose other images, archives and files
\* stay out of the four places, in whatever order they lie in the kernel image.
THEOREM KernelWhole ==
  ASSUME BootIsOurs
  PROVE  Spec => []KernelSplit
<1>1. Init => SplitInv
  BY DEF Init, NoConfig, SplitInv
<1>2. BuildInv /\ SplitInv /\ [Next]_vars => SplitInv'
  BY SplitNext
<1>3. SplitInv => KernelSplit
  <2>1. CASE cfg.kimage = None
    BY <2>1 DEF KernelSplit
  <2>2. CASE cfg.kimage # None
    BY <2>2 DEF SplitInv
  <2> QED
    BY <2>1, <2>2
<1> QED
  BY <1>1, <1>2, <1>3, BuildInvariant, PTL DEF Spec
===============================================================================
