----------------------- MODULE ImageAssemblyProofs -----------------------
(***************************************************************************)
(* Theorems about the tar stream of a build: it can be unpacked from front *)
(* to back, no two containers write to one place, and the root a container *)
(* is given has been unpacked; for all images, archives and configurations *)
(* that are tidy (AllTidy), all lists of formats and all bounds, failures  *)
(* and kills included.                                                     *)
(*                                                                         *)
(* The invariant (AssemblyInv) has three parts.  SoundInv says what items  *)
(* may be left to do and in what order.  TreeInv says that what an item    *)
(* left to do needs is in the stream or made by an item before it.         *)
(* BundleInv says where the files of each container are, or that nobody    *)
(* has written them yet.  An action takes the first item and puts entries  *)
(* at the end of the stream and items in its place: lemmas whose names end *)
(* in Moves carry a part of the invariant over such a step (Emit), and one *)
(* lemma per action, whose name ends in Assembly, shows that it is such a  *)
(* step.                                                                   *)
(***************************************************************************)
EXTENDS ImageBuildProofs

(***************************************************************************)
(* Paths                                                                   *)
(***************************************************************************)
LEMMA SameList ==
  ASSUME NEW a, NEW b, IsList(a), IsList(b), Len(a) = Len(b), \A i \in 1..Len(a) : a[i] = b[i]
  PROVE  a = b
BY DEF IsList

LEMMA HeadPart ==
  ASSUME NEW s, IsList(s), NEW n \in 0..Len(s)
  PROVE  /\ IsList(SubSeq(s, 1, n)) /\ Len(SubSeq(s, 1, n)) = n
         /\ \A i \in 1..n : SubSeq(s, 1, n)[i] = s[i]
<1> DEFINE S == ToSet(s)
<1>1. s \in Seq(S)
  BY DEF IsList
<1> HIDE DEF S
<1>2. /\ SubSeq(s, 1, n) \in Seq(S) /\ Len(SubSeq(s, 1, n)) = n
      /\ \A i \in 1..n : SubSeq(s, 1, n)[i] = s[i]
  BY <1>1
<1> QED
  BY <1>2, ListIs

LEMMA FrontIs ==
  ASSUME NEW s, IsList(s), s # <<>>
  PROVE  /\ IsList(Front(s)) /\ Len(Front(s)) \in Nat /\ Len(s) = Len(Front(s)) + 1
         /\ Front(s) = SubSeq(s, 1, Len(s) - 1)
         /\ \A i \in 1..Len(Front(s)) : Front(s)[i] = s[i]
         /\ Last(s) = s[Len(s)]
<1>1. Len(s) \in Nat /\ Len(s) # 0
  BY ListDomain
<1>2. Len(s) - 1 \in 0..Len(s)
  BY <1>1
<1>3. Front(s) = SubSeq(s, 1, Len(s) - 1) /\ Last(s) = s[Len(s)]
  BY DEF Front, Last
<1>4. /\ IsList(Front(s)) /\ Len(Front(s)) = Len(s) - 1
      /\ \A i \in 1..(Len(s) - 1) : Front(s)[i] = s[i]
  BY <1>2, <1>3, HeadPart
<1> QED
  BY <1>1, <1>3, <1>4

LEMMA AppendIs ==
  ASSUME NEW p, IsList(p), NEW x
  PROVE  /\ IsList(Append(p, x)) /\ Len(Append(p, x)) = Len(p) + 1 /\ Len(p) \in Nat /\ Append(p, x) # <<>>
         /\ \A i \in 1..Len(p) : Append(p, x)[i] = p[i]
         /\ Append(p, x)[Len(p) + 1] = x
         /\ Last(Append(p, x)) = x /\ Front(Append(p, x)) = p
<1> DEFINE S == ToSet(p) \cup {x}
           a == Append(p, x)
<1>1. p \in Seq(S)
  BY DEF IsList
<1>2. x \in S
  OBVIOUS
<1> HIDE DEF S
<1>3. /\ a \in Seq(S) /\ Len(a) = Len(p) + 1 /\ Len(p) \in Nat
      /\ \A i \in 1..Len(p) : a[i] = p[i]
      /\ a[Len(p) + 1] = x
  BY <1>1, <1>2
<1>4. a # <<>>
  <2> HIDE DEF a
  <2>1. Len(a) # 0
    BY <1>3
  <2> QED
    BY <2>1, EmptyList, Zenon
<1> HIDE DEF a
<1>5. IsList(a)
  BY <1>3, ListIs
<1>6. Front(a) = p
  <2>1. /\ IsList(Front(a)) /\ Len(Front(a)) \in Nat /\ Len(a) = Len(Front(a)) + 1
        /\ \A i \in 1..Len(Front(a)) : Front(a)[i] = a[i]
    BY <1>4, <1>5, FrontIs, Zenon
  <2>2. Len(Front(a)) = Len(p) /\ \A i \in 1..Len(Front(a)) : Front(a)[i] = p[i]
    BY <1>3, <2>1
  <2> QED
    BY <2>1, <2>2, SameList
<1>7. Last(a) = x
  BY <1>3 DEF Last
<1> QED
  BY <1>3, <1>4, <1>5, <1>6, <1>7 DEF a

\* A name without the slash.
LEMMA BareIs ==
  ASSUME NEW name, IsList(name), name # <<>>
  PROVE  /\ IsList(Bare(name)) /\ Len(Bare(name)) \in Nat /\ Len(name) \in Nat
         /\ Len(Bare(name)) = (IF Last(name) = "" THEN Len(name) - 1 ELSE Len(name))
         /\ \A i \in 1..Len(Bare(name)) : Bare(name)[i] = name[i]
         /\ Last(name) = "" => Bare(name) = Front(name)
         /\ Last(name) # "" => Bare(name) = name
<1>1. Len(name) \in Nat
  BY ListDomain
<1>2. CASE Last(name) = ""
  <2>1. Bare(name) = Front(name)
    BY <1>2 DEF Bare
  <2>2. /\ IsList(Front(name)) /\ Len(Front(name)) \in Nat /\ Len(name) = Len(Front(name)) + 1
        /\ \A i \in 1..Len(Front(name)) : Front(name)[i] = name[i]
    BY FrontIs, Zenon
  <2>3. Len(Front(name)) = Len(name) - 1
    BY <2>2
  <2> QED
    BY <1>1, <1>2, <2>1, <2>2, <2>3, Zenon
<1>3. CASE Last(name) # ""
  BY <1>1, <1>3 DEF Bare
<1> QED
  BY <1>2, <1>3

LEMMA ConcatIs ==
  ASSUME NEW a, NEW b, IsList(a), IsList(b)
  PROVE  /\ IsList(a \o b) /\ Len(a \o b) = Len(a) + Len(b) /\ Len(a) \in Nat /\ Len(b) \in Nat
         /\ \A k \in 1..Len(a) : (a \o b)[k] = a[k]
         /\ \A k \in 1..Len(b) : (a \o b)[Len(a) + k] = b[k]
BY ListDomain, ListConcat

LEMMA EitherPart ==
  ASSUME NEW a, NEW b, IsList(a), IsList(b), NEW k \in 1..(Len(a) + Len(b))
  PROVE  k \in 1..Len(a) \/ \E j \in 1..Len(b) : k = Len(a) + j
<1>1. Len(a) \in Nat /\ Len(b) \in Nat
  BY ListDomain
<1>2. CASE k \notin 1..Len(a)
  <2>1. k - Len(a) \in 1..Len(b) /\ k = Len(a) + (k - Len(a))
    BY <1>1, <1>2
  <2> QED
    BY <2>1
<1> QED
  BY <1>2

LEMMA NoneFirst ==
  ASSUME NEW s, IsList(s)
  PROVE  None \o s = s
<1>1. IsList(None) /\ Len(None) = 0
  BY EmptyList DEF None
<1>2. IsList(None \o s) /\ Len(None \o s) = Len(s) /\ Len(s) \in Nat /\ \A k \in 1..Len(s) : (None \o s)[k] = s[k]
  BY <1>1, ConcatIs
<1> QED
  BY <1>2, SameList

\* A name below a directory.
LEMMA FrontMoved ==
  ASSUME NEW prefix, IsList(prefix), NEW name, IsList(name), name # <<>>
  PROVE  Front(prefix \o name) = prefix \o Front(name) /\ Last(prefix \o name) = Last(name) /\ prefix \o name # <<>>
<1> DEFINE g == Front(name)
           m == prefix \o name
           f == prefix \o g
<1>1. /\ IsList(m) /\ Len(m) = Len(prefix) + Len(name) /\ Len(prefix) \in Nat
      /\ \A k \in 1..Len(prefix) : m[k] = prefix[k]
      /\ \A k \in 1..Len(name) : m[Len(prefix) + k] = name[k]
  BY ConcatIs
<1>2. /\ IsList(g) /\ Len(g) \in Nat /\ Len(name) = Len(g) + 1
      /\ \A i \in 1..Len(g) : g[i] = name[i]
      /\ Last(name) = name[Len(name)]
  BY FrontIs
<1> HIDE DEF g
<1>3. /\ IsList(f) /\ Len(f) = Len(prefix) + Len(g)
      /\ \A k \in 1..Len(prefix) : f[k] = prefix[k]
      /\ \A k \in 1..Len(g) : f[Len(prefix) + k] = g[k]
  <2>1. IsList(g)
    BY <1>2
  <2> HIDE DEF m
  <2>2. /\ IsList(prefix \o g) /\ Len(prefix \o g) = Len(prefix) + Len(g)
        /\ \A k \in 1..Len(prefix) : (prefix \o g)[k] = prefix[k]
        /\ \A k \in 1..Len(g) : (prefix \o g)[Len(prefix) + k] = g[k]
    BY <2>1, ConcatIs
  <2> QED
    BY <2>2, Zenon
<1> HIDE DEF m, f
<1>4. m # <<>> /\ Len(m) = Len(f) + 1 /\ Len(f) \in Nat
  <2>1. Len(m) # 0 /\ Len(m) = Len(f) + 1 /\ Len(f) \in Nat
    BY <1>1, <1>2, <1>3
  <2> QED
    BY <2>1, EmptyList, Zenon
<1>5. /\ IsList(Front(m)) /\ Len(Front(m)) = Len(f)
      /\ \A i \in 1..Len(f) : Front(m)[i] = m[i]
      /\ Last(m) = m[Len(m)]
  <2>1. /\ IsList(Front(m)) /\ Len(Front(m)) \in Nat /\ Len(m) = Len(Front(m)) + 1
        /\ \A i \in 1..Len(Front(m)) : Front(m)[i] = m[i]
        /\ Last(m) = m[Len(m)]
    BY <1>1, <1>4, FrontIs, Zenon
  <2>2. Len(Front(m)) = Len(f)
    BY <1>4, <2>1
  <2> QED
    BY <2>1, <2>2, Zenon
<1>6. \A k \in 1..Len(f) : Front(m)[k] = f[k]
  <2> SUFFICES ASSUME NEW k \in 1..Len(f) PROVE m[k] = f[k]
    BY <1>5
  <2>1. CASE k \in 1..Len(prefix)
    BY <1>1, <1>3, <2>1
  <2>2. ASSUME NEW j \in 1..Len(g), k = Len(prefix) + j PROVE m[k] = f[k]
    <3>1. j \in 1..Len(name)
      BY <1>2
    <3> QED
      BY <1>1, <1>2, <1>3, <2>2, <3>1
  <2>3. k \in 1..Len(prefix) \/ \E j \in 1..Len(g) : k = Len(prefix) + j
    <3>1. IsList(g) /\ k \in 1..(Len(prefix) + Len(g))
      BY <1>2, <1>3
    <3> QED
      BY <3>1, EitherPart
  <2> QED
    BY <2>1, <2>2, <2>3
<1>7. Front(m) = f
  BY <1>3, <1>5, <1>6, SameList
<1>8. Last(m) = Last(name)
  <2>1. Len(name) \in 1..Len(name)
    BY <1>2
  <2> QED
    BY <1>1, <1>2, <1>5, <2>1
<1> QED
  BY <1>4, <1>7, <1>8 DEF m, f, g

LEMMA BareMoved ==
  ASSUME NEW prefix, IsList(prefix), NEW name, IsList(name), name # <<>>
  PROVE  Bare(prefix \o name) = prefix \o Bare(name)
BY FrontMoved DEF Bare

LEMMA OneOrMore == \A n \in Nat \ {0} : n = 1 \/ n > 1
OBVIOUS

\* The directory that a name below a directory needs.
LEMMA AboveMoved ==
  ASSUME NEW prefix, IsList(prefix), NEW name, Named(name), NEW d \in Above(prefix \o name)
  PROVE  \/ prefix # None /\ d = prefix /\ Len(Bare(name)) = 1
         \/ Above(name) = {Front(Bare(name))} /\ d = prefix \o Front(Bare(name))
<1> DEFINE b == Bare(name)
<1>1. IsList(name) /\ name # <<>> /\ b # <<>>
  BY DEF Named, None, Bare
<1>2. IsList(b) /\ Len(b) \in Nat \ {0}
  BY <1>1, BareIs, ListDomain
<1>3. Bare(prefix \o name) = prefix \o b
  BY <1>1, BareMoved
<1> HIDE DEF b
<1>4. Front(prefix \o b) = prefix \o Front(b)
  BY <1>1, <1>2, FrontMoved
<1>5. Len(prefix \o b) = Len(prefix) + Len(b) /\ Len(prefix) \in Nat
  BY <1>2, ConcatIs
<1>6. d = prefix \o Front(b) /\ Len(prefix \o b) > 1
  <2>1. Len(prefix \o b) > 1
    BY <1>3 DEF Above
  <2> QED
    BY <1>3, <1>4, <2>1 DEF Above
<1>7. CASE Len(b) = 1
  <2>1. IsList(Front(b)) /\ Len(Front(b)) = 0
    BY <1>1, <1>2, <1>7, FrontIs
  <2>2. prefix \o Front(b) = prefix
    <3>1. /\ IsList(prefix \o Front(b)) /\ Len(prefix \o Front(b)) = Len(prefix)
          /\ \A k \in 1..Len(prefix) : (prefix \o Front(b))[k] = prefix[k]
      BY <1>5, <2>1, ConcatIs
    <3> QED
      BY <3>1, SameList
  <2>3. prefix # None
    BY <1>5, <1>6, <1>7, EmptyList DEF None
  <2> QED
    BY <1>6, <1>7, <2>2, <2>3 DEF b
<1>8. CASE Len(b) > 1
  BY <1>6, <1>8 DEF Above, b
<1>9. Len(b) = 1 \/ Len(b) > 1
  BY <1>2, OneOrMore
<1> QED
  BY <1>7, <1>8, <1>9

(***************************************************************************)
(* Lists of entries that can be unpacked                                   *)
(***************************************************************************)

\* The directories of the entries are in D or come before them.
Supports(es, D) ==
  \A i \in DOMAIN es : \A d \in Above(es[i].name) :
    d \in D \/ \E j \in 1..(i - 1) : es[j].type = "dir" /\ Bare(es[j].name) = d

LEMMA DirsAre ==
  ASSUME NEW es, NEW d
  PROVE  d \in DirsOf(es) <=> \E j \in DOMAIN es : es[j].type = "dir" /\ Bare(es[j].name) = d
BY Zenon DEF DirsOf

LEMMA TreeIs ==
  ASSUME NEW es
  PROVE  Tree(es) <=> Supports(es, {})
<1>1. ASSUME Tree(es) PROVE Supports(es, {})
  BY <1>1 DEF Tree, Supports, Above
<1>2. ASSUME Supports(es, {}) PROVE Tree(es)
  BY <1>2 DEF Tree, Supports, Above
<1> QED
  BY <1>1, <1>2

LEMMA SupportsNone ==
  ASSUME NEW D
  PROVE  IsList(<<>>) /\ Supports(<<>>, D) /\ DirsOf(<<>>) = {}
BY EmptyList DEF Supports, DirsOf

LEMMA SupportsWider ==
  ASSUME NEW es, NEW D, NEW E, Supports(es, D), D \subseteq E
  PROVE  Supports(es, E)
BY DEF Supports

LEMMA OneEntry ==
  ASSUME NEW e
  PROVE  IsList(<<e>>) /\ Len(<<e>>) = 1 /\ DOMAIN <<e>> = 1..1 /\ <<e>>[1] = e
<1>1. <<e>> \in Seq({e}) /\ Len(<<e>>) = 1 /\ DOMAIN <<e>> = 1..1 /\ <<e>>[1] = e
  OBVIOUS
<1> QED
  BY <1>1, ListIs

LEMMA SupportsOne ==
  ASSUME NEW e, NEW D, Above(e.name) \subseteq D
  PROVE  IsList(<<e>>) /\ Supports(<<e>>, D) /\ DirsOf(<<e>>) = (IF e.type = "dir" THEN {Bare(e.name)} ELSE {})
<1> DEFINE s == <<e>>
<1>1. IsList(s) /\ DOMAIN s = 1..1 /\ s[1] = e
  BY OneEntry
<1> HIDE DEF s
<1>2. Supports(s, D)
  BY <1>1 DEF Supports
<1>3. \A d : d \in DirsOf(s) <=> e.type = "dir" /\ Bare(e.name) = d
  <2> SUFFICES ASSUME NEW d PROVE d \in DirsOf(s) <=> e.type = "dir" /\ Bare(e.name) = d
    OBVIOUS
  <2>1. \A j \in DOMAIN s : s[j] = e
    BY <1>1
  <2>2. 1 \in DOMAIN s
    BY <1>1
  <2> QED
    BY <2>1, <2>2, DirsAre
<1> QED
  BY <1>1, <1>2, <1>3 DEF s

LEMMA DirsConcat ==
  ASSUME NEW a, NEW b, IsList(a), IsList(b)
  PROVE  DirsOf(a \o b) = DirsOf(a) \cup DirsOf(b)
<1> DEFINE c == a \o b
<1>1. /\ DOMAIN a = 1..Len(a) /\ DOMAIN b = 1..Len(b) /\ DOMAIN c = 1..(Len(a) + Len(b))
      /\ Len(a) \in Nat /\ Len(b) \in Nat
  BY ListConcat, ListDomain
<1>2. /\ \A k \in 1..Len(a) : c[k] = a[k]
      /\ \A k \in 1..Len(b) : c[Len(a) + k] = b[k]
  BY ConcatIs
<1> HIDE DEF c
<1>3. ASSUME NEW d \in DirsOf(c) PROVE d \in DirsOf(a) \cup DirsOf(b)
  <2>1. PICK k \in DOMAIN c : c[k].type = "dir" /\ Bare(c[k].name) = d
    BY DirsAre
  <2>2. CASE k \in 1..Len(a)
    <3>1. c[k] = a[k] /\ k \in DOMAIN a
      BY <1>1, <1>2, <2>2
    <3> QED
      BY <2>1, <3>1, DirsAre
  <2>3. ASSUME NEW j \in 1..Len(b), k = Len(a) + j PROVE d \in DirsOf(b)
    <3>1. c[k] = b[j] /\ j \in DOMAIN b
      BY <1>1, <1>2, <2>3
    <3> QED
      BY <2>1, <3>1, DirsAre
  <2>4. k \in 1..Len(a) \/ \E j \in 1..Len(b) : k = Len(a) + j
    BY <1>1, EitherPart
  <2> QED
    BY <2>2, <2>3, <2>4
<1>4. ASSUME NEW d \in DirsOf(a) PROVE d \in DirsOf(c)
  <2>1. PICK k \in DOMAIN a : a[k].type = "dir" /\ Bare(a[k].name) = d
    BY DirsAre
  <2>2. c[k] = a[k] /\ k \in DOMAIN c
    BY <1>1, <1>2
  <2> QED
    BY <2>1, <2>2, DirsAre
<1>5. ASSUME NEW d \in DirsOf(b) PROVE d \in DirsOf(c)
  <2>1. PICK k \in DOMAIN b : b[k].type = "dir" /\ Bare(b[k].name) = d
    BY DirsAre
  <2>2. c[Len(a) + k] = b[k] /\ Len(a) + k \in DOMAIN c
    BY <1>1, <1>2
  <2> QED
    BY <2>1, <2>2, DirsAre
<1> QED
  BY <1>3, <1>4, <1>5 DEF c

LEMMA SupportsMore ==
  ASSUME NEW a, NEW b, IsList(a), IsList(b), NEW D, Supports(a, D), Supports(b, D \cup DirsOf(a))
  PROVE  Supports(a \o b, D)
<1> DEFINE c == a \o b
<1>1. /\ DOMAIN a = 1..Len(a) /\ DOMAIN b = 1..Len(b) /\ DOMAIN c = 1..(Len(a) + Len(b))
      /\ Len(a) \in Nat /\ Len(b) \in Nat
  BY ListConcat, ListDomain
<1>2. /\ \A k \in 1..Len(a) : c[k] = a[k]
      /\ \A k \in 1..Len(b) : c[Len(a) + k] = b[k]
  BY ConcatIs
<1> SUFFICES Supports(c, D)
  OBVIOUS
<1> HIDE DEF c
<1> SUFFICES ASSUME NEW k \in DOMAIN c, NEW d \in Above(c[k].name)
             PROVE  d \in D \/ \E j \in 1..(k - 1) : c[j].type = "dir" /\ Bare(c[j].name) = d
  BY DEF Supports
<1>3. CASE k \in 1..Len(a)
  <2>1. c[k] = a[k] /\ k \in DOMAIN a
    BY <1>1, <1>2, <1>3
  <2>2. d \in D \/ \E j \in 1..(k - 1) : a[j].type = "dir" /\ Bare(a[j].name) = d
    BY <2>1 DEF Supports
  <2>3. \A j \in 1..(k - 1) : c[j] = a[j]
    BY <1>1, <1>2, <1>3
  <2> QED
    BY <2>2, <2>3
<1>4. ASSUME NEW m \in 1..Len(b), k = Len(a) + m, d \notin D
      PROVE  \E j \in 1..(k - 1) : c[j].type = "dir" /\ Bare(c[j].name) = d
  <2>1. c[k] = b[m] /\ m \in DOMAIN b
    BY <1>1, <1>2, <1>4
  <2>2. d \in DirsOf(a) \/ \E j \in 1..(m - 1) : b[j].type = "dir" /\ Bare(b[j].name) = d
    BY <1>4, <2>1 DEF Supports
  <2>3. CASE d \in DirsOf(a)
    <3>1. PICK j \in DOMAIN a : a[j].type = "dir" /\ Bare(a[j].name) = d
      BY <2>3, DirsAre
    <3>2. c[j] = a[j] /\ j \in 1..(k - 1)
      BY <1>1, <1>2, <1>4
    <3> QED
      BY <3>1, <3>2
  <2>4. ASSUME NEW j \in 1..(m - 1), b[j].type = "dir", Bare(b[j].name) = d
        PROVE  \E i \in 1..(k - 1) : c[i].type = "dir" /\ Bare(c[i].name) = d
    <3>1. c[Len(a) + j] = b[j] /\ Len(a) + j \in 1..(k - 1)
      BY <1>1, <1>2, <1>4
    <3> QED
      BY <2>4, <3>1
  <2> QED
    BY <2>2, <2>3, <2>4
<1>5. k \in 1..Len(a) \/ \E m \in 1..Len(b) : k = Len(a) + m
  BY <1>1, EitherPart
<1> QED
  BY <1>3, <1>4, <1>5

LEMMA TreeGrows ==
  ASSUME NEW a, NEW b, IsList(a), IsList(b), Tree(a), Supports(b, DirsOf(a))
  PROVE  Tree(a \o b)
<1>1. Supports(a, {})
  BY TreeIs
<1>2. {} \cup DirsOf(a) = DirsOf(a)
  OBVIOUS
<1>3. Supports(a \o b, {})
  BY <1>1, <1>2, SupportsMore
<1> QED
  BY <1>3, TreeIs

\* A list of entries goes on from another.
Longer(a, b) ==
  IsList(a) /\ IsList(b) /\ Len(b) <= Len(a) /\ \A i \in 1..Len(b) : a[i] = b[i]

LEMMA LongerDirs ==
  ASSUME NEW a, NEW b, Longer(a, b)
  PROVE  DirsOf(b) \subseteq DirsOf(a)
<1>1. DOMAIN a = 1..Len(a) /\ DOMAIN b = 1..Len(b) /\ Len(a) \in Nat /\ Len(b) \in Nat
  BY ListDomain DEF Longer
<1> SUFFICES ASSUME NEW d \in DirsOf(b) PROVE d \in DirsOf(a)
  OBVIOUS
<1>2. PICK k \in DOMAIN b : b[k].type = "dir" /\ Bare(b[k].name) = d
  BY DirsAre
<1>3. a[k] = b[k] /\ k \in DOMAIN a
  BY <1>1 DEF Longer
<1> QED
  BY <1>2, <1>3, DirsAre

LEMMA LongerConcat ==
  ASSUME NEW a, NEW b, IsList(a), IsList(b)
  PROVE  Longer(a \o b, a)
<1>1. /\ IsList(a \o b) /\ Len(a \o b) = Len(a) + Len(b) /\ Len(a) \in Nat /\ Len(b) \in Nat
      /\ \A k \in 1..Len(a) : (a \o b)[k] = a[k]
  BY ConcatIs
<1>2. Len(a) <= Len(a \o b)
  BY <1>1
<1> QED
  BY <1>1, <1>2 DEF Longer

LEMMA LongerSame ==
  ASSUME NEW a, IsList(a)
  PROVE  Longer(a, a)
BY ListDomain DEF Longer

LEMMA LongerStill ==
  ASSUME NEW a, NEW b, NEW c, Longer(a, b), Longer(b, c)
  PROVE  Longer(a, c)
<1>1. Len(a) \in Nat /\ Len(b) \in Nat /\ Len(c) \in Nat
  BY ListDomain DEF Longer
<1> QED
  BY <1>1 DEF Longer

(***************************************************************************)
(* The directories of containers and images                                *)
(***************************************************************************)
LEMMA Position ==
  ASSUME NEW n \in Nat, NEW i \in 1..n
  PROVE  /\ i \in 0..n /\ i \in Nat \ {0} /\ i \in 1..i
         /\ i > 1 => i - 1 \in 0..n /\ i - 1 \in 1..n /\ i - 1 \in 1..(i - 1)
OBVIOUS

LEMMA Filled ==
  ASSUME NEW s, NEW n \in Nat \ {0}, Len(s) = n
  PROVE  s # <<>> /\ s # None
<1>1. Len(s) # 0
  OBVIOUS
<1> QED
  BY <1>1, EmptyList, Zenon DEF None

LEMMA DirIs ==
  ASSUME NEW name
  PROVE  Dir(name).name = name /\ Dir(name).type = "dir" /\ Dir(name).link = None /\ Dir(name).body = None
BY DEF Dir

LEMMA PrefixEntry ==
  ASSUME NEW prefix, IsList(prefix), NEW i \in DOMAIN prefix, prefix[i] # ""
  PROVE  /\ DOMAIN TarPrefix(prefix) = DOMAIN prefix
         /\ TarPrefix(prefix)[i].name = SubSeq(prefix, 1, i) /\ TarPrefix(prefix)[i].type = "dir"
         /\ IsList(SubSeq(prefix, 1, i)) /\ Len(SubSeq(prefix, 1, i)) = i /\ i \in Nat \ {0}
         /\ \A k \in 1..i : SubSeq(prefix, 1, i)[k] = prefix[k]
         /\ Bare(SubSeq(prefix, 1, i)) = SubSeq(prefix, 1, i)
<1> DEFINE n == SubSeq(prefix, 1, i)
<1>1. DOMAIN prefix = 1..Len(prefix) /\ Len(prefix) \in Nat
  BY ListDomain
<1>2. i \in 0..Len(prefix) /\ i \in Nat \ {0} /\ i \in 1..i
  <2>1. i \in 1..Len(prefix) /\ Len(prefix) \in Nat
    BY <1>1
  <2> QED
    BY <2>1, Position
<1>3. IsList(n) /\ Len(n) = i /\ \A k \in 1..i : n[k] = prefix[k]
  BY <1>2, HeadPart
<1>4. TarPrefix(prefix)[i] = Dir(n) /\ DOMAIN TarPrefix(prefix) = DOMAIN prefix
  BY DEF TarPrefix
<1> HIDE DEF n
<1>5. Bare(n) = n
  <2>1. Last(n) = prefix[i]
    BY <1>2, <1>3 DEF Last
  <2> QED
    BY <2>1 DEF Bare
<1>6. TarPrefix(prefix)[i].name = n /\ TarPrefix(prefix)[i].type = "dir"
  BY <1>4, DirIs
<1> QED
  BY <1>2, <1>3, <1>4, <1>5, <1>6 DEF n

LEMMA PrefixFront ==
  ASSUME NEW prefix, IsList(prefix), NEW i \in DOMAIN prefix, i > 1
  PROVE  i - 1 \in DOMAIN prefix /\ Front(SubSeq(prefix, 1, i)) = SubSeq(prefix, 1, i - 1)
<1> DEFINE n == SubSeq(prefix, 1, i)
           m == SubSeq(prefix, 1, i - 1)
<1>1. DOMAIN prefix = 1..Len(prefix) /\ Len(prefix) \in Nat
  BY ListDomain
<1>2. i \in 0..Len(prefix) /\ i - 1 \in 0..Len(prefix) /\ i - 1 \in DOMAIN prefix /\ i \in Nat
  BY <1>1
<1>3. IsList(n) /\ Len(n) = i /\ \A k \in 1..i : n[k] = prefix[k]
  BY <1>2, HeadPart
<1>4. IsList(m) /\ Len(m) = i - 1 /\ \A k \in 1..(i - 1) : m[k] = prefix[k]
  BY <1>2, HeadPart
<1> HIDE DEF n, m
<1>5. n # <<>>
  <2>1. Len(n) # 0
    BY <1>2, <1>3
  <2> QED
    BY <2>1, EmptyList, Zenon
<1>6. /\ IsList(Front(n)) /\ Len(Front(n)) \in Nat /\ Len(n) = Len(Front(n)) + 1
      /\ \A k \in 1..Len(Front(n)) : Front(n)[k] = n[k]
  BY <1>3, <1>5, FrontIs
<1>7. Len(Front(n)) = Len(m) /\ \A k \in 1..Len(Front(n)) : Front(n)[k] = m[k]
  BY <1>2, <1>3, <1>4, <1>6
<1>8. Front(n) = m
  BY <1>4, <1>6, <1>7, SameList
<1> QED
  BY <1>2, <1>8 DEF n, m

LEMMA PrefixMade ==
  ASSUME NEW prefix, IsList(prefix), \A k \in DOMAIN prefix : prefix[k] # "", NEW D
  PROVE  /\ IsList(TarPrefix(prefix)) /\ Supports(TarPrefix(prefix), D)
         /\ DirsOf(TarPrefix(prefix)) = {SubSeq(prefix, 1, i) : i \in DOMAIN prefix}
<1> DEFINE es == TarPrefix(prefix)
<1>1. /\ DOMAIN es = DOMAIN prefix
      /\ \A i \in DOMAIN prefix :
           /\ es[i].name = SubSeq(prefix, 1, i) /\ es[i].type = "dir"
           /\ Len(SubSeq(prefix, 1, i)) = i
           /\ Bare(SubSeq(prefix, 1, i)) = SubSeq(prefix, 1, i)
  <2>1. DOMAIN es = DOMAIN prefix
    BY DEF TarPrefix
  <2> QED
    BY <2>1, PrefixEntry
<1>2. DOMAIN prefix = 1..Len(prefix) /\ Len(prefix) \in Nat
  BY ListDomain
<1>3. IsList(es)
  BY TarPrefixType DEF IsArchive
<1> HIDE DEF es
<1>4. Supports(es, D)
  <2> SUFFICES ASSUME NEW i \in DOMAIN es, NEW d \in Above(es[i].name)
               PROVE  \E j \in 1..(i - 1) : es[j].type = "dir" /\ Bare(es[j].name) = d
    BY Zenon DEF Supports
  <2>1. i \in DOMAIN prefix /\ es[i].name = SubSeq(prefix, 1, i) /\ Bare(SubSeq(prefix, 1, i)) = SubSeq(prefix, 1, i)
        /\ Len(SubSeq(prefix, 1, i)) = i
    BY <1>1
  <2>2. i > 1 /\ d = Front(SubSeq(prefix, 1, i))
    BY <2>1 DEF Above
  <2>3. i - 1 \in DOMAIN prefix /\ d = SubSeq(prefix, 1, i - 1)
    BY <2>1, <2>2, PrefixFront
  <2>4. es[i - 1].type = "dir" /\ Bare(es[i - 1].name) = d
    BY <1>1, <2>3
  <2>5. i - 1 \in 1..(i - 1)
    <3>1. i \in 1..Len(prefix) /\ Len(prefix) \in Nat
      BY <1>2, <2>1
    <3> QED
      BY <2>2, <3>1, Position
  <2> QED
    BY <2>4, <2>5
<1>5. \A d : d \in DirsOf(es) <=> \E i \in DOMAIN prefix : d = SubSeq(prefix, 1, i)
  <2> SUFFICES ASSUME NEW d PROVE d \in DirsOf(es) <=> \E i \in DOMAIN prefix : d = SubSeq(prefix, 1, i)
    OBVIOUS
  <2>1. d \in DirsOf(es) <=> \E j \in DOMAIN es : es[j].type = "dir" /\ Bare(es[j].name) = d
    BY DirsAre
  <2> QED
    BY <1>1, <2>1
<1> QED
  BY <1>3, <1>4, <1>5 DEF es

LEMMA SpotIs ==
  ASSUME NEW path, Spot(path)
  PROVE  /\ IsList(path) /\ Len(path) = 3 /\ DOMAIN path = 1..3 /\ path[1] = "containers" /\ path # None
         /\ \A k \in DOMAIN path : path[k] # "" /\ path[k] # ".."
<1>1. IsList(path) /\ Len(path) = 3 /\ path[1] = "containers" /\ \A k \in DOMAIN path : path[k] # "" /\ path[k] # ".."
  BY DEF Spot, DirName
<1>2. path # None
  <2>1. 3 \in Nat \ {0}
    OBVIOUS
  <2> QED
    BY <1>1, <2>1, Filled, Zenon
<1> QED
  BY <1>1, <1>2, ListDomain

LEMMA PlaceIs ==
  ASSUME NEW prefix, IsList(prefix), Place(prefix), prefix # None
  PROVE  /\ Len(prefix) = 4 /\ DOMAIN prefix = 1..4 /\ prefix[1] = "containers" /\ prefix[4] \in {"rootfs", "lower"}
         /\ \A k \in DOMAIN prefix : prefix[k] # "" /\ prefix[k] # ".."
         /\ Spot(Front(prefix)) /\ Front(prefix) = SubSeq(prefix, 1, 3)
<1>1. Spot(Front(prefix)) /\ Len(prefix) = 4 /\ prefix[4] \in {"rootfs", "lower"}
  BY DEF Place
<1>2. DOMAIN prefix = 1..4
  BY <1>1, ListDomain
<1>3. /\ \A i \in 1..Len(Front(prefix)) : Front(prefix)[i] = prefix[i]
      /\ Front(prefix) = SubSeq(prefix, 1, Len(prefix) - 1)
  BY FrontIs DEF None
<1>4. /\ Len(Front(prefix)) = 3 /\ DOMAIN Front(prefix) = 1..3 /\ Front(prefix)[1] = "containers"
      /\ \A k \in DOMAIN Front(prefix) : Front(prefix)[k] # "" /\ Front(prefix)[k] # ".."
  BY <1>1, SpotIs
<1>5. ASSUME NEW k \in DOMAIN prefix PROVE prefix[k] # "" /\ prefix[k] # ".."
  <2>1. CASE k = 4
    BY <1>1, <2>1
  <2>2. CASE k # 4
    <3>1. k \in 1..3
      BY <1>2, <2>2
    <3>2. Front(prefix)[k] = prefix[k] /\ k \in DOMAIN Front(prefix)
      BY <1>3, <1>4, <3>1
    <3> QED
      BY <1>4, <3>2
  <2> QED
    BY <2>1, <2>2
<1>6. prefix[1] = "containers"
  <2>1. 1 \in 1..3
    OBVIOUS
  <2>2. Front(prefix)[1] = prefix[1]
    BY <1>3, <1>4, <2>1
  <2> QED
    BY <1>4, <2>2
<1>7. Front(prefix) = SubSeq(prefix, 1, 3)
  <2>1. Len(prefix) - 1 = 3
    BY <1>1
  <2> QED
    BY <1>3, <2>1
<1> QED
  BY <1>1, <1>2, <1>5, <1>6, <1>7

LEMMA BelowSpot ==
  ASSUME NEW path, Spot(path), NEW x
  PROVE  /\ IsList(Append(path, x)) /\ Len(Append(path, x)) = 4 /\ Append(path, x)[4] = x
         /\ Append(path, x)[1] = "containers" /\ Append(path, x) # None
         /\ Front(Append(path, x)) = path /\ Last(Append(path, x)) = x
         /\ x # "" => Bare(Append(path, x)) = Append(path, x) /\ Above(Append(path, x)) = {path}
<1> DEFINE a == Append(path, x)
<1>1. IsList(path) /\ Len(path) = 3 /\ path[1] = "containers"
  BY SpotIs
<1>2. /\ IsList(a) /\ Len(a) = Len(path) + 1 /\ a # <<>>
      /\ \A i \in 1..Len(path) : a[i] = path[i]
      /\ a[Len(path) + 1] = x /\ Last(a) = x /\ Front(a) = path
  BY <1>1, AppendIs
<1> HIDE DEF a
<1>3. Len(a) = 4 /\ a[4] = x /\ a[1] = "containers"
  BY <1>1, <1>2
<1>4. x # "" => Bare(a) = a
  BY <1>2 DEF Bare
<1>5. x # "" => Above(a) = {path}
  <2>1. Len(a) > 1
    BY <1>3
  <2> QED
    BY <1>2, <1>4, <2>1 DEF Above
<1> QED
  BY <1>2, <1>3, <1>4, <1>5 DEF a, None

LEMMA RootPlace ==
  ASSUME NEW path, Spot(path), NEW x \in {"rootfs", "lower"}
  PROVE  Place(Append(path, x))
<1>1. /\ Len(Append(path, x)) = 4 /\ Append(path, x)[4] = x /\ Front(Append(path, x)) = path
  BY BelowSpot
<1> QED
  BY <1>1 DEF Place

\* The directories of a place or a container are no container's files.
LEMMA PrefixNotOwn ==
  ASSUME NEW prefix, IsList(prefix), Spot(prefix) \/ Place(prefix), NEW i \in DOMAIN prefix
  PROVE  ~IsOwn(SubSeq(prefix, 1, i)) /\ prefix[i] # ""
<1>1. CASE Spot(prefix)
  <2>1. DOMAIN prefix = 1..3 /\ prefix[i] # "" /\ Len(prefix) = 3
    BY <1>1, SpotIs
  <2>2. Len(SubSeq(prefix, 1, i)) = i
    BY <2>1, PrefixEntry
  <2>3. i \in 1..3
    BY <2>1
  <2>4. i # 4
    BY <2>3
  <2> QED
    BY <2>1, <2>2, <2>4 DEF IsOwn
<1>2. CASE Place(prefix)
  <2>0. prefix # None
    BY EmptyList DEF None
  <2>1. DOMAIN prefix = 1..4 /\ prefix[i] # "" /\ Len(prefix) = 4 /\ prefix[4] \in {"rootfs", "lower"}
    BY <1>2, <2>0, PlaceIs
  <2>2. Len(SubSeq(prefix, 1, i)) = i /\ \A k \in 1..i : SubSeq(prefix, 1, i)[k] = prefix[k]
    BY <2>1, PrefixEntry
  <2>3. i = 4 => SubSeq(prefix, 1, i)[4] \in {"rootfs", "lower"}
    <3>1. 4 \in 1..4
      OBVIOUS
    <3> QED
      BY <2>1, <2>2, <3>1
  <2> QED
    BY <2>1, <2>2, <2>3 DEF IsOwn
<1> QED
  BY <1>1, <1>2

(***************************************************************************)
(* An item is done, and others come in its place                           *)
(***************************************************************************)
InPlace(items) == IsList(items) /\ todo' = items \o Tail(todo)

LEMMA PlaceOf ==
  ASSUME IsList(todo), todo # <<>>, NEW items, InPlace(items), NEW k \in DOMAIN todo'
  PROVE  \/ k \in DOMAIN items /\ todo'[k] = items[k]
         \/ \E m \in DOMAIN todo : m > 1 /\ k = Len(items) + m - 1 /\ k > Len(items) /\ todo'[k] = todo[m]
<1>1. /\ DOMAIN todo' = 1..(Len(items) + Len(todo) - 1)
      /\ Len(items) \in Nat /\ Len(todo) \in Nat \ {0}
      /\ DOMAIN items = 1..Len(items) /\ DOMAIN todo = 1..Len(todo)
      /\ \A i \in 1..Len(items) : todo'[i] = items[i]
      /\ \A i \in 2..Len(todo) : todo'[Len(items) + i - 1] = todo[i]
  BY ListInPlace DEF InPlace
<1>2. CASE k \in 1..Len(items)
  BY <1>1, <1>2
<1>3. CASE k \notin 1..Len(items)
  <2> DEFINE m == k - Len(items) + 1
  <2>1. k \in 1..(Len(items) + Len(todo) - 1)
    BY <1>1
  <2>2. Len(items) \in Nat /\ Len(todo) \in Nat
    BY <1>1
  <2>3. m \in 2..Len(todo) /\ m \in 1..Len(todo) /\ m > 1 /\ k = Len(items) + m - 1 /\ k > Len(items)
    BY <1>3, <2>1, <2>2
  <2> HIDE DEF m
  <2>4. todo'[k] = todo[m] /\ m \in DOMAIN todo
    BY <1>1, <2>3
  <2> QED
    BY <2>3, <2>4
<1> QED
  BY <1>2, <1>3

\* The items that come in the place of the first one.
Fits(items) ==
  /\ \A i \in DOMAIN items : Sound(items[i])
  /\ \A i, j \in DOMAIN items : i < j => Orderly(items[i], items[j])
  /\ items # <<>> => todo[1].do \notin OfImage
  /\ todo[1].do \in OfImage \cup {"image"} => \A i \in DOMAIN items : items[i].do \in OfImage \cup {"image"}

LEMMA OrderMoves ==
  ASSUME IsList(todo), todo # <<>>, NEW items, InPlace(items), Fits(items), cfg' = cfg,
         Order, \A i \in DOMAIN todo : Sound(todo[i])
  PROVE  Order' /\ (\A i \in DOMAIN todo : Sound(todo[i]))'
<1>1. (\A i \in DOMAIN todo : Sound(todo[i]))'
  <2> DEFINE l == todo'
  <2>1. ASSUME NEW i \in DOMAIN l PROVE Sound(l[i])
    <3>1. (\E k \in DOMAIN items : l[i] = items[k]) \/ \E m \in DOMAIN todo : l[i] = todo[m]
      BY PlaceOf
    <3> QED
      BY <3>1 DEF Fits
  <2> QED
    BY <2>1 DEF Sound
<1>2. ASSUME NEW i \in DOMAIN todo', NEW j \in DOMAIN todo', i < j PROVE Orderly(todo'[i], todo'[j])
  <2>0. /\ DOMAIN todo' = 1..(Len(items) + Len(todo) - 1)
        /\ Len(items) \in Nat /\ Len(todo) \in Nat \ {0}
        /\ DOMAIN items = 1..Len(items) /\ DOMAIN todo = 1..Len(todo)
    BY ListInPlace DEF InPlace
  <2>1. CASE j \in DOMAIN items /\ todo'[j] = items[j]
    <3>1. j \in 1..Len(items) /\ i \in 1..(Len(items) + Len(todo) - 1) /\ Len(items) \in Nat /\ Len(todo) \in Nat
      BY <2>0, <2>1
    <3>2. i \in 1..Len(items)
      BY <1>2, <3>1
    <3>3. i \in DOMAIN items /\ todo'[i] = items[i]
      BY <2>0, <3>2, ListInPlace DEF InPlace
    <3> QED
      BY <1>2, <2>1, <3>3 DEF Fits
  <2>2. ASSUME NEW n \in DOMAIN todo, n > 1, j = Len(items) + n - 1, todo'[j] = todo[n]
        PROVE  Orderly(todo'[i], todo'[j])
    <3>0. n \in Nat /\ 1 \in DOMAIN todo /\ 1 < n
      BY <2>0, <2>2
    <3>1. Orderly(todo[1], todo[n])
      BY <3>0 DEF Order
    <3>2. ASSUME i \in DOMAIN items, todo'[i] = items[i]
          PROVE  Orderly(todo'[i], todo'[j])
      <4>1. items # <<>>
        BY <3>2, EmptyList
      <4>2. todo[n].do \notin OfImage
        <5>1. todo[1].do \notin OfImage
          BY <4>1 DEF Fits
        <5>2. todo[1].do # "entry"
          BY <5>1 DEF OfImage
        <5> QED
          BY <3>1, <5>2 DEF Orderly
      <4>3. todo[n].do = "bundle" => items[i].do \in OfImage \cup {"image"}
        BY <3>1, <3>2 DEF Orderly, Fits
      <4> QED
        BY <2>2, <3>2, <4>2, <4>3 DEF Orderly
    <3>3. ASSUME NEW m \in DOMAIN todo, m > 1, i = Len(items) + m - 1, todo'[i] = todo[m]
          PROVE  Orderly(todo'[i], todo'[j])
      <4>1. m \in Nat /\ n \in Nat /\ Len(items) \in Nat
        BY <2>0
      <4>2. m < n
        BY <1>2, <2>2, <3>3, <4>1
      <4>3. Orderly(todo[m], todo[n])
        BY <4>2 DEF Order
      <4> QED
        BY <2>2, <3>3, <4>3
    <3>4. \/ i \in DOMAIN items /\ todo'[i] = items[i]
          \/ \E m \in DOMAIN todo : m > 1 /\ i = Len(items) + m - 1 /\ i > Len(items) /\ todo'[i] = todo[m]
      BY PlaceOf
    <3> QED
      BY <3>2, <3>3, <3>4
  <2>3. \/ j \in DOMAIN items /\ todo'[j] = items[j]
        \/ \E m \in DOMAIN todo : m > 1 /\ j = Len(items) + m - 1 /\ j > Len(items) /\ todo'[j] = todo[m]
    BY PlaceOf
  <2> QED
    BY <2>1, <2>2, <2>3
<1> QED
  BY <1>1, <1>2 DEF Order

LEMMA SuppliedMoves ==
  ASSUME IsList(todo), todo # <<>>, NEW items, InPlace(items), Supplied,
         DirsOf(out) \subseteq DirsOf(out'),
         \A d \in Makes(todo[1]) : d \in DirsOf(out') \/ \E j \in DOMAIN items : d \in Makes(items[j]),
         \A i \in DOMAIN items : \A d \in Needs(items[i]) :
           d \in DirsOf(out') \/ \E j \in 1..(i - 1) : d \in Makes(items[j])
  PROVE  Supplied'
<1>0. /\ DOMAIN todo' = 1..(Len(items) + Len(todo) - 1)
      /\ Len(items) \in Nat /\ Len(todo) \in Nat \ {0}
      /\ DOMAIN items = 1..Len(items) /\ DOMAIN todo = 1..Len(todo)
      /\ \A i \in 1..Len(items) : todo'[i] = items[i]
      /\ \A i \in 2..Len(todo) : todo'[Len(items) + i - 1] = todo[i]
  BY ListInPlace DEF InPlace
<1>1. ASSUME NEW k \in DOMAIN todo', NEW d \in Needs(todo'[k])
      PROVE  d \in DirsOf(out') \/ \E j \in 1..(k - 1) : d \in Makes(todo'[j])
  <2>1. CASE k \in DOMAIN items /\ todo'[k] = items[k]
    <3>1. d \in DirsOf(out') \/ \E j \in 1..(k - 1) : d \in Makes(items[j])
      BY <1>1, <2>1
    <3>2. k \in 1..Len(items) /\ Len(items) \in Nat
      BY <1>0, <2>1
    <3>3. \A j \in 1..(k - 1) : j \in 1..Len(items)
      BY <3>2
    <3>4. \A j \in 1..(k - 1) : todo'[j] = items[j]
      BY <1>0, <3>3
    <3> QED
      BY <3>1, <3>4
  <2>2. ASSUME NEW m \in DOMAIN todo, m > 1, k = Len(items) + m - 1, todo'[k] = todo[m]
        PROVE  d \in DirsOf(out') \/ \E j \in 1..(k - 1) : d \in Makes(todo'[j])
    <3>1. d \in DirsOf(out) \/ \E j \in 1..(m - 1) : d \in Makes(todo[j])
      BY <1>1, <2>2 DEF Supplied
    <3>2. m \in 1..Len(todo) /\ Len(items) \in Nat /\ Len(todo) \in Nat
      BY <1>0
    <3>3. ASSUME NEW j \in 1..(m - 1), d \in Makes(todo[j]), d \notin DirsOf(out')
          PROVE  \E i \in 1..(k - 1) : d \in Makes(todo'[i])
      <4>1. CASE j = 1
        <5>1. PICK i \in DOMAIN items : d \in Makes(items[i])
          BY <3>3, <4>1
        <5>2. i \in 1..Len(items)
          BY <1>0
        <5>3. i \in 1..(k - 1)
          BY <2>2, <3>2, <5>2
        <5>4. todo'[i] = items[i]
          BY <1>0, <5>2
        <5> QED
          BY <5>1, <5>3, <5>4
      <4>2. CASE j # 1
        <5>1. j \in 2..Len(todo) /\ Len(items) + j - 1 \in 1..(k - 1)
          BY <2>2, <3>2, <4>2
        <5>2. todo'[Len(items) + j - 1] = todo[j]
          BY <1>0, <5>1
        <5> QED
          BY <3>3, <5>1, <5>2
      <4> QED
        BY <4>1, <4>2
    <3> QED
      BY <3>1, <3>3
  <2>3. \/ k \in DOMAIN items /\ todo'[k] = items[k]
        \/ \E m \in DOMAIN todo : m > 1 /\ k = Len(items) + m - 1 /\ k > Len(items) /\ todo'[k] = todo[m]
    BY PlaceOf
  <2> QED
    BY <2>1, <2>2, <2>3
<1> QED
  BY <1>1 DEF Supplied

LEMMA ApartMoves ==
  ASSUME IsList(todo), todo # <<>>, NEW items, InPlace(items), Apart(todo), Apart(items),
         \A i \in DOMAIN items : items[i].do \in Placing => todo[1].do \in Placing /\ items[i].path = todo[1].path
  PROVE  Apart(todo')
<1>0. 1 \in DOMAIN todo /\ DOMAIN items = 1..Len(items) /\ DOMAIN todo = 1..Len(todo) /\ Len(items) \in Nat
  BY ListDomain DEF InPlace
<1>1. ASSUME NEW i \in DOMAIN items, NEW m \in DOMAIN todo, m > 1, items[i].do \in Placing, todo[m].do \in Placing
      PROVE  items[i].path # todo[m].path
  <2>1. 1 # m
    BY <1>1
  <2> QED
    BY <1>0, <1>1, <2>1 DEF Apart
<1>2. ASSUME NEW i \in DOMAIN todo', NEW j \in DOMAIN todo', i # j, todo'[i].do \in Placing, todo'[j].do \in Placing
      PROVE  todo'[i].path # todo'[j].path
  <2>1. \/ i \in DOMAIN items /\ todo'[i] = items[i]
        \/ \E m \in DOMAIN todo : m > 1 /\ i = Len(items) + m - 1 /\ i > Len(items) /\ todo'[i] = todo[m]
    BY PlaceOf
  <2>2. \/ j \in DOMAIN items /\ todo'[j] = items[j]
        \/ \E m \in DOMAIN todo : m > 1 /\ j = Len(items) + m - 1 /\ j > Len(items) /\ todo'[j] = todo[m]
    BY PlaceOf
  <2>3. CASE i \in DOMAIN items /\ todo'[i] = items[i]
    BY <1>1, <1>2, <2>2, <2>3 DEF Apart
  <2>4. ASSUME NEW m \in DOMAIN todo, m > 1, i = Len(items) + m - 1, todo'[i] = todo[m]
        PROVE  todo'[i].path # todo'[j].path
    <3>1. CASE j \in DOMAIN items /\ todo'[j] = items[j]
      BY <1>1, <1>2, <2>4, <3>1
    <3>2. ASSUME NEW n \in DOMAIN todo, n > 1, j = Len(items) + n - 1, todo'[j] = todo[n]
          PROVE  todo'[i].path # todo'[j].path
      <4>1. m # n
        BY <1>2, <2>4, <3>2
      <4> QED
        BY <1>2, <2>4, <3>2, <4>1 DEF Apart
    <3> QED
      BY <2>2, <3>1, <3>2
  <2> QED
    BY <2>1, <2>3, <2>4
<1> QED
  BY <1>2 DEF Apart

(***************************************************************************)
(* The kernel filter makes the directories of what it lets through         *)
(***************************************************************************)
NoneOwn(a, b) == \A i \in DOMAIN a : i \notin DOMAIN b => ~IsOwn(a[i].name)
Others(es)    == \A i \in DOMAIN es : ~IsOwn(es[i].name)

LEMMA OthersAdded ==
  ASSUME NEW a, NEW es, IsList(a), IsList(es), Others(es)
  PROVE  Longer(a \o es, a) /\ NoneOwn(a \o es, a)
<1>1. Longer(a \o es, a)
  BY LongerConcat
<1>2. ASSUME NEW i \in DOMAIN (a \o es), i \notin DOMAIN a PROVE ~IsOwn((a \o es)[i].name)
  <2>1. \/ i \in DOMAIN a
        \/ i - Len(a) \in DOMAIN es /\ (a \o es)[i] = es[i - Len(a)]
    BY ListConcat, Zenon
  <2> QED
    BY <1>2, <2>1 DEF Others
<1> QED
  BY <1>1, <1>2 DEF NoneOwn

LEMMA NoneOwnStill ==
  ASSUME NEW a, NEW b, NEW c, Longer(a, b), NoneOwn(a, b), NoneOwn(b, c)
  PROVE  NoneOwn(a, c)
<1>1. DOMAIN b = 1..Len(b)
  BY ListDomain DEF Longer
<1> QED
  BY <1>1 DEF Longer, NoneOwn

LEMMA NamedNotOwn ==
  ASSUME NEW name, Named(name)
  PROVE  ~IsOwn(name)
BY DEF Named, IsOwn

LEMMA BootEntry ==
  ASSUME NEW x \in {"kernel", "cmdline", "ucode.cpio"}
  PROVE  /\ Above(<<"boot", x>>) = {<<"boot">>} /\ ~IsOwn(<<"boot", x>>)
<1> DEFINE s == <<"boot", x>>
<1>1. s \in Seq({"boot", x}) /\ Len(s) = 2 /\ s[1] = "boot" /\ s[2] = x
  OBVIOUS
<1>2. IsList(s) /\ x # ""
  BY <1>1, ListIs
<1> HIDE DEF s
<1>3. Last(s) = x /\ Bare(s) = s
  BY <1>1, <1>2 DEF Last, Bare
<1>4. s # <<>>
  <2>1. 2 \in Nat \ {0}
    OBVIOUS
  <2> QED
    BY <1>1, <2>1, Filled, Zenon
<1>5. /\ IsList(Front(s)) /\ Len(Front(s)) \in Nat /\ Len(s) = Len(Front(s)) + 1
      /\ \A i \in 1..Len(Front(s)) : Front(s)[i] = s[i]
  BY <1>2, <1>4, FrontIs, Zenon
<1>6. Front(s) = <<"boot">>
  <2>0. Len(Front(s)) = 1
    <3>1. Len(s) = 2 /\ Len(Front(s)) \in Nat /\ Len(s) = Len(Front(s)) + 1
      BY <1>1, <1>5, Zenon
    <3>2. \A n \in Nat : 2 = n + 1 => n = 1
      OBVIOUS
    <3> QED
      BY <3>1, <3>2, Zenon
  <2>1. Len(Front(s)) = 1 /\ Front(s)[1] = "boot"
    <3>1. 1 \in 1..1
      OBVIOUS
    <3>2. Front(s)[1] = s[1]
      BY <1>5, <2>0, <3>1, Zenon
    <3> QED
      BY <1>1, <2>0, <3>2, Zenon
  <2>2. IsList(<<"boot">>) /\ Len(<<"boot">>) = 1 /\ <<"boot">>[1] = "boot"
    BY OneEntry
  <2>3. \A i \in 1..Len(Front(s)) : Front(s)[i] = <<"boot">>[i]
    BY <2>1, <2>2
  <2> QED
    BY <1>5, <2>1, <2>2, <2>3, SameList
<1>7. Above(s) = {<<"boot">>}
  BY <1>1, <1>3, <1>6 DEF Above
<1>8. ~IsOwn(s)
  BY <1>1 DEF IsOwn
<1> QED
  BY <1>7, <1>8 DEF s

LEMMA OneIsFew == ~(1 > 1) /\ 1 # 4
OBVIOUS

LEMMA OneName ==
  ASSUME NEW x, x # ""
  PROVE  Bare(<<x>>) = <<x>> /\ Above(<<x>>) = {} /\ ~IsOwn(<<x>>)
<1> DEFINE s == <<x>>
<1>1. Len(s) = 1 /\ s[1] = x
  OBVIOUS
<1> HIDE DEF s
<1>2. Bare(s) = s
  BY <1>1 DEF Bare, Last
<1>3. ~(Len(s) > 1) /\ Len(s) # 4
  BY <1>1, OneIsFew, Zenon
<1>4. Above(s) = {}
  BY <1>2, <1>3 DEF Above
<1>5. ~IsOwn(s)
  BY <1>3 DEF IsOwn
<1> QED
  BY <1>2, <1>4, <1>5 DEF s

LEMMA BootItself == Bare(<<"boot">>) = <<"boot">> /\ Above(<<"boot">>) = {} /\ ~IsOwn(<<"boot">>)
BY OneName

LEMMA OthersOne ==
  ASSUME NEW e, ~IsOwn(e.name)
  PROVE  Others(<<e>>)
<1>1. DOMAIN <<e>> = 1..1 /\ <<e>>[1] = e
  BY OneEntry
<1> QED
  BY <1>1 DEF Others

LEMMA OthersMore ==
  ASSUME NEW a, NEW b, IsList(a), IsList(b), Others(a), Others(b)
  PROVE  Others(a \o b)
<1> SUFFICES ASSUME NEW i \in DOMAIN (a \o b) PROVE ~IsOwn((a \o b)[i].name)
  BY DEF Others
<1>1. (\E j \in DOMAIN a : (a \o b)[i] = a[j]) \/ \E j \in DOMAIN b : (a \o b)[i] = b[j]
  BY ListConcat
<1> QED
  BY <1>1 DEF Others

\* The directory and a file in it.
LEMMA BootFilled ==
  ASSUME NEW k, NEW there \in BOOLEAN, NEW e, NEW x \in {"kernel", "cmdline", "ucode.cpio"}, e.name = <<"boot", x>>,
         NEW D, there => <<"boot">> \in D
  PROVE  LET es == BootDir(k, there) \o <<e>> IN
         /\ IsList(BootDir(k, there)) /\ IsList(es) /\ Supports(es, D) /\ Others(es) /\ <<"boot">> \in D \cup DirsOf(es)
<1> DEFINE b == BootDir(k, there)
<1>1. Above(e.name) = {<<"boot">>} /\ ~IsOwn(e.name)
  BY BootEntry
<1>2. /\ IsList(b) /\ Supports(b, D) /\ Others(b) /\ <<"boot">> \in D \cup DirsOf(b)
  <2>1. CASE there
    <3>1. b = <<>>
      BY <2>1 DEF BootDir
    <3> QED
      BY <2>1, <3>1, SupportsNone, EmptyList DEF Others
  <2>2. CASE ~there
    <3> DEFINE d == Dir(<<"boot">>)
    <3>1. b = <<d>>
      BY <2>2 DEF BootDir
    <3>2. d.name = <<"boot">> /\ d.type = "dir"
      BY DirIs
    <3> HIDE DEF d, b
    <3>3. /\ IsList(<<d>>) /\ Supports(<<d>>, D) /\ DirsOf(<<d>>) = {<<"boot">>}
      BY <3>2, BootItself, SupportsOne
    <3>4. Others(<<d>>)
      BY <3>2, BootItself, OthersOne
    <3> QED
      BY <3>1, <3>3, <3>4
  <2> QED
    BY <2>1, <2>2
<1> HIDE DEF b
<1>3. IsList(<<e>>) /\ Supports(<<e>>, D \cup DirsOf(b)) /\ Others(<<e>>)
  BY <1>1, <1>2, SupportsOne, OthersOne
<1>4. Supports(b \o <<e>>, D) /\ IsList(b \o <<e>>)
  BY <1>2, <1>3, SupportsMore, ConcatIs
<1>5. Others(b \o <<e>>)
  BY <1>2, <1>3, OthersMore
<1>6. DirsOf(b \o <<e>>) = DirsOf(b) \cup DirsOf(<<e>>)
  BY <1>2, <1>3, DirsConcat
<1> QED
  BY <1>2, <1>4, <1>5, <1>6 DEF b

Filters(k) == IsFilter(k) /\ BootMade(k) /\ Longer(k.out, out) /\ NoneOwn(k.out, out)

LEMMA FiltersMore ==
  ASSUME NEW k, Filters(k), NEW es, IsList(es), Supports(es, DirsOf(k.out)), Others(es),
         NEW l, IsFilter(l), l.out = k.out \o es,
         l.kernel \/ l.ucode => <<"boot">> \in DirsOf(k.out) \cup DirsOf(es),
         l.hdr # NoHdr => l.kernel
  PROVE  Filters(l)
<1>1. IsList(k.out) /\ Tree(k.out) /\ Longer(k.out, out) /\ NoneOwn(k.out, out)
  BY DEF Filters, BootMade, IsFilter, IsArchive
<1>2. Tree(l.out)
  BY <1>1, TreeGrows
<1>3. DirsOf(l.out) = DirsOf(k.out) \cup DirsOf(es)
  BY <1>1, DirsConcat
<1>4. Longer(l.out, k.out) /\ NoneOwn(l.out, k.out)
  BY <1>1, OthersAdded
<1>5. Longer(l.out, out) /\ NoneOwn(l.out, out)
  BY <1>1, <1>4, LongerStill, NoneOwnStill
<1>6. BootMade(l)
  BY <1>2, <1>3 DEF BootMade
<1> QED
  BY <1>5, <1>6 DEF Filters

LEMMA FiltersSame ==
  ASSUME NEW k, Filters(k), NEW l, IsFilter(l), l.out = k.out, l.kernel = k.kernel, l.ucode = k.ucode,
         l.hdr \in {k.hdr, NoHdr}
  PROVE  Filters(l)
BY DEF Filters, BootMade

LEMMA ConcatTwice ==
  ASSUME NEW a, NEW b, NEW c, IsList(a), IsList(b), IsList(c)
  PROVE  a \o b \o c = a \o (b \o c)
<1> DEFINE S == ToSet(a) \cup ToSet(b) \cup ToSet(c)
<1>1. a \in Seq(S) /\ b \in Seq(S) /\ c \in Seq(S)
  BY SeqMonotonic DEF IsList
<1> HIDE DEF S
<1> QED
  BY <1>1

LEMMA FinishTarMakes ==
  ASSUME AllTidy, NEW k, Filters(k)
  PROVE  Filters(FinishTar(k))
<1>0. IsFilter(k) /\ IsFilter(FinishTar(k))
  BY FinishTarType DEF Filters
<1>1. CASE ~k.open
  BY <1>1 DEF FinishTar
<1>2. CASE k.open /\ k.hdr # NoHdr
  <2> DEFINE e == [k.hdr EXCEPT !.body = IF cfg.unzip THEN Unzipped(k.buf) ELSE k.buf]
             l == [k EXCEPT !.out = Append(@, e), !.hdr = NoHdr, !.open = FALSE]
  <2>1. FinishTar(k) = l \/ FinishTar(k) = [k EXCEPT !.failed = TRUE]
    BY <1>2 DEF FinishTar
  <2>2. CASE FinishTar(k) = [k EXCEPT !.failed = TRUE]
    BY <1>0, <2>2, FiltersSame DEF IsFilter
  <2>3. CASE FinishTar(k) = l
    <3>1. e.name = <<"boot", "kernel">>
      BY <1>0, <1>2 DEF IsFilter, NoHdr, Reg
    <3>2. l.out = Append(k.out, e) /\ l.kernel = k.kernel /\ l.ucode = k.ucode /\ l.hdr = NoHdr
      BY <1>0 DEF IsFilter
    <3> HIDE DEF e, l
    <3>3. Append(k.out, e) = k.out \o <<e>>
      <4>1. k.out \in Seq(ToSet(k.out) \cup {e})
        BY <1>0, SeqMonotonic DEF IsFilter, IsArchive, IsList
      <4>2. e \in ToSet(k.out) \cup {e}
        OBVIOUS
      <4> QED
        BY <4>1, <4>2, AppendIsConcat
    <3>4. Above(e.name) = {<<"boot">>} /\ ~IsOwn(e.name)
      BY <3>1, BootEntry
    <3>5. k.kernel /\ <<"boot">> \in DirsOf(k.out)
      BY <1>2 DEF Filters, BootMade
    <3>6. IsList(<<e>>) /\ Supports(<<e>>, DirsOf(k.out)) /\ Others(<<e>>)
      BY <3>4, <3>5, SupportsOne, OthersOne
    <3>7. IsFilter(l)
      BY <1>0, <2>3
    <3>8. l.out = k.out \o <<e>>
      BY <3>2, <3>3
    <3> QED
      BY <2>3, <3>2, <3>5, <3>6, <3>7, <3>8, FiltersMore
  <2> HIDE DEF l
  <2> QED
    BY <2>1, <2>2, <2>3
<1>3. CASE k.open /\ k.hdr = NoHdr
  <2> DEFINE l == [k EXCEPT !.out = @ \o KernelTar[k.buf], !.open = FALSE]
  <2>1. \/ k.buf \in DOMAIN KernelTar /\ FinishTar(k) = l
        \/ FinishTar(k) = [k EXCEPT !.failed = TRUE]
    BY <1>3 DEF FinishTar
  <2>2. CASE FinishTar(k) = [k EXCEPT !.failed = TRUE]
    BY <1>0, <2>2, FiltersSame DEF IsFilter
  <2>3. CASE k.buf \in DOMAIN KernelTar /\ FinishTar(k) = l
    <3> DEFINE es == KernelTar[k.buf]
    <3>1. IsList(es) /\ Tree(es) /\ \A i \in DOMAIN es : Named(es[i].name)
      BY <2>3, ArchivesAssumption DEF AllTidy, ImagesTidy, IsArchive
    <3>2. l.out = k.out \o es /\ l.kernel = k.kernel /\ l.ucode = k.ucode /\ l.hdr = k.hdr
      BY <1>0 DEF IsFilter
    <3> HIDE DEF es, l
    <3>3. Supports(es, DirsOf(k.out))
      <4>1. Supports(es, {}) /\ {} \subseteq DirsOf(k.out)
        BY <3>1, TreeIs
      <4> QED
        BY <4>1, SupportsWider
    <3>4. Others(es)
      BY <3>1, NamedNotOwn DEF Others
    <3>5. IsFilter(l)
      BY <1>0, <2>3
    <3>6. k.kernel \/ k.ucode => <<"boot">> \in DirsOf(k.out)
      BY DEF Filters, BootMade
    <3>7. l.hdr # NoHdr => l.kernel
      BY <1>3, <3>2
    <3>8. Filters(l)
      BY <3>1, <3>2, <3>3, <3>4, <3>5, <3>6, <3>7, FiltersMore
    <3> QED
      BY <2>3, <3>8
  <2> HIDE DEF l
  <2> QED
    BY <2>1, <2>2, <2>3
<1> QED
  BY <1>0, <1>1, <1>2, <1>3 DEF IsFilter

LEMMA KernelEntryMakes ==
  ASSUME AllTidy, NEW k0, Filters(k0), NEW e
  PROVE  Filters(KernelEntry(k0, e))
<1> DEFINE k == FinishTar(k0)
<1>1. Filters(k)
  BY FinishTarMakes
<1>2. KernelEntry(k0, e) =
        CASE k.failed -> k
          [] ~k.failed /\ e.name = KernelName(cfg) /\ k.kernel -> [k EXCEPT !.failed = TRUE]
          [] ~k.failed /\ e.name = KernelName(cfg) /\ ~k.kernel ->
               [k EXCEPT !.kernel = TRUE, !.open = TRUE, !.buf = e.body, !.hdr = Reg(<<"boot", "kernel">>, None),
                         !.out = @ \o BootDir(k, k.ucode) \o <<Reg(<<"boot", "cmdline">>, cfg.cmdline)>>]
          [] ~k.failed /\ e.name # KernelName(cfg) /\ e.name = TarName(cfg) ->
               [k EXCEPT !.tar = TRUE, !.open = TRUE, !.buf = e.body]
          [] ~k.failed /\ e.name # KernelName(cfg) /\ e.name # TarName(cfg) /\ e.name = cfg.ucode ->
               [k EXCEPT !.ucode = TRUE,
                         !.out = @ \o BootDir(k, k.kernel) \o <<Reg(<<"boot", "ucode.cpio">>, e.body)>>]
          [] OTHER -> k
  BY DEF KernelEntry
<1>3. IsFilter(KernelEntry(k0, e)) /\ IsFilter(k)
  BY <1>1, KernelEntryType DEF Filters
<1> HIDE DEF k
<1>4. IsList(k.out) /\ k.kernel \in BOOLEAN /\ k.ucode \in BOOLEAN /\ k.failed \in BOOLEAN
  BY <1>3 DEF IsFilter, IsArchive
<1> DEFINE c == Reg(<<"boot", "cmdline">>, cfg.cmdline)
           u == Reg(<<"boot", "ucode.cpio">>, e.body)
           full == [k EXCEPT !.kernel = TRUE, !.open = TRUE, !.buf = e.body, !.hdr = Reg(<<"boot", "kernel">>, None),
                             !.out = @ \o BootDir(k, k.ucode) \o <<c>>]
           code == [k EXCEPT !.ucode = TRUE, !.out = @ \o BootDir(k, k.kernel) \o <<u>>]
<1>5. <<"boot">> \in DirsOf(k.out) \/ (~k.kernel /\ ~k.ucode)
  BY <1>1 DEF Filters, BootMade
<1>6. c.name = <<"boot", "cmdline">> /\ u.name = <<"boot", "ucode.cpio">>
  BY DEF Reg
<1>7. CASE KernelEntry(k0, e) = [k EXCEPT !.failed = TRUE]
  BY <1>1, <1>3, <1>7, FiltersSame DEF IsFilter
<1>8. CASE KernelEntry(k0, e) = [k EXCEPT !.tar = TRUE, !.open = TRUE, !.buf = e.body]
  BY <1>1, <1>3, <1>8, FiltersSame DEF IsFilter
<1>9. CASE KernelEntry(k0, e) = full
  <2> DEFINE b == BootDir(k, k.ucode)
  <2>1. /\ full.out = k.out \o b \o <<c>> /\ full.kernel = TRUE /\ full.ucode = k.ucode
    BY <1>3 DEF IsFilter
  <2>2. /\ IsList(b) /\ IsList(b \o <<c>>) /\ Supports(b \o <<c>>, DirsOf(k.out)) /\ Others(b \o <<c>>)
        /\ <<"boot">> \in DirsOf(k.out) \cup DirsOf(b \o <<c>>)
    <3> HIDE DEF c
    <3> QED
      BY <1>4, <1>5, <1>6, BootFilled
  <2> HIDE DEF b, c, full
  <2>3. k.out \o b \o <<c>> = k.out \o (b \o <<c>>)
    <3> DEFINE d == <<c>>
    <3>1. IsList(d)
      BY OneEntry
    <3> HIDE DEF d
    <3> DEFINE o == k.out
    <3>0. IsList(o) /\ IsList(b)
      BY <1>4, <2>2
    <3> HIDE DEF o
    <3>2. o \o b \o d = o \o (b \o d)
      BY <3>0, <3>1, ConcatTwice
    <3> QED
      BY <3>2 DEF d, o, o
  <2>4. /\ IsFilter(full) /\ full.out = k.out \o (b \o <<c>>)
        /\ (full.hdr # NoHdr => full.kernel)
        /\ (full.kernel \/ full.ucode => <<"boot">> \in DirsOf(k.out) \cup DirsOf(b \o <<c>>))
    BY <1>3, <1>9, <2>1, <2>2, <2>3, Zenon
  <2>5. Filters(full)
    BY <1>1, <2>2, <2>4, FiltersMore
  <2> QED
    BY <1>9, <2>5
<1>10. CASE KernelEntry(k0, e) = code
  <2> DEFINE b == BootDir(k, k.kernel)
  <2>1. /\ code.out = k.out \o b \o <<u>> /\ code.kernel = k.kernel /\ code.hdr = k.hdr
    BY <1>3 DEF IsFilter
  <2>2. /\ IsList(b) /\ IsList(b \o <<u>>) /\ Supports(b \o <<u>>, DirsOf(k.out)) /\ Others(b \o <<u>>)
        /\ <<"boot">> \in DirsOf(k.out) \cup DirsOf(b \o <<u>>)
    <3> HIDE DEF u
    <3> QED
      BY <1>4, <1>5, <1>6, BootFilled
  <2> HIDE DEF b, u, code
  <2>3. k.out \o b \o <<u>> = k.out \o (b \o <<u>>)
    <3> DEFINE d == <<u>>
    <3>1. IsList(d)
      BY OneEntry
    <3> HIDE DEF d
    <3> DEFINE o == k.out
    <3>0. IsList(o) /\ IsList(b)
      BY <1>4, <2>2
    <3> HIDE DEF o
    <3>2. o \o b \o d = o \o (b \o d)
      BY <3>0, <3>1, ConcatTwice
    <3> QED
      BY <3>2 DEF d, o, o
  <2>4. k.hdr # NoHdr => k.kernel
    BY <1>1 DEF Filters, BootMade
  <2>5. /\ IsFilter(code) /\ code.out = k.out \o (b \o <<u>>)
        /\ (code.hdr # NoHdr => code.kernel)
        /\ (code.kernel \/ code.ucode => <<"boot">> \in DirsOf(k.out) \cup DirsOf(b \o <<u>>))
    BY <1>3, <1>10, <2>1, <2>2, <2>3, <2>4, Zenon
  <2>6. Filters(code)
    BY <1>1, <2>2, <2>5, FiltersMore
  <2> QED
    BY <1>10, <2>6
<1>11. CASE KernelEntry(k0, e) = k
  BY <1>1, <1>11
<1> HIDE DEF full, code
<1>12. \/ KernelEntry(k0, e) = k
       \/ KernelEntry(k0, e) = [k EXCEPT !.failed = TRUE]
       \/ KernelEntry(k0, e) = [k EXCEPT !.tar = TRUE, !.open = TRUE, !.buf = e.body]
       \/ KernelEntry(k0, e) = full
       \/ KernelEntry(k0, e) = code
  BY <1>2, <1>4 DEF full, code
<1> QED
  BY <1>7, <1>8, <1>9, <1>10, <1>11, <1>12

LEMMA ThroughMakes ==
  ASSUME AllTidy, Filters([kf EXCEPT !.out = out]), NEW es, Len(es) \in Nat
  PROVE  Filters(Through(es))
<1> DEFINE f == CHOOSE f : Filterings(es, f, Len(es))
<1>1. Filterings(es, f, Len(es))
  BY FilteringsExist
<1>2. Through(es) = f[Len(es)]
  BY DEF Through, Filterings, Filtered
<1> HIDE DEF f
<1>3. \A i \in 0..Len(es) : f[i] = Filtered(es, f, i)
  BY <1>1 DEF Filterings
<1> DEFINE Bad == {m \in 0..Len(es) : ~Filters(f[m])}
<1>4. ASSUME Bad # {} PROVE FALSE
  <2>1. PICK m \in Bad : \A k \in Bad : m <= k
    <3>1. Bad \in SUBSET Nat
      OBVIOUS
    <3> HIDE DEF Bad
    <3> QED
      BY <1>4, <3>1, LeastOf
  <2>2. m \in 0..Len(es) /\ ~Filters(f[m])
    BY <2>1
  <2>3. CASE m = 0
    <3>1. f[m] = [kf EXCEPT !.out = out]
      BY <1>3, <2>2, <2>3 DEF Filtered
    <3> QED
      BY <2>2, <3>1
  <2>4. CASE m # 0
    <3>1. m - 1 \in 0..Len(es) /\ m - 1 \notin Bad
      BY <2>1, <2>2, <2>4
    <3>2. Filters(f[m - 1])
      BY <3>1
    <3>3. f[m] = KernelEntry(f[m - 1], es[m])
      BY <1>3, <2>2, <2>4 DEF Filtered
    <3> QED
      BY <2>2, <3>2, <3>3, KernelEntryMakes
  <2> QED
    BY <2>3, <2>4
<1>5. Len(es) \in 0..Len(es)
  OBVIOUS
<1> QED
  BY <1>2, <1>4, <1>5

(***************************************************************************)
(* What a step leaves as it was                                            *)
(***************************************************************************)
\* The first item is done, or the build ends.
Moves(items) == IsList(items) /\ (todo' = items \o Tail(todo) \/ todo' = <<>>)

LEMMA StreamFilters ==
  ASSUME BuildInv, TreeInv
  PROVE  Filters([kf EXCEPT !.out = out])
<1> DEFINE k == [kf EXCEPT !.out = out]
<1>1. IsFilter(kf) /\ IsArchive(out)
  BY DEF BuildInv, BuildType
<1>2. IsFilter(k) /\ k.out = out
  BY <1>1 DEF IsFilter
<1>3. Longer(out, out) /\ NoneOwn(out, out)
  BY <1>1, LongerSame DEF IsArchive, NoneOwn
<1>4. BootMade(k)
  BY DEF TreeInv
<1> HIDE DEF k
<1> QED
  BY <1>2, <1>3, <1>4 DEF Filters, k

LEMMA FiltersSet ==
  ASSUME NEW k, Filters(k)
  PROVE  /\ Longer(k.out, out) /\ NoneOwn(k.out, out) /\ IsArchive(k.out) /\ Tree(k.out)
         /\ BootMade([[k EXCEPT !.out = <<>>] EXCEPT !.out = k.out])
<1>1. [[k EXCEPT !.out = <<>>] EXCEPT !.out = k.out] = k
  BY DEF Filters, IsFilter
<1> QED
  BY <1>1 DEF Filters, BootMade, IsFilter

LEMMA FilterKept ==
  ASSUME BuildInv, TreeInv, NEW es, IsList(es), Supports(es, DirsOf(out))
  PROVE  BootMade([kf EXCEPT !.out = out \o es]) /\ DirsOf(out \o es) = DirsOf(out) \cup DirsOf(es)
<1> DEFINE k == [kf EXCEPT !.out = out]
           l == [kf EXCEPT !.out = out \o es]
<1>1. IsFilter(kf) /\ IsList(out)
  BY DEF BuildInv, BuildType, IsArchive
<1>2. /\ k.out = out /\ k.kernel = kf.kernel /\ k.ucode = kf.ucode /\ k.hdr = kf.hdr
      /\ l.out = out \o es /\ l.kernel = kf.kernel /\ l.ucode = kf.ucode /\ l.hdr = kf.hdr
  BY <1>1 DEF IsFilter
<1>3. BootMade(k)
  BY DEF TreeInv
<1> HIDE DEF k, l
<1>4. Tree(out \o es) /\ DirsOf(out \o es) = DirsOf(out) \cup DirsOf(es)
  BY <1>1, <1>2, <1>3, TreeGrows, DirsConcat DEF BootMade
<1>5. BootMade(l)
  BY <1>2, <1>3, <1>4 DEF BootMade
<1> QED
  BY <1>4, <1>5 DEF l

LEMMA EmitMade ==
  ASSUME AllTidy, BuildInv, TreeInv, NEW es, IsList(es), Now.to # "kernel" => Supports(es, DirsOf(out)),
         NEW items, IsList(items), Emit(es, items)
  PROVE  /\ Moves(items) /\ Longer(out', out) /\ DirsOf(out) \subseteq DirsOf(out')
         /\ BootMade([kf EXCEPT !.out = out])'
         /\ Now.to = "kernel" \/ Others(es) => NoneOwn(out', out)
         /\ Now.to # "kernel" => out' = out \o es /\ todo' = items \o Tail(todo) /\ DirsOf(out') = DirsOf(out) \cup DirsOf(es)
<1>1. Moves(items)
  BY DEF Emit, Fail, Then, Moves
<1>2. IsList(out) /\ Len(es) \in Nat
  BY ListDomain DEF BuildInv, BuildType, IsArchive
<1>3. CASE Now.to = "kernel"
  <2> DEFINE k == Through(es)
  <2>1. Filters(k)
    BY <1>2, StreamFilters, ThroughMakes
  <2>2. kf' = [k EXCEPT !.out = <<>>] /\ out' = k.out
    BY <1>3 DEF Emit
  <2> HIDE DEF k
  <2>3. /\ Longer(k.out, out) /\ NoneOwn(k.out, out)
        /\ BootMade([[k EXCEPT !.out = <<>>] EXCEPT !.out = k.out])
    BY <2>1, FiltersSet
  <2>4. BootMade([kf' EXCEPT !.out = out'])
    BY <2>2, <2>3
  <2>5. Longer(out', out) /\ NoneOwn(out', out)
    BY <2>2, <2>3
  <2>6. BootMade([kf EXCEPT !.out = out])'
    BY <2>4 DEF BootMade
  <2> QED
    BY <1>1, <1>3, <2>5, <2>6, LongerDirs
<1>4. CASE Now.to # "kernel"
  <2>1. out' = out \o es /\ kf' = kf /\ todo' = items \o Tail(todo)
    BY <1>4 DEF Emit, Then
  <2>2. /\ BootMade([kf EXCEPT !.out = out \o es]) /\ DirsOf(out \o es) = DirsOf(out) \cup DirsOf(es)
    BY <1>4, FilterKept
  <2>3. BootMade([kf' EXCEPT !.out = out'])
    BY <2>1, <2>2
  <2>4. BootMade([kf EXCEPT !.out = out])'
    BY <2>3 DEF BootMade
  <2>5. Longer(out', out) /\ (Others(es) => NoneOwn(out', out))
    BY <1>2, <2>1, OthersAdded, LongerConcat
  <2> QED
    BY <1>1, <1>4, <2>1, <2>2, <2>4, <2>5
<1> QED
  BY <1>3, <1>4

LEMMA SoundMoves ==
  ASSUME SoundInv, IsList(todo), todo # <<>>, NEW items, Moves(items), Fits(items), cfg' = cfg,
         \A image \in DOMAIN dup' : Place(dup'[image]) /\ dup'[image] # None
  PROVE  SoundInv'
<1>1. ConfigTidy(cfg')
  BY DEF SoundInv
<1>2. Order' /\ (\A i \in DOMAIN todo : Sound(todo[i]))'
  <2>1. CASE todo' = items \o Tail(todo)
    BY <2>1, OrderMoves DEF SoundInv, InPlace, Moves
  <2>2. CASE todo' = <<>>
    BY <2>2, EmptyList DEF Order
  <2> QED
    BY <2>1, <2>2 DEF Moves
<1> QED
  BY <1>1, <1>2 DEF SoundInv

LEMMA SeenMoves ==
  ASSUME SeenMade, IsList(todo), todo # <<>>, NEW items, Moves(items), seen' = seen, DirsOf(out) \subseteq DirsOf(out'),
         \A i \in DOMAIN items : items[i].do \notin OfImage
  PROVE  SeenMade'
<1> DEFINE l == todo'
<1> SUFFICES ASSUME NEW i \in DOMAIN l, l[i].do \in OfImage, l[i].to = "tar", NEW key \in seen, Last(key) = ""
             PROVE  l[i].prefix \o Front(key) \in DirsOf(out')
  BY DEF SeenMade
<1>1. todo' = items \o Tail(todo)
  BY EmptyList DEF Moves
<1>2. (\E k \in DOMAIN items : l[i] = items[k]) \/ \E m \in DOMAIN todo : l[i] = todo[m]
  BY <1>1, PlaceOf DEF InPlace, Moves
<1> HIDE DEF l
<1>3. PICK m \in DOMAIN todo : l[i] = todo[m]
  BY <1>2
<1>4. l[i].prefix \o Front(key) \in DirsOf(out)
  BY <1>3 DEF SeenMade
<1> QED
  BY <1>4

\* The items that come in the place of the first one find their directories.
Supply(items) ==
  /\ \A d \in Makes(todo[1]) : d \in DirsOf(out') \/ \E j \in DOMAIN items : d \in Makes(items[j])
  /\ \A i \in DOMAIN items : \A d \in Needs(items[i]) :
       d \in DirsOf(out') \/ \E j \in 1..(i - 1) : d \in Makes(items[j])

LEMMA TreeMoves ==
  ASSUME TreeInv, IsList(todo), todo # <<>>, NEW items, Moves(items), todo' # <<>> => Supply(items),
         DirsOf(out) \subseteq DirsOf(out'), BootMade([kf EXCEPT !.out = out])',
         \A image \in DOMAIN dup' : dup'[image] \in DirsOf(out'), SeenMade', AddedMade'
  PROVE  TreeInv'
<1>1. Supplied'
  <2>1. CASE todo' = <<>>
    BY <2>1, EmptyList DEF Supplied
  <2>2. CASE todo' # <<>>
    BY <2>2, SuppliedMoves DEF TreeInv, InPlace, Moves, Supply
  <2> QED
    BY <2>1, <2>2
<1> QED
  BY <1>1 DEF TreeInv

LEMMA RestOf ==
  ASSUME IsList(todo), todo # <<>>, NEW items, Moves(items), \A i \in DOMAIN items : items[i].do \notin Placing,
         NEW k \in DOMAIN todo', todo'[k].do \in Placing
  PROVE  \E m \in DOMAIN todo : m > 1 /\ todo'[k] = todo[m]
<1>1. todo' = items \o Tail(todo)
  BY EmptyList DEF Moves
<1>2. \/ k \in DOMAIN items /\ todo'[k] = items[k]
      \/ \E m \in DOMAIN todo : m > 1 /\ k = Len(items) + m - 1 /\ k > Len(items) /\ todo'[k] = todo[m]
  BY <1>1, PlaceOf DEF InPlace, Moves
<1> QED
  BY <1>2

LEMMA ApartStays ==
  ASSUME IsList(todo), todo # <<>>, NEW items, Moves(items), Apart(todo),
         \A i \in DOMAIN items : items[i].do \notin Placing
  PROVE  Apart(todo')
<1>1. CASE todo' = <<>>
  BY <1>1, EmptyList DEF Apart
<1>2. CASE todo' = items \o Tail(todo)
  <2>1. Apart(items)
    BY DEF Apart
  <2> QED
    BY <1>2, <2>1, ApartMoves DEF InPlace, Moves
<1> QED
  BY <1>1, <1>2 DEF Moves

LEMMA OwnBelow ==
  ASSUME NEW path, Spot(path), NEW x \in {"config.json", "runtime.json"}
  PROVE  IsOwn(Append(path, x)) /\ Front(Append(path, x)) = path /\ Last(Append(path, x)) = x
<1>1. /\ Len(Append(path, x)) = 4 /\ Append(path, x)[4] = x
      /\ Append(path, x)[1] = "containers"
      /\ Front(Append(path, x)) = path /\ Last(Append(path, x)) = x
  BY BelowSpot
<1> QED
  BY <1>1 DEF IsOwn

\* A container's files stay the only ones.
OnlyOnce(s) ==
  \A i, j \in DOMAIN s : i # j /\ IsOwn(s[i].name) /\ Last(s[i].name) = "config.json" => s[i].name # s[j].name

LEMMA OnlyOnceStill ==
  ASSUME NEW a, NEW b, Longer(a, b), NoneOwn(a, b), OnlyOnce(b)
  PROVE  OnlyOnce(a)
<1>1. DOMAIN b = 1..Len(b)
  BY ListDomain DEF Longer
<1> SUFFICES ASSUME NEW i \in DOMAIN a, NEW j \in DOMAIN a, i # j, IsOwn(a[i].name), Last(a[i].name) = "config.json"
             PROVE  a[i].name # a[j].name
  BY DEF OnlyOnce
<1>2. i \in DOMAIN b /\ a[i] = b[i]
  BY <1>1 DEF NoneOwn, Longer
<1>3. CASE j \in DOMAIN b
  BY <1>1, <1>2, <1>3 DEF OnlyOnce, Longer
<1>4. CASE j \notin DOMAIN b
  BY <1>4 DEF NoneOwn
<1> QED
  BY <1>3, <1>4

LEMMA UnwrittenStill ==
  ASSUME Longer(out', out), NoneOwn(out', out), NEW path, Unwritten(path)
  PROVE  \A i \in DOMAIN out' : IsOwn(out'[i].name) => Front(out'[i].name) # path
<1>1. DOMAIN out = 1..Len(out)
  BY ListDomain DEF Longer
<1> QED
  BY <1>1 DEF NoneOwn, Longer, Unwritten

LEMMA BundleMoves ==
  ASSUME BundleInv, IsList(todo), todo # <<>>, NEW items, Moves(items), cfg' = cfg, bundles' = bundles, dup' = dup,
         Longer(out', out), NoneOwn(out', out), \A i \in DOMAIN items : items[i].do \notin Placing
  PROVE  BundleInv'
<1>1. Apart(BuildItems(cfg)') /\ Apart(todo')
  <2>1. BuildItems(cfg)' = BuildItems(cfg)
    OBVIOUS
  <2> QED
    BY <2>1, ApartStays DEF BundleInv
<1>2. (\A i \in DOMAIN todo : Pends(todo[i]))'
  <2> DEFINE l == todo'
  <2>1. ASSUME NEW k \in DOMAIN l, l[k].do \in Placing
        PROVE  /\ \E c \in ToSet(BuildItems(cfg)) : From(l[k], c)
               /\ \A i \in DOMAIN out' : IsOwn(out'[i].name) => Front(out'[i].name) # l[k].path
               /\ l[k].do = "bundle" => Awaits(l[k])
    <3>1. PICK m \in DOMAIN todo : l[k] = todo[m]
      BY <2>1, RestOf
    <3> HIDE DEF l
    <3>2. /\ \E c \in ToSet(BuildItems(cfg)) : From(l[k], c)
          /\ Unwritten(l[k].path)
          /\ l[k].do = "bundle" => Awaits(l[k])
      BY <2>1, <3>1 DEF BundleInv, Pends
    <3> QED
      BY <3>2, UnwrittenStill
  <2>2. (\A t : Awaits(t) = Awaits(t)')
    BY DEF Awaits
  <2> QED
    BY <2>1 DEF Pends, Unwritten, Awaits
<1>3. OnlyOnce(out')
  BY OnlyOnceStill DEF BundleInv, OnlyOnce
<1>4. ASSUME NEW path \in DOMAIN bundles, NEW i \in DOMAIN out', out'[i].name = Append(path, "runtime.json")
      PROVE  RootAt(path, out[i].body)' /\ out[i].body' = out'[i].body
  <2>1. IsOwn(Append(path, "runtime.json"))
    BY OwnBelow DEF BundleInv
  <2>2. i \in DOMAIN out /\ out'[i] = out[i]
    <3>1. DOMAIN out = 1..Len(out)
      BY ListDomain DEF Longer
    <3> QED
      BY <1>4, <2>1, <3>1 DEF NoneOwn, Longer
  <2>3. RootAt(path, out[i].body)
    BY <1>4, <2>2 DEF BundleInv
  <2>4. DirsOf(out) \subseteq DirsOf(out')
    BY LongerDirs
  <2> QED
    BY <2>2, <2>3, <2>4 DEF RootAt
<1>5. \A path \in DOMAIN bundles : Spot(path)
  BY DEF BundleInv
<1>6. (\A path \in DOMAIN bundles, i \in DOMAIN out :
          out[i].name = Append(path, "runtime.json") => RootAt(path, out[i].body))'
  BY <1>4
<1> QED
  BY <1>1, <1>2, <1>3, <1>5, <1>6 DEF BundleInv, OnlyOnce

LEMMA Unfiltered ==
  ASSUME NEW s, Tree(s)
  PROVE  BootMade([Filter EXCEPT !.out = s])
<1> DEFINE l == [Filter EXCEPT !.out = s]
<1>1. l.out = s /\ l.kernel = FALSE /\ l.ucode = FALSE /\ l.hdr = NoHdr
  BY DEF Filter
<1> HIDE DEF l
<1> QED
  BY <1>1 DEF BootMade, l

LEMMA StreamTree ==
  ASSUME BuildInv, TreeInv
  PROVE  Tree(out) /\ IsList(out)
<1>1. [kf EXCEPT !.out = out].out = out
  BY DEF BuildInv, BuildType, IsFilter
<1> QED
  BY <1>1 DEF TreeInv, BootMade, BuildInv, BuildType, IsArchive

\* Nothing is left to do, and the stream is as it was.
LEMMA EndedAssembly ==
  ASSUME BuildInv, AssemblyInv, todo' = <<>>, UNCHANGED <<cfg, added, out, dup, bundles>>, kf' \in {kf, Filter}
  PROVE  AssemblyInv'
<1>1. DOMAIN todo' = {}
  BY EmptyList
<1>2. SoundInv'
  BY <1>1 DEF AssemblyInv, SoundInv, Order
<1>3. BootMade([kf EXCEPT !.out = out])'
  <2>1. CASE kf' = kf
    BY <2>1 DEF AssemblyInv, TreeInv, BootMade
  <2>2. CASE kf' = Filter
    <3>1. BootMade([Filter EXCEPT !.out = out])
      BY StreamTree, Unfiltered DEF AssemblyInv
    <3>2. BootMade([kf' EXCEPT !.out = out'])
      BY <2>2, <3>1
    <3> QED
      BY <3>2 DEF BootMade
  <2> QED
    BY <2>1, <2>2
<1>4. Supplied' /\ SeenMade' /\ AddedMade'
  BY <1>1 DEF AssemblyInv, TreeInv, Supplied, SeenMade, AddedMade
<1>5. TreeInv'
  BY <1>3, <1>4 DEF AssemblyInv, TreeInv
<1>6. (\A path \in DOMAIN bundles, i \in DOMAIN out :
          out[i].name = Append(path, "runtime.json") => RootAt(path, out[i].body))'
  BY DEF AssemblyInv, BundleInv, RootAt
<1>7. Apart(BuildItems(cfg))' /\ Apart(todo)' /\ (\A i \in DOMAIN todo : Pends(todo[i]))'
  <2>1. BuildItems(cfg)' = BuildItems(cfg)
    OBVIOUS
  <2> QED
    BY <1>1, <2>1 DEF AssemblyInv, BundleInv, Apart
<1>8. BundleInv'
  BY <1>6, <1>7 DEF AssemblyInv, BundleInv
<1> QED
  BY <1>2, <1>5, <1>8 DEF AssemblyInv

LEMMA SameAssembly ==
  ASSUME AssemblyInv, UNCHANGED <<cfg, todo, out, added, kf, seen, dup, bundles>>
  PROVE  AssemblyInv'
<1>1. BuildItems(cfg)' = BuildItems(cfg)
  OBVIOUS
<1>2. SoundInv'
  BY DEF AssemblyInv, SoundInv, Sound, Order
<1>3. TreeInv'
  BY DEF AssemblyInv, TreeInv, BootMade, Supplied, SeenMade, AddedMade
<1>4. BundleInv'
  BY <1>1 DEF AssemblyInv, BundleInv, Pends, Awaits, Unwritten, RootAt
<1> QED
  BY <1>2, <1>3, <1>4 DEF AssemblyInv

\* An item that goes on without a file of a container.
LEMMA PlainAssembly ==
  ASSUME AllTidy, BuildInv, AssemblyInv, todo # <<>>,
         NEW es, IsList(es), Now.to # "kernel" => Supports(es, DirsOf(out)) /\ Others(es),
         NEW items, IsList(items), Emit(es, items), Fits(items), todo' # <<>> => Supply(items),
         \A i \in DOMAIN items : items[i].do \notin Placing,
         UNCHANGED <<cfg, dup, bundles>>, SeenMade', AddedMade'
  PROVE  AssemblyInv'
<1>1. IsList(todo) /\ SoundInv /\ TreeInv /\ BundleInv
  BY DEF BuildInv, BuildType, AssemblyInv
<1>2. /\ Moves(items) /\ Longer(out', out) /\ DirsOf(out) \subseteq DirsOf(out') /\ NoneOwn(out', out)
      /\ BootMade([kf EXCEPT !.out = out])'
  BY <1>1, EmitMade
<1>3. SoundInv'
  BY <1>1, <1>2, SoundMoves DEF SoundInv
<1>4. TreeInv'
  BY <1>1, <1>2, TreeMoves DEF TreeInv
<1>5. BundleInv'
  BY <1>1, <1>2, BundleMoves
<1> QED
  BY <1>3, <1>4, <1>5 DEF AssemblyInv

\* An item that leaves the stream alone: the formats and the tool.
Quiet(t) == t.do \in Outputs \/ (t.do \in Tool /\ t.to = "tar")

LEMMA QuietAssembly ==
  ASSUME AllTidy, BuildInv, AssemblyInv, todo # <<>>, todo[1].do \in Outputs \cup Tool,
         NEW items, IsList(items), \A i \in DOMAIN items : Quiet(items[i]), todo' = items \o Tail(todo),
         UNCHANGED <<cfg, added, out, kf, seen, dup, bundles>>
  PROVE  AssemblyInv'
<1>1. IsList(todo) /\ IsList(out) /\ SoundInv /\ TreeInv /\ BundleInv
  BY DEF BuildInv, BuildType, AssemblyInv, IsArchive
<1>2. Moves(items)
  BY DEF Moves
<1>3. /\ \A i \in DOMAIN items : items[i].do \notin Placing /\ items[i].do \notin OfImage /\ Sound(items[i])
                                /\ Needs(items[i]) = {}
  BY DEF Quiet, Outputs, Tool, Placing, OfImage, Sound, Needs
<1>4. Fits(items)
  BY DEF Quiet, Outputs, Tool, OfImage, Orderly, Fits, Sound, Placing
<1>5. Makes(todo[1]) = {}
  BY DEF Outputs, Tool, Makes
<1>6. Longer(out', out) /\ NoneOwn(out', out)
  BY <1>1, LongerSame DEF NoneOwn
<1>7. SoundInv'
  BY <1>1, <1>2, <1>4, SoundMoves DEF SoundInv
<1>8. SeenMade' /\ AddedMade' /\ BootMade([kf EXCEPT !.out = out])'
  <2>1. SeenMade'
    BY <1>1, <1>2, <1>3, SeenMoves DEF TreeInv
  <2> QED
    BY <1>1, <2>1 DEF TreeInv, AddedMade, BootMade
<1>9. TreeInv'
  BY <1>1, <1>2, <1>3, <1>5, <1>8, TreeMoves DEF TreeInv, Supply
<1>10. BundleInv'
  BY <1>1, <1>2, <1>3, <1>6, BundleMoves
<1> QED
  BY <1>7, <1>9, <1>10 DEF AssemblyInv

LEMMA NoneQuiet == IsList(<<>>) /\ \A i \in DOMAIN <<>> : Quiet((<<>>)[i])
BY EmptyList, Zenon

LEMMA WritesQuiet ==
  ASSUME NEW o, NEW s
  PROVE  IsList(Writes(o, s)) /\ \A i \in DOMAIN Writes(o, s) : Quiet(Writes(o, s)[i])
BY WritesDo DEF Does, Quiet, Outputs

LEMMA OutputFormatAssembly ==
  ASSUME AllTidy, BuildInv, AssemblyInv, OutputFormat
  PROVE  AssemblyInv'
<1>1. todo # <<>> /\ todo[1].do = "format"
  BY AtHead DEF OutputFormat
<1>2. todo' = Writes(Now.o, SplitTar) \o Tail(todo) /\ UNCHANGED <<cfg, added, out, kf, seen, dup, bundles>>
  BY DEF OutputFormat, Then
<1> DEFINE l == Writes(Now.o, SplitTar)
<1>3. IsList(l) /\ \A i \in DOMAIN l : Quiet(l[i])
  BY WritesQuiet
<1> HIDE DEF l
<1> QED
  BY <1>1, <1>2, <1>3, QuietAssembly DEF l, Outputs

LEMMA WriteOutputAssembly ==
  ASSUME AllTidy, BuildInv, AssemblyInv, WriteOutput
  PROVE  AssemblyInv'
<1>1. todo # <<>> /\ todo[1].do = "write"
  BY AtHead DEF WriteOutput
<1>2. todo' = <<>> \o Tail(todo) /\ UNCHANGED <<cfg, added, out, kf, seen, dup, bundles>>
  BY DEF WriteOutput, Then
<1> QED
  BY <1>1, <1>2, NoneQuiet, QuietAssembly DEF Outputs

LEMMA PartsQuiet == IsList(WriteParts) /\ \A i \in DOMAIN WriteParts : Quiet(WriteParts[i])
<1>1. \A part : Quiet(Create(part)) /\ Quiet(Fill(part))
  BY DEF Create, Fill, Quiet, Tool
<1>2. \A i \in 1..6 : i = 1 \/ i = 2 \/ i = 3 \/ i = 4 \/ i = 5 \/ i = 6
  OBVIOUS
<1> QED
  BY <1>1, <1>2, WritePartsIs

LEMMA EnsureMkimageAssembly ==
  ASSUME AllTidy, BuildInv, AssemblyInv, EnsureMkimage
  PROVE  AssemblyInv'
<1>1. todo # <<>> /\ todo[1].do = "mkimage"
  BY AtHead DEF EnsureMkimage
<1> DEFINE l == IF \A part \in MkimageParts : mkimage[part] # "none" THEN <<>> ELSE WriteParts
<1>2. todo' = l \o Tail(todo) /\ UNCHANGED <<cfg, added, out, kf, seen, dup, bundles>>
  BY DEF EnsureMkimage, Then
<1>3. IsList(l) /\ \A i \in DOMAIN l : Quiet(l[i])
  BY NoneQuiet, PartsQuiet
<1> HIDE DEF l
<1> QED
  BY <1>1, <1>2, <1>3, QuietAssembly DEF Tool

LEMMA WriteMkimageAssembly ==
  ASSUME AllTidy, BuildInv, AssemblyInv, WriteMkimage
  PROVE  AssemblyInv'
<1>1. todo # <<>> /\ todo[1].do \in {"create", "fill"}
  BY AtHead DEF WriteMkimage
<1>2. todo' = <<>> \o Tail(todo) /\ UNCHANGED <<cfg, added, out, kf, seen, dup, bundles>>
  BY DEF WriteMkimage, Then
<1> QED
  BY <1>1, <1>2, NoneQuiet, QuietAssembly DEF Tool

(***************************************************************************)
(* Entries of images                                                       *)
(***************************************************************************)
LEMMA NoneFits == IsList(<<>>) /\ Fits(<<>>) /\ \A i \in DOMAIN <<>> : FALSE
<1> DEFINE l == <<>>
<1>1. IsList(l) /\ DOMAIN l = {} /\ l = <<>>
  BY EmptyList
<1> HIDE DEF l
<1>2. Fits(l)
  BY <1>1 DEF Fits
<1> QED
  BY <1>1, <1>2 DEF l

LEMMA TailItem ==
  ASSUME IsList(todo), todo # <<>>, Moves(<<>>), NEW k \in DOMAIN todo'
  PROVE  \E m \in DOMAIN todo : m > 1 /\ todo'[k] = todo[m]
<1> DEFINE l == <<>>
<1>1. DOMAIN l = {} /\ IsList(l)
  BY EmptyList
<1>2. todo' = l \o Tail(todo)
  BY EmptyList DEF Moves
<1> HIDE DEF l
<1>3. \/ k \in DOMAIN l /\ todo'[k] = l[k]
      \/ \E m \in DOMAIN todo : m > 1 /\ k = Len(l) + m - 1 /\ k > Len(l) /\ todo'[k] = todo[m]
  BY <1>1, <1>2, PlaceOf DEF InPlace
<1> QED
  BY <1>1, <1>3

\* An item with nothing in its place.
LEMMA OneAssembly ==
  ASSUME AllTidy, BuildInv, AssemblyInv, todo # <<>>,
         NEW es, IsList(es), Now.to # "kernel" => Supports(es, DirsOf(out)) /\ Others(es), Emit(es, <<>>),
         todo' # <<>> => Makes(todo[1]) \subseteq DirsOf(out'),
         UNCHANGED <<cfg, dup, bundles>>, seen' = seen \/ SeenMade', added' = added \/ AddedMade'
  PROVE  AssemblyInv'
<1> DEFINE l == <<>>
<1>1. IsList(l) /\ DOMAIN l = {} /\ l = <<>> /\ Fits(l)
  BY EmptyList, NoneFits
<1>2. Emit(es, l)
  OBVIOUS
<1> HIDE DEF l
<1>3. Moves(l) /\ DirsOf(out) \subseteq DirsOf(out')
  BY <1>1, <1>2, EmitMade DEF AssemblyInv
<1>4. SeenMade'
  <2>1. IsList(todo) /\ SeenMade
    BY DEF BuildInv, BuildType, AssemblyInv, TreeInv
  <2> QED
    BY <1>1, <1>3, <2>1, SeenMoves
<1>5. AddedMade'
  <2>1. CASE added' = added
    BY <1>3, <2>1 DEF AssemblyInv, TreeInv, AddedMade
  <2> QED
    BY <2>1
<1>6. todo' # <<>> => Supply(l)
  BY <1>1 DEF Supply
<1> QED
  BY <1>1, <1>2, <1>4, <1>5, <1>6, PlainAssembly

LEMMA NoEntries == IsList(<<>>) /\ \A D : Supports(<<>>, D) /\ Others(<<>>)
BY SupportsNone, EmptyList DEF Others

LEMMA HeadSound ==
  ASSUME BuildInv, AssemblyInv, todo # <<>>
  PROVE  /\ Now = todo[1] /\ Sound(todo[1]) /\ 1 \in DOMAIN todo /\ IsList(todo)
         /\ \A d \in Needs(todo[1]) : d \in DirsOf(out)
<1>1. IsList(todo)
  BY DEF BuildInv, BuildType
<1>2. 1 \in DOMAIN todo /\ Now = todo[1]
  BY <1>1, ListDomain DEF Now
<1>3. \A j \in 1..(1 - 1) : FALSE
  OBVIOUS
<1> QED
  BY <1>1, <1>2, <1>3 DEF AssemblyInv, SoundInv, TreeInv, Supplied

LEMMA AdditionAssembly ==
  ASSUME AllTidy, BuildInv, AssemblyInv, Addition
  PROVE  AssemblyInv'
<1> DEFINE e == Reg(<<"Dockerfile">>, <<"dockerfile">>)
<1>1. todo # <<>> /\ todo[1].do = "addition"
  BY AtHead DEF Addition
<1>2. Emit(<<e>>, <<>>) /\ UNCHANGED <<cfg, added, seen, dup, bundles>>
  BY DEF Addition
<1>3. Above(e.name) = {} /\ ~IsOwn(e.name)
  <2>1. e.name = <<"Dockerfile">>
    BY DEF Reg
  <2>2. Above(<<"Dockerfile">>) = {} /\ ~IsOwn(<<"Dockerfile">>)
    BY OneName
  <2> QED
    BY <2>1, <2>2
<1> HIDE DEF e
<1>4. IsList(<<e>>) /\ Supports(<<e>>, DirsOf(out)) /\ Others(<<e>>)
  BY <1>3, SupportsOne, OthersOne
<1>5. Makes(todo[1]) = {}
  BY <1>1 DEF Makes
<1> QED
  BY <1>1, <1>2, <1>4, <1>5, OneAssembly

LEMMA CloseKernelAssembly ==
  ASSUME AllTidy, BuildInv, AssemblyInv, CloseKernel
  PROVE  AssemblyInv'
<1> DEFINE k == FinishTar([kf EXCEPT !.out = out])
           l == <<>>
<1>1. todo # <<>> /\ todo[1].do = "close" /\ IsList(todo)
  BY AtHead DEF CloseKernel, BuildInv, BuildType
<1>2. Filters(k)
  BY StreamFilters, FinishTarMakes DEF AssemblyInv
<1> HIDE DEF k
<1>3. /\ \/ todo' = <<>> /\ out' = out
         \/ out' = k.out /\ todo' = l \o Tail(todo)
      /\ kf' = Filter /\ UNCHANGED <<cfg, added, seen, dup, bundles>>
  BY DEF CloseKernel, Fail, Then, k
<1>4. IsList(l) /\ DOMAIN l = {} /\ Fits(l)
  BY EmptyList, NoneFits
<1> HIDE DEF l
<1>5. CASE todo' = <<>> /\ out' = out
  BY <1>3, <1>5, EndedAssembly
<1>6. CASE out' = k.out /\ todo' = l \o Tail(todo)
  <2>1. Longer(out', out) /\ NoneOwn(out', out) /\ Tree(out')
    BY <1>2, <1>6, FiltersSet
  <2>2. DirsOf(out) \subseteq DirsOf(out')
    BY <2>1, LongerDirs
  <2>3. BootMade([Filter EXCEPT !.out = out'])
    BY <2>1, Unfiltered
  <2>4. BootMade([kf EXCEPT !.out = out])'
    BY <1>3, <2>3 DEF BootMade
  <2>5. Moves(l)
    BY <1>4, <1>6 DEF Moves
  <2>6. SoundInv'
    BY <1>1, <1>3, <1>4, <2>5, SoundMoves DEF AssemblyInv, SoundInv
  <2>7. SeenMade' /\ AddedMade'
    <3>1. SeenMade'
      BY <1>1, <1>3, <1>4, <2>2, <2>5, SeenMoves DEF AssemblyInv, TreeInv
    <3> QED
      BY <1>3, <2>2, <3>1 DEF AssemblyInv, TreeInv, AddedMade
  <2>8. Supply(l)
    BY <1>1, <1>4 DEF Supply, Makes
  <2>9. TreeInv'
    BY <1>1, <1>3, <2>2, <2>4, <2>5, <2>7, <2>8, TreeMoves DEF AssemblyInv, TreeInv
  <2>10. BundleInv'
    BY <1>1, <1>3, <1>4, <2>1, <2>5, BundleMoves DEF AssemblyInv
  <2> QED
    BY <2>6, <2>9, <2>10 DEF AssemblyInv
<1> QED
  BY <1>3, <1>5, <1>6

\* A name below the root of a container is not one of the container's own.
LEMMA BelowRoot ==
  ASSUME NEW prefix, IsList(prefix), Place(prefix), NEW name, IsList(name), name # <<>>,
         prefix = None => name[1] # "containers"
  PROVE  ~IsOwn(prefix \o name)
<1>1. CASE prefix = None
  <2>1. prefix \o name = name
    BY <1>1, NoneFirst
  <2> QED
    BY <1>1, <2>1 DEF IsOwn
<1>2. CASE prefix # None
  <2>1. Len(prefix) = 4
    BY <1>2, PlaceIs
  <2>2. Len(name) \in Nat /\ Len(name) # 0
    BY ListDomain
  <2>3. Len(prefix \o name) = 4 + Len(name)
    <3>1. Len(prefix \o name) = Len(prefix) + Len(name)
      BY ConcatIs, Zenon
    <3> QED
      BY <2>1, <3>1, Zenon
  <2>4. Len(prefix \o name) # 4
    BY <2>2, <2>3
  <2> QED
    BY <2>4 DEF IsOwn
<1> QED
  BY <1>1, <1>2

LEMMA NamedIs ==
  ASSUME NEW name, Named(name)
  PROVE  IsList(name) /\ name # <<>> /\ name[1] # "containers" /\ IsList(Bare(name)) /\ Bare(name) # <<>>
<1>1. IsList(name) /\ name # <<>> /\ Bare(name) # <<>> /\ name[1] # "containers"
  BY DEF Named, None, Bare
<1> QED
  BY <1>1, BareIs

LEMMA LastNotSlash ==
  ASSUME NEW name \in Exclude \cup Replace
  PROVE  Last(name) # ""
<1>1. \A x : Last(<<x>>) = x
  BY DEF Last
<1>2. \A x, y : Last(<<x, y>>) = y
  BY DEF Last
<1>3. name \in {<<".dockerenv">>, <<"Dockerfile">>}
        \/ name \in {<<"dev", "console">>, <<"dev", "pts">>, <<"dev", "shm">>, <<"etc", "hostname">>,
                     <<"etc", "hosts">>, <<"etc", "resolv.conf">>}
  BY DEF Exclude, Replace, EtcHosts, ResolvConf
<1>4. \/ \E x \in {".dockerenv", "Dockerfile"} : name = <<x>>
      \/ \E x \in {"dev", "etc"}, y \in {"console", "pts", "shm", "hostname", "hosts", "resolv.conf"} : name = <<x, y>>
  BY <1>3
<1>5. ASSUME NEW x \in {".dockerenv", "Dockerfile"}, name = <<x>> PROVE Last(name) # ""
  BY <1>1, <1>5
<1>6. ASSUME NEW x, NEW y \in {"console", "pts", "shm", "hostname", "hosts", "resolv.conf"}, name = <<x, y>>
      PROVE  Last(name) # ""
  <2>1. Last(<<x, y>>) = y
    BY <1>2
  <2> QED
    BY <1>6, <2>1
<1> QED
  BY <1>4, <1>5, <1>6

LEMMA ImageEntryAssembly ==
  ASSUME AllTidy, BuildInv, AssemblyInv, ImageEntry
  PROVE  AssemblyInv'
<1> DEFINE e     == Now.e
           moved == [e EXCEPT !.name = Now.prefix \o @,
                              !.link = IF e.type = "link" THEN Now.prefix \o @ ELSE @]
           away  == Symlink(moved.name, Now.resolv)
           other == [moved EXCEPT !.body = Default(e.name)]
<1>1. todo # <<>> /\ todo[1].do = "entry" /\ IsItem(Now)
  BY AtHead DEF ImageEntry
<1>2. /\ Now = todo[1] /\ Sound(Now) /\ 1 \in DOMAIN todo /\ IsList(todo)
      /\ \A d \in Needs(Now) : d \in DirsOf(out)
  BY <1>1, HeadSound
<1>3. /\ IsEntry(e) /\ Tidy(e) /\ IsList(Now.prefix) /\ Place(Now.prefix) /\ Now.to \in {"kernel", "tar"}
      /\ Now.to = "kernel" => Now.prefix = None
  BY <1>1, <1>2 DEF IsItem, Sound, OfImage, Outputs
<1>4. /\ moved.name = Now.prefix \o e.name /\ moved.type = e.type
      /\ other.name = Now.prefix \o e.name /\ other.type = e.type
      /\ away.name = Now.prefix \o e.name /\ away.type = "symlink"
  BY <1>3 DEF IsEntry, Symlink
<1>5. UNCHANGED <<cfg, added, dup, bundles>>
  BY DEF ImageEntry
<1>6. \/ Fail /\ UNCHANGED <<out, kf, seen>>
      \/ Emit(<<>>, <<>>) /\ seen' = seen /\ e.name \in Exclude \cup Replace
      \/ Emit(<<away>>, <<>>) /\ seen' = seen /\ e.name \in Exclude \cup Replace
      \/ Emit(<<other>>, <<>>) /\ seen' = seen /\ e.name \in Exclude \cup Replace
      \/ Emit(<<moved>>, <<>>) /\ seen' = seen \cup ({e.name} \cap TouchKeys)
  BY ZenonT(60) DEF ImageEntry
<1> HIDE DEF away, other, moved, e
<1>7. /\ Named(e.name) /\ (e.type = "dir" <=> Last(e.name) = "")
      /\ IsList(e.name) /\ e.name # <<>> /\ e.name[1] # "containers"
  BY <1>3, NamedIs DEF Tidy
<1>8. ~IsOwn(Now.prefix \o e.name)
  BY <1>3, <1>7, BelowRoot
<1>9. Now.to # "kernel" => Above(Now.prefix \o e.name) \subseteq DirsOf(out)
  BY <1>1, <1>2, <1>3 DEF Needs, e
<1>10. ASSUME NEW x, x.name = Now.prefix \o e.name
       PROVE  IsList(<<x>>) /\ (Now.to # "kernel" => Supports(<<x>>, DirsOf(out)) /\ Others(<<x>>))
  BY <1>8, <1>9, <1>10, OneEntry, SupportsOne, OthersOne
<1>11. e.name \in Exclude \cup Replace => Makes(todo[1]) = {}
  <2>1. e.name \in Exclude \cup Replace => e.type # "dir"
    BY <1>7, LastNotSlash
  <2> QED
    BY <1>1, <1>2, <2>1 DEF Makes, e
<1>12. CASE Fail /\ UNCHANGED <<out, kf, seen>>
  BY <1>5, <1>12, EndedAssembly DEF Fail
<1>13. CASE Emit(<<>>, <<>>) /\ seen' = seen /\ e.name \in Exclude \cup Replace
  <2> DEFINE l == <<>>
  <2>1. IsList(l) /\ Supports(l, DirsOf(out)) /\ Others(l)
    BY NoEntries
  <2>2. Emit(l, <<>>)
    BY <1>13
  <2> HIDE DEF l
  <2> QED
    BY <1>1, <1>5, <1>11, <1>13, <2>1, <2>2, OneAssembly
<1>14. ASSUME NEW x \in {away, other}, Emit(<<x>>, <<>>), seen' = seen, e.name \in Exclude \cup Replace
       PROVE  AssemblyInv'
  <2>1. IsList(<<x>>) /\ (Now.to # "kernel" => Supports(<<x>>, DirsOf(out)) /\ Others(<<x>>))
    BY <1>4, <1>10
  <2> QED
    BY <1>1, <1>5, <1>11, <1>14, <2>1, OneAssembly
<1>15. CASE Emit(<<moved>>, <<>>) /\ seen' = seen \cup ({e.name} \cap TouchKeys)
  <2>1. IsList(<<moved>>) /\ (Now.to # "kernel" => Supports(<<moved>>, DirsOf(out)) /\ Others(<<moved>>))
    BY <1>4, <1>10
  <2>2. /\ Moves(<<>>) /\ DirsOf(out) \subseteq DirsOf(out')
        /\ Now.to # "kernel" => DirsOf(out') = DirsOf(out) \cup DirsOf(<<moved>>)
    BY <1>15, <2>1, NoneFits, EmitMade DEF AssemblyInv
  <2>3. Now.to # "kernel" /\ e.type = "dir" => Bare(Now.prefix \o e.name) \in DirsOf(out')
    <3>1. Now.to # "kernel" => Supports(<<moved>>, DirsOf(out))
      BY <2>1
    <3>2. Now.to # "kernel" => DirsOf(<<moved>>) = (IF moved.type = "dir" THEN {Bare(moved.name)} ELSE {})
      BY <1>4, <1>9, SupportsOne
    <3> QED
      BY <1>4, <2>2, <3>2
  <2>4. Makes(todo[1]) \subseteq DirsOf(out')
    BY <1>1, <1>2, <2>3 DEF Makes, e
  <2>5. SeenMade'
    <3> DEFINE l == todo'
    <3>1. ASSUME NEW k \in DOMAIN l, l[k].do \in OfImage, l[k].to = "tar", NEW key \in seen', Last(key) = ""
          PROVE  l[k].prefix \o Front(key) \in DirsOf(out')
      <4>1. PICK m \in DOMAIN todo : m > 1 /\ l[k] = todo[m]
        BY <1>1, <1>2, <2>2, TailItem
      <4> HIDE DEF l
      <4>2. Orderly(todo[1], todo[m])
        BY <1>2, <4>1 DEF AssemblyInv, SoundInv, Order
      <4>3. l[k].prefix = Now.prefix /\ Now.to = "tar"
        BY <1>2, <3>1, <4>1, <4>2 DEF Orderly
      <4>4. CASE key \in seen
        BY <2>2, <3>1, <4>1, <4>4 DEF AssemblyInv, TreeInv, SeenMade
      <4>5. CASE key \notin seen
        <5>1. key = e.name
          BY <1>15, <4>5
        <5>2. e.type = "dir" /\ Now.to # "kernel"
          BY <1>7, <3>1, <4>3, <5>1
        <5>3. Bare(Now.prefix \o e.name) = Now.prefix \o Bare(e.name) /\ Bare(e.name) = Front(e.name)
          BY <1>3, <1>7, <3>1, <5>1, BareMoved, BareIs
        <5> QED
          BY <2>3, <4>3, <5>1, <5>2, <5>3
      <4> QED
        BY <4>4, <4>5
    <3> QED
      BY <3>1 DEF SeenMade
  <2> QED
    BY <1>1, <1>5, <1>15, <2>1, <2>4, <2>5, OneAssembly
<1> QED
  BY <1>6, <1>12, <1>13, <1>14, <1>15

(***************************************************************************)
(* An image is opened                                                      *)
(***************************************************************************)
LEMMA WholePart ==
  ASSUME NEW s, IsList(s), s # <<>>
  PROVE  Len(s) \in DOMAIN s /\ SubSeq(s, 1, Len(s)) = s
<1>1. Len(s) \in Nat /\ DOMAIN s = 1..Len(s) /\ Len(s) # 0
  BY ListDomain
<1>2. Len(s) \in DOMAIN s /\ Len(s) \in 0..Len(s)
  BY <1>1
<1>3. /\ IsList(SubSeq(s, 1, Len(s))) /\ Len(SubSeq(s, 1, Len(s))) = Len(s)
      /\ \A i \in 1..Len(s) : SubSeq(s, 1, Len(s))[i] = s[i]
  BY <1>2, HeadPart
<1> QED
  BY <1>2, <1>3, SameList

\* The directories of a place are its own, and the place is the last of them.
LEMMA PlaceMade ==
  ASSUME NEW prefix, IsList(prefix), prefix = None \/ Place(prefix) \/ Spot(prefix), NEW D
  PROVE  /\ IsList(TarPrefix(prefix)) /\ Supports(TarPrefix(prefix), D) /\ Others(TarPrefix(prefix))
         /\ DirsOf(TarPrefix(prefix)) = {SubSeq(prefix, 1, i) : i \in DOMAIN prefix}
         /\ prefix # None => prefix \in DirsOf(TarPrefix(prefix))
<1>1. \A i \in DOMAIN prefix : ~IsOwn(SubSeq(prefix, 1, i)) /\ prefix[i] # ""
  <2>1. CASE prefix = None
    BY <2>1, EmptyList DEF None
  <2>2. CASE prefix # None
    BY <2>2, PrefixNotOwn
  <2> QED
    BY <2>1, <2>2
<1>2. /\ IsList(TarPrefix(prefix)) /\ Supports(TarPrefix(prefix), D)
      /\ DirsOf(TarPrefix(prefix)) = {SubSeq(prefix, 1, i) : i \in DOMAIN prefix}
  BY <1>1, PrefixMade
<1>3. Others(TarPrefix(prefix))
  <2>1. \A i \in DOMAIN prefix : TarPrefix(prefix)[i].name = SubSeq(prefix, 1, i)
    BY <1>1, PrefixEntry
  <2>2. DOMAIN TarPrefix(prefix) = DOMAIN prefix
    BY DEF TarPrefix
  <2> QED
    BY <1>1, <2>1, <2>2 DEF Others
<1>4. prefix # None => prefix \in DirsOf(TarPrefix(prefix))
  BY <1>2, WholePart DEF None
<1> QED
  BY <1>2, <1>3, <1>4

\* What an image is opened to: its entries, and the touched files behind them.
EntryOf(t, e) == [do |-> "entry", e |-> e, prefix |-> t.prefix, to |-> t.to, resolv |-> t.resolv]
TouchOf(t)    == [do |-> "touch", prefix |-> t.prefix, to |-> t.to, resolv |-> t.resolv]
Opened(t)     == [i \in DOMAIN Tars[t.image] |-> EntryOf(t, Tars[t.image][i])] \o <<TouchOf(t)>>

LEMMA OpenedIs ==
  ASSUME NEW t, t.image \in DOMAIN Tars
  PROVE  /\ IsList(Opened(t)) /\ Len(Tars[t.image]) \in Nat /\ DOMAIN Tars[t.image] = 1..Len(Tars[t.image])
         /\ DOMAIN Opened(t) = 1..(Len(Tars[t.image]) + 1)
         /\ \A i \in 1..Len(Tars[t.image]) : Opened(t)[i] = EntryOf(t, Tars[t.image][i])
         /\ Opened(t)[Len(Tars[t.image]) + 1] = TouchOf(t)
<1> DEFINE es    == Tars[t.image]
           entry == [i \in DOMAIN es |-> EntryOf(t, es[i])]
           b     == <<TouchOf(t)>>
<1>1. Len(es) \in Nat /\ DOMAIN es = 1..Len(es)
  BY ArchivesAssumption, ListDomain DEF IsArchive
<1>2. /\ entry = [i \in 1..Len(es) |-> entry[i]] /\ \A i \in 1..Len(es) : entry[i] = EntryOf(t, es[i])
  BY <1>1
<1>3. IsList(b) /\ Len(b) = 1 /\ DOMAIN b = 1..1 /\ b[1] = TouchOf(t)
  BY OneEntry
<1>4. Opened(t) = entry \o b
  BY DEF Opened
<1> HIDE DEF es, entry, b
<1>5. IsList(entry) /\ Len(entry) = Len(es)
  BY <1>1, <1>2, Listed
<1>6. /\ IsList(entry \o b) /\ DOMAIN (entry \o b) = 1..(Len(entry) + Len(b))
      /\ \A k \in 1..Len(entry) : (entry \o b)[k] = entry[k]
      /\ \A k \in 1..Len(b) : (entry \o b)[Len(entry) + k] = b[k]
  <2>1. IsList(entry) /\ IsList(b)
    BY <1>3, <1>5
  <2> QED
    BY <2>1, ListConcat
<1>7. (entry \o b)[Len(es) + 1] = TouchOf(t)
  BY <1>3, <1>5, <1>6
<1> QED
  BY <1>1, <1>2, <1>3, <1>4, <1>5, <1>6, <1>7 DEF es

LEMMA UpToNext ==
  ASSUME NEW n \in Nat, NEW i \in 1..(n + 1)
  PROVE  i \in 1..n \/ i = n + 1
OBVIOUS

LEMMA NotPast ==
  ASSUME NEW n \in Nat, NEW i \in 1..(n + 1), NEW j \in 1..(n + 1), i < j
  PROVE  i \in 1..n
OBVIOUS

LEMMA OpenedFits ==
  ASSUME AllTidy, todo # <<>>, NEW t, t.do = "image", t.image \in DOMAIN Tars, t = todo[1], Sound(t)
  PROVE  Fits(Opened(t)) /\ \A i \in DOMAIN Opened(t) : Opened(t)[i].do \in OfImage
<1> DEFINE es == Tars[t.image]
           items == Opened(t)
           n == Len(es)
<1>1. /\ n \in Nat /\ DOMAIN es = 1..n /\ DOMAIN items = 1..(n + 1)
      /\ \A i \in 1..n : items[i] = EntryOf(t, es[i])
      /\ items[n + 1] = TouchOf(t)
  BY OpenedIs
<1>2. IsList(t.prefix) /\ Place(t.prefix) /\ t.to \in {"kernel", "tar"} /\ (t.to = "kernel" => t.prefix = None)
  BY DEF Sound, OfImage, Outputs
<1>3. \A i \in DOMAIN es : Tidy(es[i])
  BY DEF AllTidy, ImagesTidy
<1>4. \A e : Tidy(e) => Sound(EntryOf(t, e))
  BY <1>2 DEF Sound, EntryOf, OfImage, Outputs, Placing
<1>5. Sound(TouchOf(t))
  BY <1>2 DEF Sound, TouchOf, OfImage, Outputs, Placing
<1>6. \A e : EntryOf(t, e).do = "entry" /\ EntryOf(t, e).prefix = t.prefix /\ EntryOf(t, e).to = t.to
  BY DEF EntryOf
<1>7. TouchOf(t).do = "touch" /\ TouchOf(t).prefix = t.prefix /\ TouchOf(t).to = t.to
  BY DEF TouchOf
<1> HIDE DEF es, items, n
<1>8. ASSUME NEW i \in DOMAIN items
      PROVE  /\ Sound(items[i]) /\ items[i].do \in {"entry", "touch"} /\ items[i].prefix = t.prefix /\ items[i].to = t.to
             /\ i \in 1..n => items[i].do = "entry"
  <2>1. CASE i \in 1..n
    BY <1>1, <1>3, <1>4, <1>6, <2>1
  <2>2. CASE i = n + 1
    <3>1. i \notin 1..n
      BY <1>1, <2>2
    <3> QED
      BY <1>1, <1>5, <1>7, <2>2, <3>1
  <2> QED
    BY <1>1, <1>8, <2>1, <2>2, UpToNext
<1>9. ASSUME NEW i \in DOMAIN items, NEW j \in DOMAIN items, i < j
      PROVE  Orderly(items[i], items[j])
  <2>1. i \in 1..n
    BY <1>1, <1>9, NotPast
  <2>2. items[i].do = "entry" /\ items[i].prefix = items[j].prefix /\ items[i].to = items[j].to /\ items[j].do \in {"entry", "touch"}
    BY <1>8, <2>1
  <2> QED
    BY <2>2 DEF Orderly
<1> QED
  BY <1>8, <1>9 DEF Fits, OfImage, items

LEMMA OpenedSupplied ==
  ASSUME AllTidy, NEW t, t.do = "image", t.image \in DOMAIN Tars, t.to = "tar", IsList(t.prefix),
         NEW D, t.prefix # None => t.prefix \in D,
         NEW i \in DOMAIN Opened(t), NEW d \in Needs(Opened(t)[i])
  PROVE  d \in D \/ \E j \in 1..(i - 1) : d \in Makes(Opened(t)[j])
<1> DEFINE es == Tars[t.image]
           items == Opened(t)
           n == Len(es)
<1>1. /\ n \in Nat /\ DOMAIN es = 1..n /\ DOMAIN items = 1..(n + 1)
      /\ \A k \in 1..n : items[k] = EntryOf(t, es[k])
      /\ items[n + 1] = TouchOf(t)
  BY OpenedIs
<1>2. \A k \in DOMAIN es : Tidy(es[k])
  BY DEF AllTidy, ImagesTidy
<1>3. Supports(es, {})
  BY TreeIs DEF AllTidy, ImagesTidy
<1>4. \A e : /\ Needs(EntryOf(t, e)) = Above(t.prefix \o e.name)
             /\ e.type = "dir" => Makes(EntryOf(t, e)) = {Bare(t.prefix \o e.name)}
  BY DEF Needs, Makes, EntryOf
<1>5. Needs(TouchOf(t)) = {t.prefix} \ {None}
  BY DEF Needs, TouchOf
<1> HIDE DEF es, items, n
<1>6. i \in DOMAIN items /\ d \in Needs(items[i])
  BY DEF items
<1>7. CASE i \in 1..n
  <2>1. Named(es[i].name) /\ d \in Above(t.prefix \o es[i].name)
    BY <1>1, <1>2, <1>4, <1>6, <1>7 DEF Tidy
  <2>2. CASE t.prefix # None /\ d = t.prefix
    BY <2>2
  <2>3. CASE Above(es[i].name) = {Front(Bare(es[i].name))} /\ d = t.prefix \o Front(Bare(es[i].name))
    <3>1. PICK j \in 1..(i - 1) : es[j].type = "dir" /\ Bare(es[j].name) = Front(Bare(es[i].name))
      BY <1>1, <1>3, <1>7, <2>3 DEF Supports
    <3>2. j \in 1..n
      BY <1>1, <1>7, <3>1
    <3>3. Named(es[j].name)
      BY <1>1, <1>2, <3>2 DEF Tidy
    <3>4. IsList(es[j].name) /\ es[j].name # <<>>
      BY <3>3, NamedIs
    <3>5. Bare(t.prefix \o es[j].name) = t.prefix \o Bare(es[j].name)
      BY <3>4, BareMoved
    <3>6. d \in Makes(items[j])
      BY <1>1, <1>4, <2>3, <3>1, <3>2, <3>5
    <3> QED
      BY <3>1, <3>6 DEF items
  <2> QED
    BY <2>1, <2>2, <2>3, AboveMoved
<1>8. CASE i = n + 1
  BY <1>1, <1>5, <1>6, <1>8
<1> QED
  BY <1>1, <1>6, <1>7, <1>8, UpToNext

LEMMA OpenImageAssembly ==
  ASSUME AllTidy, BuildInv, AssemblyInv, OpenImage
  PROVE  AssemblyInv'
<1> DEFINE es == TarPrefix(Now.prefix)
           items == Opened(Now)
<1>1. todo # <<>> /\ todo[1].do = "image" /\ IsItem(Now)
  BY AtHead DEF OpenImage
<1>2. Now = todo[1] /\ Sound(Now)
  BY <1>1, HeadSound
<1>3. /\ Now.image \in DOMAIN Tars /\ Now.do = "image" /\ Now.to \in {"kernel", "tar"} /\ IsList(Now.prefix) /\ Place(Now.prefix)
  BY <1>1, <1>2 DEF IsItem, Sound, OfImage
<1>4. /\ Emit(es, items) /\ UNCHANGED <<cfg, added, dup, bundles>> /\ seen' = {}
  BY DEF OpenImage, Opened, EntryOf, TouchOf
<1>5. /\ IsList(es) /\ Supports(es, DirsOf(out)) /\ Others(es)
      /\ DirsOf(es) = {SubSeq(Now.prefix, 1, i) : i \in DOMAIN Now.prefix}
      /\ Now.prefix # None => Now.prefix \in DirsOf(es)
  BY <1>3, PlaceMade
<1>6. Fits(items) /\ \A i \in DOMAIN items : items[i].do \in OfImage
  BY <1>1, <1>2, <1>3, OpenedFits
<1>7. IsList(items)
  BY <1>3, OpenedIs
<1> HIDE DEF es
<1>8. Now.to # "kernel" => DirsOf(out') = DirsOf(out) \cup DirsOf(es)
  <2> HIDE DEF items
  <2> QED
    BY <1>4, <1>5, <1>7, EmitMade DEF AssemblyInv
<1>9. DirsOf(out) \subseteq DirsOf(out')
  <2> HIDE DEF items
  <2> QED
    BY <1>4, <1>5, <1>7, EmitMade DEF AssemblyInv
<1>10. Supply(items)
  <2>1. CASE Now.to = "tar"
    <3>1. DirsOf(es) \subseteq DirsOf(out')
      BY <1>8, <2>1
    <3>2. \A d \in Makes(todo[1]) : d \in DirsOf(out')
      BY <1>2, <1>3, <1>5, <2>1, <3>1 DEF Makes
    <3>3. Now.prefix # None => Now.prefix \in DirsOf(out')
      BY <1>5, <3>1
    <3>4. ASSUME NEW i \in DOMAIN items, NEW d \in Needs(items[i])
          PROVE  d \in DirsOf(out') \/ \E j \in 1..(i - 1) : d \in Makes(items[j])
      BY <1>3, <2>1, <3>3, <3>4, OpenedSupplied
    <3> QED
      BY <3>2, <3>4 DEF Supply
  <2>2. CASE Now.to = "kernel"
    <3>1. Makes(todo[1]) = {}
      BY <1>2, <1>3, <2>2 DEF Makes
    <3>2. ASSUME NEW i \in DOMAIN items
          PROVE  Needs(items[i]) = {}
      <4>1. \A e : Needs(EntryOf(Now, e)) = {}
        BY <2>2 DEF Needs, EntryOf
      <4>2. Needs(TouchOf(Now)) = {}
        BY <2>2 DEF Needs, TouchOf
      <4>3. items[i] = TouchOf(Now) \/ \E e : items[i] = EntryOf(Now, e)
        BY <1>3, <3>2, OpenedIs, UpToNext
      <4> QED
        BY <4>1, <4>2, <4>3
    <3> QED
      BY <3>1, <3>2 DEF Supply
  <2> QED
    BY <1>3, <2>1, <2>2
<1> HIDE DEF items
<1>11. SeenMade' /\ AddedMade'
  BY <1>4, <1>9 DEF SeenMade, AddedMade, AssemblyInv, TreeInv
<1>12. \A i \in DOMAIN items : items[i].do \notin Placing
  BY <1>6 DEF OfImage, Placing
<1> QED
  BY <1>1, <1>4, <1>5, <1>6, <1>7, <1>10, <1>11, <1>12, PlainAssembly

(***************************************************************************)
(* The touched files                                                       *)
(***************************************************************************)

\* What a selection takes stands in the order of the list.
InOrder(m, s, T) ==
  \A i \in DOMAIN m : \E k \in DOMAIN s :
    /\ m[i] = s[k] /\ s[k] \in T
    /\ \A j \in 1..(k - 1) : s[j] \in T => \E l \in 1..(i - 1) : m[l] = s[j]

LEMMA MatchingInOrder ==
  ASSUME NEW s, IsList(s), NEW T
  PROVE  IsList(Matching(s, T)) /\ InOrder(Matching(s, T), s, T)
<1> DEFINE m == Matching(s, T)
           S == ToSet(s)
<1>1. s \in Seq(S)
  BY DEF IsList
<1>2. m \in Seq(S) /\ \E h : Picks(m, s, T, Len(s), h)
  <2> HIDE DEF S
  <2> QED
    BY <1>1, MatchingIs
<1> HIDE DEF m, S
<1>3. PICK h : Picks(m, s, T, Len(s), h)
  BY <1>2
<1>4. /\ DOMAIN m = 1..Len(m) /\ Len(m) \in Nat /\ DOMAIN s = 1..Len(s) /\ Len(s) \in Nat
  BY <1>1, <1>2
<1>5. ASSUME NEW i \in DOMAIN m
      PROVE  \E k \in DOMAIN s :
               /\ m[i] = s[k] /\ s[k] \in T
               /\ \A j \in 1..(k - 1) : s[j] \in T => \E l \in 1..(i - 1) : m[l] = s[j]
  <2>1. h[i] \in DOMAIN s /\ m[i] = s[h[i]] /\ s[h[i]] \in T
    BY <1>3, <1>4 DEF Picks
  <2>2. ASSUME NEW j \in 1..(h[i] - 1), s[j] \in T
        PROVE  \E l \in 1..(i - 1) : m[l] = s[j]
    <3>1. j \in 1..Len(s) /\ j < h[i]
      BY <1>4, <2>1
    <3>2. PICK l \in 1..Len(m) : h[l] = j
      BY <1>3, <2>2, <3>1 DEF Picks
    <3>3. m[l] = s[j]
      BY <1>3, <3>2 DEF Picks
    <3>4. ~(i < l) /\ i # l
      <4>1. i < l => h[i] < h[l]
        BY <1>3, <1>4, <3>2 DEF Picks
      <4>2. h[i] \in Int /\ j \in Int
        BY <1>4, <2>1, <3>1
      <4> QED
        BY <3>1, <3>2, <4>1, <4>2
    <3>5. l \in 1..(i - 1)
      BY <1>4, <3>2, <3>4
    <3> QED
      BY <3>3, <3>5
  <2> QED
    BY <2>1, <2>2
<1>6. IsList(m)
  BY <1>2, ListIs
<1> QED
  BY <1>5, <1>6 DEF m, InOrder

LEMMA TwoIsMore == 2 > 1 /\ 2 # 0
OBVIOUS

LEMMA OneNamed ==
  ASSUME NEW x, x \notin {"", "containers"}
  PROVE  Named(<<x>>) /\ Above(<<x>>) = {} /\ Bare(<<x>>) = <<x>>
<1>1. Bare(<<x>>) = <<x>> /\ Above(<<x>>) = {}
  BY OneName
<1>2. IsList(<<x>>) /\ <<x>>[1] = x
  BY OneEntry
<1>3. <<x>> # <<>>
  OBVIOUS
<1> QED
  BY <1>1, <1>2, <1>3 DEF Named, None

LEMMA TwoIs ==
  ASSUME NEW x, NEW y
  PROVE  /\ IsList(<<x, y>>) /\ Len(<<x, y>>) = 2 /\ <<x, y>>[1] = x /\ <<x, y>> # <<>>
         /\ Last(<<x, y>>) = y /\ Front(<<x, y>>) = <<x>>
<1> DEFINE s == <<x, y>>
<1>1. s \in Seq({x, y}) /\ Len(s) = 2 /\ s[1] = x /\ s[2] = y
  OBVIOUS
<1> HIDE DEF s
<1>2. Last(s) = y /\ Front(s) = <<x>> /\ s # <<>>
  <2>1. s # <<>>
    BY <1>1, TwoIsMore, EmptyList, Zenon
  <2>2. /\ IsList(Front(s)) /\ Len(Front(s)) \in Nat /\ Len(s) = Len(Front(s)) + 1
        /\ \A i \in 1..Len(Front(s)) : Front(s)[i] = s[i]
        /\ Last(s) = s[Len(s)]
    <3>1. IsList(s)
      BY <1>1, ListIs
    <3> QED
      BY <2>1, <3>1, FrontIs, Zenon
  <2>3. Len(Front(s)) = 1
    <3>1. Len(s) = 2 /\ Len(Front(s)) \in Nat /\ Len(s) = Len(Front(s)) + 1
      BY <1>1, <2>2, Zenon
    <3>2. \A n \in Nat : 2 = n + 1 => n = 1
      OBVIOUS
    <3> QED
      BY <3>1, <3>2, Zenon
  <2>4. Front(s)[1] = x
    <3>1. 1 \in 1..1
      OBVIOUS
    <3> QED
      BY <1>1, <2>2, <2>3, <3>1, Zenon
  <2>5. IsList(<<x>>) /\ Len(<<x>>) = 1 /\ <<x>>[1] = x
    BY OneEntry
  <2>6. \A i \in 1..Len(Front(s)) : Front(s)[i] = <<x>>[i]
    BY <2>3, <2>4, <2>5
  <2>7. Front(s) = <<x>>
    BY <2>2, <2>3, <2>5, <2>6, SameList
  <2> QED
    BY <1>1, <2>1, <2>2, <2>7, Zenon
<1>3. IsList(s)
  BY <1>1, ListIs
<1> QED
  BY <1>1, <1>2, <1>3 DEF s

LEMMA TwoNamed ==
  ASSUME NEW x, NEW y, x # "containers", y # ""
  PROVE  Named(<<x, y>>) /\ Above(<<x, y>>) = {<<x>>}
<1> DEFINE s == <<x, y>>
<1>1. IsList(s) /\ Len(s) = 2 /\ s[1] = x /\ s # <<>> /\ Last(s) = y /\ Front(s) = <<x>>
  BY TwoIs, Zenon
<1> HIDE DEF s
<1>2. Bare(s) = s
  BY <1>1, Zenon DEF Bare
<1>3. Len(Bare(s)) > 1
  BY <1>1, <1>2, TwoIsMore, Zenon
<1>4. Above(s) = {<<x>>}
  BY <1>1, <1>2, <1>3, Zenon DEF Above
<1>5. Named(s)
  BY <1>1, <1>2, Zenon DEF Named, None
<1> QED
  BY <1>4, <1>5 DEF s

\* The touched files, and the directories they lie in.
LEMMA TouchIs ==
  /\ DOMAIN Touch = 1..10 /\ IsList(Touch)
  /\ Touch[1] = Dir(<<"dev">>) /\ Touch[5] = Dir(<<"etc">>)
  /\ Touch[1].name = <<"dev">> /\ Touch[2].name = <<"dev", "console">> /\ Touch[3].name = <<"dev", "pts">>
  /\ Touch[4].name = <<"dev", "shm">> /\ Touch[5].name = <<"etc">> /\ Touch[6].name = <<"etc", "hosts">>
  /\ Touch[7].name = <<"etc", "mtab">> /\ Touch[8].name = <<"etc", "resolv.conf">>
  /\ Touch[9].name = <<"proc">> /\ Touch[10].name = <<"sys">>
<1>1. DOMAIN Touch = 1..10
  BY DEF Touch
<1>2. IsList(Touch)
  BY TouchType DEF IsArchive
<1>3. /\ Touch[1].name = <<"dev">> /\ Touch[2].name = <<"dev", "console">> /\ Touch[3].name = <<"dev", "pts">>
      /\ Touch[4].name = <<"dev", "shm">> /\ Touch[5].name = <<"etc">> /\ Touch[6].name = <<"etc", "hosts">>
      /\ Touch[7].name = <<"etc", "mtab">> /\ Touch[8].name = <<"etc", "resolv.conf">>
      /\ Touch[9].name = <<"proc">> /\ Touch[10].name = <<"sys">>
  <2> DEFINE mounts == <<"", "proc", "mounts">>
  <2>1. Symlink(<<"etc", "mtab">>, mounts) = Touch[7]
    BY ZenonT(60) DEF Touch
  <2> HIDE DEF mounts
  <2> QED
    BY <2>1 DEF Touch, Dir, Char, Reg, Symlink, EtcHosts, ResolvConf
<1>4. Touch[1] = Dir(<<"dev">>) /\ Touch[5] = Dir(<<"etc">>)
  BY DEF Touch
<1> QED
  BY <1>1, <1>2, <1>3, <1>4

LEMMA TouchAbove ==
  ASSUME NEW k \in DOMAIN Touch
  PROVE  /\ Named(Touch[k].name)
         /\ \A d \in Above(Touch[k].name) :
              \E p \in {1, 5} : p \in 1..(k - 1) /\ p \in DOMAIN Touch /\ \E x \in {"dev", "etc"} : Touch[p] = Dir(<<x>>) /\ d = <<x>>
<1>1. k \in {1, 2, 3, 4, 5, 6, 7, 8, 9, 10}
  BY TouchIs
<1>2. /\ \A x \in {"dev", "etc", "proc", "sys"} : Named(<<x>>) /\ Above(<<x>>) = {}
      /\ \A x \in {"dev", "etc"}, y \in {"console", "pts", "shm", "hosts", "mtab", "resolv.conf"} :
           Named(<<x, y>>) /\ Above(<<x, y>>) = {<<x>>}
  BY OneNamed, TwoNamed
<1>3. \A x \in {"dev", "etc", "proc", "sys"} : Touch[k].name = <<x>> => Named(Touch[k].name) /\ Above(Touch[k].name) = {}
  BY <1>2
<1>4. k \in {1, 5, 9, 10} => Named(Touch[k].name) /\ Above(Touch[k].name) = {}
  BY <1>3, TouchIs
<1>5. k \in {2, 3, 4} => Named(Touch[k].name) /\ Above(Touch[k].name) = {<<"dev">>}
  BY <1>2, TouchIs, ZenonT(60)
<1>6. k \in {6, 7, 8} => Named(Touch[k].name) /\ Above(Touch[k].name) = {<<"etc">>}
  BY <1>2, TouchIs
<1>7. (k \in {2, 3, 4} => 1 \in 1..(k - 1)) /\ (k \in {6, 7, 8} => 5 \in 1..(k - 1))
  OBVIOUS
<1>8. 1 \in DOMAIN Touch /\ 5 \in DOMAIN Touch
  BY TouchIs
<1> QED
  BY <1>1, <1>4, <1>5, <1>6, <1>7, <1>8, TouchIs

\* What becomes of a touched file.
LEMMA MadeIs ==
  ASSUME NEW resolv
  PROVE  /\ \A k \in DOMAIN Touch : IsEntry(Made(Touch[k], resolv)) /\ Made(Touch[k], resolv).name = Touch[k].name
         /\ \A x \in {"dev", "etc"} : Made(Dir(<<x>>), resolv) = Dir(<<x>>) /\ Key(Dir(<<x>>)) = Append(<<x>>, "")
<1>1. ASSUME NEW k \in DOMAIN Touch
      PROVE  IsEntry(Made(Touch[k], resolv)) /\ Made(Touch[k], resolv).name = Touch[k].name
  <2>1. IsEntry(Touch[k])
    BY TouchType DEF IsArchive
  <2> QED
    BY <2>1, EntriesMade DEF Made, Symlink, Reg
<1>2. ASSUME NEW x \in {"dev", "etc"}
      PROVE  Made(Dir(<<x>>), resolv) = Dir(<<x>>) /\ Key(Dir(<<x>>)) = Append(<<x>>, "")
  <2>1. Dir(<<x>>).name = <<x>> /\ Dir(<<x>>).type = "dir"
    BY DEF Dir
  <2>2. <<x>> \notin Replace /\ <<x>> # ResolvConf
    BY DEF Replace, EtcHosts, ResolvConf
  <2> QED
    BY <2>1, <2>2 DEF Made, Key
<1> QED
  BY <1>1, <1>2

Touches(es, m, prefix) ==
  \A i \in DOMAIN m, k \in DOMAIN Touch : m[i] = Touch[k] =>
    /\ es[i].name = prefix \o Touch[k].name
    /\ \A x \in {"dev", "etc"} : Touch[k] = Dir(<<x>>) => es[i].type = "dir"

LEMMA TouchedIs ==
  ASSUME NEW prefix, IsList(prefix), NEW resolv, NEW T, T = {e \in ToSet(Touch) : Key(e) \notin seen}
  PROVE  DOMAIN Touched(prefix, resolv) = DOMAIN Matching(Touch, T) /\ Touches(Touched(prefix, resolv), Matching(Touch, T), prefix)
<1> DEFINE m == Matching(Touch, T)
           f == [i \in DOMAIN m |-> [Made(m[i], resolv) EXCEPT !.name = prefix \o @]]
<1>1. Touched(prefix, resolv) = f
  BY DEF Touched
<1>2. DOMAIN f = DOMAIN m
  OBVIOUS
<1>3. ASSUME NEW i \in DOMAIN m, NEW k \in DOMAIN Touch, m[i] = Touch[k]
      PROVE  /\ f[i].name = prefix \o Touch[k].name
             /\ \A x \in {"dev", "etc"} : Touch[k] = Dir(<<x>>) => f[i].type = "dir"
  <2> DEFINE e == Made(m[i], resolv)
  <2>1. IsEntry(e) /\ e.name = Touch[k].name
    BY <1>3, MadeIs
  <2>2. ASSUME NEW x \in {"dev", "etc"}, Touch[k] = Dir(<<x>>)
        PROVE  e.type = "dir"
    <3>1. e = Dir(<<x>>)
      BY <1>3, <2>2, MadeIs
    <3> HIDE DEF e
    <3> QED
      BY <3>1, DirIs
  <2>3. f[i] = [e EXCEPT !.name = prefix \o @]
    OBVIOUS
  <2> HIDE DEF e, f
  <2> QED
    BY <2>1, <2>2, <2>3 DEF IsEntry
<1> HIDE DEF f
<1> QED
  BY <1>1, <1>2, <1>3 DEF Touches

LEMMA BeforeIn ==
  ASSUME NEW n \in Nat, NEW a \in 1..n, NEW c \in 1..(a - 1)
  PROVE  c \in 1..n
OBVIOUS

LEMMA TouchedSupports ==
  ASSUME NEW prefix, IsList(prefix), NEW resolv, NEW D, prefix # None => prefix \in D,
         \A key \in seen : Last(key) = "" => prefix \o Front(key) \in D
  PROVE  Supports(Touched(prefix, resolv), D)
<1>0. PICK T : T = {e \in ToSet(Touch) : Key(e) \notin seen}
  OBVIOUS
<1> DEFINE m  == Matching(Touch, T)
           es == Touched(prefix, resolv)
<1>1. \A e \in ToSet(Touch) : e \notin T => Key(e) \in seen
  BY <1>0
<1>12. IsList(m) /\ InOrder(m, Touch, T)
  <2>1. IsList(Touch)
    BY TouchIs
  <2> QED
    BY <2>1, MatchingInOrder, Zenon
<1>11. DOMAIN es = DOMAIN m /\ Touches(es, m, prefix)
  BY <1>0, TouchedIs, Zenon
<1>10. IsList(m) /\ DOMAIN es = DOMAIN m
  BY <1>11, <1>12
<1> HIDE DEF m, es
<1>2. ASSUME NEW i \in DOMAIN es, NEW d \in Above(es[i].name)
      PROVE  d \in D \/ \E j \in 1..(i - 1) : es[j].type = "dir" /\ Bare(es[j].name) = d
  <2>1. PICK k \in DOMAIN Touch :
           /\ m[i] = Touch[k] /\ Touch[k] \in T
           /\ \A j \in 1..(k - 1) : Touch[j] \in T => \E l \in 1..(i - 1) : m[l] = Touch[j]
    BY <1>2, <1>10, <1>12 DEF InOrder
  <2>2. es[i].name = prefix \o Touch[k].name
    BY <1>2, <1>10, <1>11, <2>1 DEF Touches
  <2>3. Named(Touch[k].name)
    BY TouchAbove
  <2>4. CASE prefix # None /\ d = prefix
    BY <2>4
  <2>5. CASE Above(Touch[k].name) = {Front(Bare(Touch[k].name))} /\ d = prefix \o Front(Bare(Touch[k].name))
    <3>1. PICK p \in {1, 5} : p \in 1..(k - 1) /\ p \in DOMAIN Touch
                                /\ \E x \in {"dev", "etc"} : Touch[p] = Dir(<<x>>) /\ Front(Bare(Touch[k].name)) = <<x>>
      BY <2>5, TouchAbove
    <3>2. PICK x \in {"dev", "etc"} : Touch[p] = Dir(<<x>>) /\ Front(Bare(Touch[k].name)) = <<x>>
      BY <3>1
    <3>3. d = prefix \o <<x>>
      BY <2>5, <3>2
    <3>4. CASE Touch[p] \in T
      <4>1. PICK l \in 1..(i - 1) : m[l] = Touch[p]
        BY <2>1, <3>1, <3>4
      <4>2. l \in DOMAIN m
        <5>1. DOMAIN m = 1..Len(m) /\ Len(m) \in Nat
          BY <1>10, ListDomain
        <5>2. i \in 1..Len(m)
          BY <1>2, <1>10, <5>1
        <5> QED
          BY <4>1, <5>1, <5>2, BeforeIn
      <4>3. es[l].name = prefix \o Touch[p].name /\ es[l].type = "dir"
        BY <1>11, <3>1, <3>2, <4>1, <4>2 DEF Touches
      <4>4. Touch[p].name = <<x>>
        BY <3>2, DirIs
      <4>5. Bare(prefix \o <<x>>) = prefix \o Bare(<<x>>) /\ Bare(<<x>>) = <<x>>
        <5>1. Named(<<x>>) /\ Bare(<<x>>) = <<x>>
          BY OneNamed
        <5>2. IsList(<<x>>) /\ <<x>> # <<>>
          BY <5>1, NamedIs
        <5> QED
          BY <5>1, <5>2, BareMoved
      <4> QED
        BY <3>3, <4>1, <4>3, <4>4, <4>5
    <3>5. CASE Touch[p] \notin T
      <4>1. Touch[p] \in ToSet(Touch)
        BY <3>1 DEF ToSet
      <4>2. Key(Touch[p]) \in seen
        BY <1>1, <3>5, <4>1
      <4>3. Append(<<x>>, "") \in seen
        BY <3>2, <4>2, MadeIs
      <4>4. Last(Append(<<x>>, "")) = "" /\ Front(Append(<<x>>, "")) = <<x>>
        <5>1. IsList(<<x>>)
          BY OneEntry
        <5> QED
          BY <5>1, AppendIs
      <4> QED
        BY <3>3, <4>3, <4>4
    <3> QED
      BY <3>4, <3>5
  <2> QED
    BY <1>2, <2>2, <2>3, <2>4, <2>5, AboveMoved
<1> QED
  BY <1>2 DEF Supports, es

LEMMA TouchFilesAssembly ==
  ASSUME AllTidy, BuildInv, AssemblyInv, TouchFiles
  PROVE  AssemblyInv'
<1> DEFINE es == Touched(Now.prefix, Now.resolv)
<1>1. todo # <<>> /\ todo[1].do = "touch" /\ IsItem(Now)
  BY AtHead DEF TouchFiles
<1>2. /\ Now = todo[1] /\ Sound(Now) /\ 1 \in DOMAIN todo
      /\ \A d \in Needs(Now) : d \in DirsOf(out)
  BY <1>1, HeadSound
<1>3. IsList(Now.prefix) /\ Place(Now.prefix) /\ (Now.to = "tar" \/ Now.to = "kernel")
  BY <1>1, <1>2 DEF Sound, OfImage
<1>4. Emit(es, <<>>) /\ UNCHANGED <<cfg, added, seen, dup, bundles>>
  BY DEF TouchFiles
<1>5. IsList(es) /\ Others(es)
  <2>0. PICK prefix, resolv : prefix = Now.prefix /\ resolv = Now.resolv
    OBVIOUS
  <2>4. /\ IsList(Touched(prefix, resolv))
        /\ \A i \in DOMAIN Touched(prefix, resolv) :
             \E k \in DOMAIN Touch : Touched(prefix, resolv)[i].name = prefix \o Touch[k].name
    BY TouchedNames
  <2>3. Touched(prefix, resolv) = es
    BY <2>0
  <2> HIDE DEF es
  <2>1. /\ IsList(es)
        /\ \A i \in DOMAIN es : \E k \in DOMAIN Touch : es[i].name = Now.prefix \o Touch[k].name
    BY <2>0, <2>3, <2>4
  <2>2. ASSUME NEW k \in DOMAIN Touch
        PROVE  ~IsOwn(Now.prefix \o Touch[k].name)
    <3>1. Named(Touch[k].name)
      BY TouchAbove
    <3>2. IsList(Touch[k].name) /\ Touch[k].name # <<>> /\ Touch[k].name[1] # "containers"
      BY <3>1, NamedIs
    <3> QED
      BY <1>3, <3>2, BelowRoot
  <2> QED
    BY <2>1, <2>2 DEF Others
<1>6. Now.to # "kernel" => Supports(es, DirsOf(out))
  <2> SUFFICES ASSUME Now.to = "tar" PROVE Supports(es, DirsOf(out))
    BY <1>3
  <2>1. Now.prefix # None => Now.prefix \in DirsOf(out)
    BY <1>1, <1>2 DEF Needs
  <2>2. \A key \in seen : Last(key) = "" => Now.prefix \o Front(key) \in DirsOf(out)
    BY <1>1, <1>2 DEF AssemblyInv, TreeInv, SeenMade, OfImage
  <2> QED
    BY <1>3, <2>1, <2>2, TouchedSupports
<1>7. Makes(todo[1]) = {}
  BY <1>1 DEF Makes
<1> HIDE DEF es
<1> QED
  BY <1>1, <1>4, <1>5, <1>6, <1>7, OneAssembly

(***************************************************************************)
(* A container's first half                                                *)
(***************************************************************************)

\* The second half that is left to do, and the image that is unpacked before it.
Rooted(t, item) ==
  /\ item.do = "bundle" /\ item.to = "tar" /\ item.image = t.image /\ item.path = t.path
  /\ IsList(item.root) /\ item.root # None /\ Place(item.root)
Unpacks(item, u) == u = ImageTar(item.image, item.root, "tar", None)

LEMMA RootedSound ==
  ASSUME NEW t, Spot(t.path), NEW item, Rooted(t, item), NEW u, Unpacks(item, u)
  PROVE  /\ Sound(item) /\ Sound(u) /\ Orderly(u, item) /\ item.do = "bundle" /\ u.do = "image" /\ item.path = t.path
         /\ Needs(item) = {t.path, item.root} /\ Needs(u) = {} /\ Makes(item) = {}
         /\ Makes(u) = {SubSeq(item.root, 1, i) : i \in DOMAIN item.root}
<1>1. u.do = "image" /\ u.prefix = item.root /\ u.to = "tar"
  BY DEF Unpacks, ImageTar
<1>2. Sound(u)
  BY <1>1 DEF Sound, Rooted, OfImage, Outputs, Placing
<1>3. Sound(item)
  BY DEF Sound, Rooted, OfImage, Outputs, Placing
<1>4. Orderly(u, item)
  BY <1>1 DEF Orderly, Rooted, OfImage
<1>5. /\ Needs(item) = {t.path, item.root} /\ Needs(u) = {} /\ Makes(item) = {}
      /\ Makes(u) = {SubSeq(item.root, 1, i) : i \in DOMAIN item.root}
  BY <1>1 DEF Needs, Makes, Rooted
<1> QED
  BY <1>1, <1>2, <1>3, <1>4, <1>5 DEF Rooted

\* What is done in place of the first half.
Halves(t, item, items) ==
  /\ IsList(items) /\ items # <<>>
  /\ \/ items = <<item>>
     \/ \E u : Unpacks(item, u) /\ items = <<u, item>>

LEMMA HalvesAre ==
  ASSUME NEW t, NEW item, NEW items, Halves(t, item, items)
  PROVE  \/ DOMAIN items = 1..1 /\ items[1] = item
         \/ DOMAIN items = 1..2 /\ items[2] = item /\ Unpacks(item, items[1])
<1>1. DOMAIN <<item>> = 1..1 /\ <<item>>[1] = item
  BY OneEntry
<1>2. \A u : DOMAIN <<u, item>> = 1..2 /\ <<u, item>>[1] = u /\ <<u, item>>[2] = item
  OBVIOUS
<1> QED
  BY <1>1, <1>2, Zenon DEF Halves

LEMMA OneTwo ==
  /\ \A i \in 1..1 : i = 1
  /\ \A i \in 1..2 : i = 1 \/ i = 2
  /\ \A i, j \in 1..2 : i < j => i = 1 /\ j = 2
  /\ \A i, j \in 1..1 : ~(i < j)
  /\ 1 \in 1..1 /\ 1 \in 1..2 /\ 2 \in 1..2 /\ 1 \in 1..(2 - 1) /\ 3 \in 1..4 /\ 4 \in 1..4
OBVIOUS

LEMMA HalvesFit ==
  ASSUME NEW t, t = todo[1], t.do = "container", Spot(t.path), NEW item, Rooted(t, item), NEW items, Halves(t, item, items)
  PROVE  /\ Fits(items) /\ Apart(items)
         /\ \A i \in DOMAIN items : items[i].do \notin OfImage /\ (items[i].do \in Placing => items[i] = item)
<1>1. \A u : Unpacks(item, u) => Sound(item) /\ Sound(u) /\ Orderly(u, item) /\ u.do = "image"
  BY RootedSound
<1>2. Sound(item) /\ item.do = "bundle"
  BY RootedSound DEF Unpacks
<1>3. /\ \A i \in DOMAIN items : Sound(items[i]) /\ (items[i] = item \/ items[i].do = "image")
      /\ \A i, j \in DOMAIN items : i < j => Orderly(items[i], items[j])
  <2>1. CASE DOMAIN items = 1..1 /\ items[1] = item
    BY <1>2, <2>1, OneTwo
  <2>2. CASE DOMAIN items = 1..2 /\ items[2] = item /\ Unpacks(item, items[1])
    BY <1>1, <1>2, <2>2, OneTwo
  <2> QED
    BY <2>1, <2>2, HalvesAre
<1>4. Fits(items)
  BY <1>3 DEF Fits, OfImage
<1>5. \A i, j \in DOMAIN items : i # j => items[i].do = "image" \/ items[j].do = "image"
  <2>1. CASE DOMAIN items = 1..1 /\ items[1] = item
    BY <2>1, OneTwo
  <2>2. CASE DOMAIN items = 1..2 /\ items[2] = item /\ Unpacks(item, items[1])
    BY <1>1, <2>2, OneTwo
  <2> QED
    BY <2>1, <2>2, HalvesAre
<1> QED
  BY <1>2, <1>3, <1>4, <1>5 DEF Apart, Placing, OfImage

\* The two halves of a container: the second finds the directories.
LEMMA HalvesSupply ==
  ASSUME NEW t, t = todo[1], t.do = "container", Spot(t.path), NEW item, Rooted(t, item), NEW items, Halves(t, item, items),
         \/ items = <<item>> /\ t.path \in DirsOf(out') /\ item.root \in DirsOf(out')
         \/ items # <<item>> /\ Front(item.root) = t.path
  PROVE  Supply(items)
<1>1. Makes(todo[1]) = {}
  BY DEF Makes
<1>2. ASSUME NEW i \in DOMAIN items, NEW d \in Needs(items[i])
      PROVE  d \in DirsOf(out') \/ \E j \in 1..(i - 1) : d \in Makes(items[j])
  <2>1. \A u : Unpacks(item, u) => Needs(u) = {}
    BY RootedSound
  <2>2. Needs(item) = {t.path, item.root}
    BY RootedSound DEF Unpacks
  <2>3. CASE items = <<item>> /\ t.path \in DirsOf(out') /\ item.root \in DirsOf(out')
    <3>1. DOMAIN items = 1..1 /\ items[1] = item
      BY <2>3, OneEntry
    <3>2. items[i] = item
      BY <1>2, <3>1, OneTwo
    <3> QED
      BY <1>2, <2>2, <2>3, <3>2
  <2>4. CASE items # <<item>> /\ Front(item.root) = t.path
    <3>1. PICK u : Unpacks(item, u) /\ items = <<u, item>>
      BY <2>4 DEF Halves
    <3>2. DOMAIN items = 1..2 /\ items[1] = u /\ items[2] = item
      BY <3>1
    <3>3. i = 2 /\ d \in {t.path, item.root}
      BY <1>2, <2>1, <2>2, <3>1, <3>2, OneTwo
    <3>4. Makes(u) = {SubSeq(item.root, 1, k) : k \in DOMAIN item.root}
      BY <3>1, RootedSound
    <3>5. /\ DOMAIN item.root = 1..4 /\ Front(item.root) = SubSeq(item.root, 1, 3) /\ Len(item.root) = 4
      BY PlaceIs DEF Rooted
    <3>6. item.root = SubSeq(item.root, 1, 4)
      <4>1. IsList(item.root) /\ item.root # <<>>
        BY DEF Rooted, None
      <4> QED
        BY <3>5, <4>1, WholePart
    <3>7. d \in Makes(u)
      BY <2>4, <3>3, <3>4, <3>5, <3>6, OneTwo
    <3> QED
      BY <3>2, <3>3, <3>7, OneTwo
  <2> QED
    BY <2>3, <2>4
<1> QED
  BY <1>1, <1>2 DEF Supply

\* A container's place is taken from here on, by the specification made for it.
Occupied(path, spec) ==
  bundles' = [p \in DOMAIN bundles \cup {path} |-> IF p = path THEN spec ELSE bundles[p]]

LEMMA OnlyContainers ==
  ASSUME IsList(todo), todo # <<>>, Order, todo[1].do = "container", NEW m \in DOMAIN todo, m > 1
  PROVE  todo[m].do # "bundle"
<1>1. 1 \in DOMAIN todo /\ m \in Nat
  BY ListDomain
<1>2. Orderly(todo[1], todo[m])
  BY <1>1 DEF Order
<1> QED
  BY <1>2 DEF Orderly, OfImage

LEMMA HalvesBundle ==
  ASSUME BundleInv, Order, IsList(todo), todo # <<>>, NEW t, t = todo[1], t.do = "container", Spot(t.path),
         NEW item, Rooted(t, item), NEW items, Halves(t, item, items), Moves(items),
         cfg' = cfg, dup' = dup, NEW spec, Occupied(t.path, spec),
         Longer(out', out), NoneOwn(out', out), Awaits(item)'
  PROVE  BundleInv'
<1>1. /\ Fits(items) /\ Apart(items)
      /\ \A i \in DOMAIN items : items[i].do \notin OfImage /\ (items[i].do \in Placing => items[i] = item)
  BY HalvesFit
<1>2. Apart(BuildItems(cfg)') /\ Apart(todo')
  <2>1. BuildItems(cfg)' = BuildItems(cfg)
    OBVIOUS
  <2>2. CASE todo' = <<>>
    BY <2>1, <2>2, EmptyList DEF BundleInv, Apart
  <2>3. CASE todo' = items \o Tail(todo)
    <3>1. \A i \in DOMAIN items : items[i].do \in Placing => todo[1].do \in Placing /\ items[i].path = todo[1].path
      BY <1>1 DEF Rooted, Placing
    <3> QED
      BY <1>1, <2>1, <2>3, <3>1, ApartMoves DEF BundleInv, InPlace, Moves
  <2> QED
    BY <2>2, <2>3 DEF Moves
<1>3. 1 \in DOMAIN todo /\ t.do \in Placing
  BY ListDomain DEF Placing
<1>4. (\E c \in ToSet(BuildItems(cfg)) : From(t, c)) /\ Unwritten(t.path)
  BY <1>3 DEF BundleInv, Pends
<1>5. (\A i \in DOMAIN todo : Pends(todo[i]))'
  <2> DEFINE l == todo'
  <2>1. ASSUME NEW k \in DOMAIN l, l[k].do \in Placing
        PROVE  /\ \E c \in ToSet(BuildItems(cfg)) : From(l[k], c)
               /\ \A i \in DOMAIN out' : IsOwn(out'[i].name) => Front(out'[i].name) # l[k].path
               /\ l[k].do = "bundle" => l[k] = item
    <3>1. todo' = items \o Tail(todo)
      BY EmptyList DEF Moves
    <3>2. \/ k \in DOMAIN items /\ l[k] = items[k]
          \/ \E m \in DOMAIN todo : m > 1 /\ l[k] = todo[m]
      BY <3>1, PlaceOf DEF InPlace, Moves
    <3> HIDE DEF l
    <3>3. CASE k \in DOMAIN items /\ l[k] = items[k]
      <4>1. l[k] = item /\ item.path = t.path /\ item.image = t.image
        BY <1>1, <2>1, <3>3 DEF Rooted
      <4>2. \E c \in ToSet(BuildItems(cfg)) : From(l[k], c)
        BY <1>4, <4>1 DEF From
      <4> QED
        BY <1>4, <4>1, <4>2, UnwrittenStill
    <3>4. CASE \E m \in DOMAIN todo : m > 1 /\ l[k] = todo[m]
      <4>1. PICK m \in DOMAIN todo : m > 1 /\ l[k] = todo[m]
        BY <3>4
      <4>2. l[k].do # "bundle"
        BY <4>1, OnlyContainers
      <4>3. (\E c \in ToSet(BuildItems(cfg)) : From(l[k], c)) /\ Unwritten(l[k].path)
        BY <2>1, <4>1 DEF BundleInv, Pends
      <4> QED
        BY <4>2, <4>3, UnwrittenStill
    <3> QED
      BY <3>2, <3>3, <3>4
  <2> QED
    BY <2>1 DEF Pends, Unwritten, Awaits
<1>6. OnlyOnce(out')
  BY OnlyOnceStill DEF BundleInv, OnlyOnce
<1>7. ASSUME NEW path \in DOMAIN bundles'
      PROVE  /\ Spot(path)
             /\ path # t.path => path \in DOMAIN bundles /\ bundles'[path] = bundles[path]
  BY DEF Occupied, BundleInv
<1>8. ASSUME NEW path \in DOMAIN bundles', NEW i \in DOMAIN out', out'[i].name = Append(path, "runtime.json")
      PROVE  RootAt(path, out[i].body)' /\ out[i].body' = out'[i].body
  <2>1. IsOwn(Append(path, "runtime.json")) /\ Front(Append(path, "runtime.json")) = path
    BY <1>7, OwnBelow
  <2>2. i \in DOMAIN out /\ out'[i] = out[i]
    <3>1. DOMAIN out = 1..Len(out)
      BY ListDomain DEF Longer
    <3> QED
      BY <1>8, <2>1, <3>1 DEF NoneOwn, Longer
  <2>3. path # t.path
    BY <1>4, <1>8, <2>1, <2>2 DEF Unwritten
  <2>4. RootAt(path, out[i].body)
    BY <1>7, <1>8, <2>2, <2>3 DEF BundleInv
  <2>5. DirsOf(out) \subseteq DirsOf(out')
    BY LongerDirs
  <2> QED
    BY <1>7, <2>2, <2>3, <2>4, <2>5 DEF RootAt
<1>9. (\A path \in DOMAIN bundles, i \in DOMAIN out :
          out[i].name = Append(path, "runtime.json") => RootAt(path, out[i].body))'
  BY <1>8
<1> QED
  BY <1>2, <1>5, <1>6, <1>7, <1>9 DEF BundleInv, OnlyOnce

LEMMA OutputImageAssembly ==
  ASSUME AllTidy, BuildInv, AssemblyInv, OutputImage
  PROVE  AssemblyInv'
<1> DEFINE spec  == ConfigToOCI(Labels[Now.image], Now.yaml, Ids(cfg))
           found == Now.image \in DOMAIN dup
           root  == RootOf(Now.path, Now.image, spec.readonly)
           item  == [do |-> "bundle", to |-> "tar", image |-> Now.image, path |-> Now.path,
                     found |-> found, root |-> root]
           unpack == ImageTar(Now.image, root, "tar", None)
           prefixes == TarPrefix(Now.path)
           none == <<>>
<1>1. /\ todo # <<>> /\ todo[1].do = "container" /\ IsItem(Now)
      /\ \A image \in DOMAIN dup : IsList(dup[image])
  BY AtHead DEF OutputImage
<1>2. Now = todo[1] /\ Sound(Now) /\ 1 \in DOMAIN todo /\ IsList(todo)
  BY <1>1, HeadSound
<1>3. Spot(Now.path) /\ Now.to # "kernel" /\ Now.do = "container"
  BY <1>1, <1>2 DEF Sound, Placing, OfImage, Outputs
<1>4. /\ \/ Fail /\ UNCHANGED <<out, kf, bundles>>
         \/ Emit(prefixes, <<item>>) /\ Occupied(Now.path, spec) /\ found
         \/ Emit(none, <<unpack, item>>) /\ Occupied(Now.path, spec) /\ ~found
      /\ UNCHANGED <<cfg, added, seen, dup>>
  BY ZenonT(60) DEF OutputImage, Occupied
<1> HIDE DEF spec
<1>5. /\ found => root = dup[Now.image]
      /\ ~found => root = Append(Now.path, IF spec.readonly THEN "rootfs" ELSE "lower")
  BY DEF RootOf
<1>6. item.do = "bundle" /\ item.to = "tar" /\ item.image = Now.image /\ item.path = Now.path /\ item.root = root /\ item.found = found
  OBVIOUS
<1>7. unpack = ImageTar(item.image, item.root, "tar", None)
  BY <1>6
<1> HIDE DEF root, unpack, item, prefixes
<1>8. \A x \in {"rootfs", "lower"} :
        Place(Append(Now.path, x)) /\ IsList(Append(Now.path, x)) /\ Append(Now.path, x) # None /\ Front(Append(Now.path, x)) = Now.path
  BY <1>3, RootPlace, BelowSpot
<1>9. IsList(root) /\ root # None /\ Place(root) /\ (~found => Front(root) = Now.path) /\ (found => root \in DirsOf(out))
  BY <1>1, <1>5, <1>8 DEF AssemblyInv, SoundInv, TreeInv
<1>10. Rooted(Now, item) /\ Unpacks(item, unpack)
  BY <1>6, <1>7, <1>9 DEF Rooted, Unpacks
<1>11. CASE Fail /\ UNCHANGED <<out, kf, bundles>>
  BY <1>4, <1>11, EndedAssembly DEF Fail
<1>12. ASSUME NEW es, IsList(es), Supports(es, DirsOf(out)), Others(es),
              NEW items, Halves(Now, item, items), Emit(es, items), Occupied(Now.path, spec),
              \/ items = <<item>> /\ found /\ Now.path \in DirsOf(es)
              \/ items # <<item>> /\ ~found
       PROVE  AssemblyInv'
  <2>1. IsList(items)
    BY <1>12 DEF Halves
  <2>2. /\ Moves(items) /\ Longer(out', out) /\ DirsOf(out) \subseteq DirsOf(out')
        /\ BootMade([kf EXCEPT !.out = out])' /\ NoneOwn(out', out)
        /\ DirsOf(out') = DirsOf(out) \cup DirsOf(es)
    BY <1>3, <1>12, <2>1, EmitMade DEF AssemblyInv
  <2>3. /\ Fits(items) /\ \A i \in DOMAIN items : items[i].do \notin OfImage
    BY <1>2, <1>3, <1>10, <1>12, HalvesFit
  <2>4. Supply(items)
    <3>1. CASE items = <<item>> /\ found /\ Now.path \in DirsOf(es)
      <4>1. Now.path \in DirsOf(out') /\ item.root \in DirsOf(out')
        BY <1>6, <1>9, <2>2, <3>1
      <4> QED
        BY <1>2, <1>3, <1>10, <1>12, <3>1, <4>1, HalvesSupply
    <3>2. CASE items # <<item>> /\ ~found
      BY <1>2, <1>3, <1>6, <1>9, <1>10, <1>12, <3>2, HalvesSupply
    <3> QED
      BY <1>12, <3>1, <3>2
  <2>5. SoundInv'
    BY <1>1, <1>2, <1>4, <2>2, <2>3, SoundMoves DEF AssemblyInv, SoundInv
  <2>6. SeenMade' /\ AddedMade'
    <3>1. SeenMade'
      BY <1>1, <1>2, <1>4, <2>2, <2>3, SeenMoves DEF AssemblyInv, TreeInv
    <3> QED
      BY <1>4, <2>2, <3>1 DEF AssemblyInv, TreeInv, AddedMade
  <2>7. \A image \in DOMAIN dup' : dup'[image] \in DirsOf(out')
    BY <1>4, <2>2 DEF AssemblyInv, TreeInv
  <2>8. TreeInv'
    BY <1>1, <1>2, <2>2, <2>4, <2>6, <2>7, TreeMoves DEF AssemblyInv
  <2>9. PICK t, it, s : t = Now /\ it = item /\ s = spec
    OBVIOUS
  <2>10. Awaits(it)'
    <3>1. Now.path \in DOMAIN bundles' /\ bundles'[Now.path] = spec
      BY <1>12 DEF Occupied
    <3>2. /\ item.path \in DOMAIN bundles'
          /\ found => item.image \in DOMAIN dup' /\ item.root = dup'[item.image]
          /\ ~found => item.image \notin DOMAIN dup' /\ item.root = Append(item.path, IF bundles'[item.path].readonly THEN "rootfs" ELSE "lower")
      BY <1>4, <1>5, <1>6, <3>1
    <3>3. it.found = found
      BY <1>6, <2>9
    <3> QED
      BY <2>9, <3>2, <3>3 DEF Awaits
  <2>11. /\ t = todo[1] /\ t.do = "container" /\ Spot(t.path) /\ Rooted(t, it) /\ Halves(t, it, items)
         /\ Occupied(t.path, s)
    BY <1>2, <1>3, <1>10, <1>12, <2>9
  <2>12. BundleInv'
    BY <1>1, <1>2, <1>4, <2>2, <2>10, <2>11, HalvesBundle DEF AssemblyInv, SoundInv
  <2> QED
    BY <2>5, <2>8, <2>12 DEF AssemblyInv
<1>13. CASE Emit(prefixes, <<item>>) /\ Occupied(Now.path, spec) /\ found
  <2>1. /\ IsList(prefixes) /\ Supports(prefixes, DirsOf(out)) /\ Others(prefixes) /\ Now.path \in DirsOf(prefixes)
    BY <1>3, PlaceMade, SpotIs DEF prefixes
  <2>2. Halves(Now, item, <<item>>)
    BY OneEntry DEF Halves
  <2> QED
    BY <1>12, <1>13, <2>1, <2>2
<1>14. CASE Emit(none, <<unpack, item>>) /\ Occupied(Now.path, spec) /\ ~found
  <2>1. IsList(none) /\ Supports(none, DirsOf(out)) /\ Others(none)
    BY NoEntries
  <2> HIDE DEF none
  <2>2. IsList(<<unpack, item>>) /\ <<unpack, item>> # <<>> /\ <<unpack, item>> # <<item>>
    <3>1. IsList(<<unpack, item>>) /\ <<unpack, item>> # <<>> /\ Len(<<unpack, item>>) = 2
      BY TwoIs, Zenon
    <3>2. Len(<<item>>) = 1 /\ 1 # 2
      OBVIOUS
    <3> QED
      BY <3>1, <3>2, Zenon
  <2>3. Halves(Now, item, <<unpack, item>>)
    BY <1>10, <2>2 DEF Halves
  <2> QED
    BY <1>12, <1>14, <2>1, <2>2, <2>3
<1> QED
  BY <1>4, <1>11, <1>13, <1>14

(***************************************************************************)
(* A container's second half                                               *)
(***************************************************************************)
Points(path, readonly, found) ==
  CASE ~readonly -> <<Dir(Append(path, "tmp")), Dir(Append(path, "rootfs"))>>
    [] readonly /\ found -> <<Dir(Append(path, "rootfs"))>>
    [] OTHER -> <<>>
Config(path)        == Reg(Append(path, "config.json"), None)
Runtime(path, root) == Reg(Append(path, "runtime.json"), root)
Files(path, root, readonly, found) ==
  <<Config(path)>> \o Points(path, readonly, found) \o <<Runtime(path, root)>>

LEMMA RegIs ==
  ASSUME NEW name, NEW body
  PROVE  Reg(name, body).name = name /\ Reg(name, body).type = "reg" /\ Reg(name, body).body = body
BY DEF Reg

LEMMA PointsAre ==
  ASSUME NEW path, Spot(path), NEW readonly, NEW found, NEW D, path \in D
  PROVE  LET es == Points(path, readonly, found) IN
         /\ IsList(es) /\ Supports(es, D)
         /\ \A i \in DOMAIN es : es[i] \in {Dir(Append(path, "tmp")), Dir(Append(path, "rootfs"))}
         /\ ~readonly \/ found => Append(path, "rootfs") \in DirsOf(es)
         /\ ~readonly => Append(path, "tmp") \in DirsOf(es)
<1> DEFINE es  == Points(path, readonly, found)
           tmp == Dir(Append(path, "tmp"))
           rootfs == Dir(Append(path, "rootfs"))
<1>1. es \in {<<tmp, rootfs>>, <<rootfs>>, <<>>} /\ (~readonly => es = <<tmp, rootfs>>) /\ (readonly /\ found => es = <<rootfs>>)
  BY DEF Points
<1>2. /\ tmp.name = Append(path, "tmp") /\ tmp.type = "dir"
      /\ rootfs.name = Append(path, "rootfs") /\ rootfs.type = "dir"
  BY DirIs
<1>3. \A x \in {"tmp", "rootfs"} : Bare(Append(path, x)) = Append(path, x) /\ Above(Append(path, x)) = {path}
  BY BelowSpot
<1> HIDE DEF es, tmp, rootfs
<1>4. /\ IsList(<<tmp>>) /\ Supports(<<tmp>>, D) /\ DirsOf(<<tmp>>) = {Append(path, "tmp")}
      /\ IsList(<<rootfs>>) /\ Supports(<<rootfs>>, D) /\ DirsOf(<<rootfs>>) = {Append(path, "rootfs")}
  BY <1>2, <1>3, SupportsOne
<1>5. <<tmp>> \o <<rootfs>> = <<tmp, rootfs>>
  BY OneAndOne
<1>6. /\ IsList(<<tmp, rootfs>>) /\ Supports(<<tmp, rootfs>>, D)
      /\ DirsOf(<<tmp, rootfs>>) = {Append(path, "tmp"), Append(path, "rootfs")}
      /\ \A i \in DOMAIN <<tmp, rootfs>> : <<tmp, rootfs>>[i] \in {tmp, rootfs}
  <2> DEFINE a == <<tmp>>
             b == <<rootfs>>
  <2>1. a \o b = <<tmp, rootfs>> /\ IsList(a) /\ IsList(b) /\ Supports(a, D) /\ Supports(b, D)
        /\ DirsOf(a) = {Append(path, "tmp")} /\ DirsOf(b) = {Append(path, "rootfs")}
    BY <1>4, <1>5
  <2> HIDE DEF a, b
  <2>2. Supports(b, D \cup DirsOf(a))
    BY <2>1, SupportsWider
  <2>3. Supports(a \o b, D) /\ DirsOf(a \o b) = DirsOf(a) \cup DirsOf(b) /\ IsList(a \o b)
    BY <2>1, <2>2, SupportsMore, DirsConcat, ConcatIs
  <2> QED
    BY <2>1, <2>3
<1>7. \A i \in DOMAIN <<rootfs>> : <<rootfs>>[i] = rootfs
  OBVIOUS
<1>8. IsList(<<>>) /\ Supports(<<>>, D) /\ \A i \in DOMAIN <<>> : FALSE
  BY SupportsNone, EmptyList
<1>9. IsList(es) /\ Supports(es, D) /\ \A i \in DOMAIN es : es[i] \in {tmp, rootfs}
  <2>1. CASE es = <<tmp, rootfs>>
    BY <1>6, <2>1
  <2>2. CASE es = <<rootfs>>
    BY <1>4, <1>7, <2>2
  <2>3. CASE es = <<>>
    BY <1>8, <2>3
  <2> QED
    BY <1>1, <2>1, <2>2, <2>3
<1>10. (~readonly \/ found => Append(path, "rootfs") \in DirsOf(es)) /\ (~readonly => Append(path, "tmp") \in DirsOf(es))
  BY <1>1, <1>4, <1>6
<1> QED
  BY <1>9, <1>10 DEF es, tmp, rootfs

LEMMA FilesAre ==
  ASSUME NEW path, Spot(path), NEW root, NEW readonly, NEW found, NEW D, path \in D
  PROVE  LET es == Files(path, root, readonly, found) IN
         /\ IsList(es) /\ Supports(es, D)
         /\ \A i \in DOMAIN es :
              \/ i = 1 /\ es[i] = Config(path)
              \/ i # 1 /\ es[i] \in {Dir(Append(path, "tmp")), Dir(Append(path, "rootfs")), Runtime(path, root)}
         /\ ~readonly \/ found => Append(path, "rootfs") \in DirsOf(es)
         /\ ~readonly => Append(path, "tmp") \in DirsOf(es)
<1> DEFINE a == <<Config(path)>>
           b == Points(path, readonly, found)
           c == <<Runtime(path, root)>>
           es == Files(path, root, readonly, found)
           X == {Dir(Append(path, "tmp")), Dir(Append(path, "rootfs")), Runtime(path, root)}
<1>1. \A x \in {"config.json", "runtime.json"} : Above(Append(path, x)) = {path}
  BY BelowSpot
<1>2. Config(path).name = Append(path, "config.json") /\ Runtime(path, root).name = Append(path, "runtime.json")
  BY RegIs DEF Config, Runtime
<1>3. /\ IsList(a) /\ Supports(a, D) /\ Len(a) = 1 /\ a[1] = Config(path)
      /\ IsList(c) /\ Supports(c, D) /\ Len(c) = 1 /\ c[1] = Runtime(path, root)
  BY <1>1, <1>2, OneEntry, SupportsOne
<1>4. /\ IsList(b) /\ Supports(b, D)
      /\ \A i \in DOMAIN b : b[i] \in X
      /\ ~readonly \/ found => Append(path, "rootfs") \in DirsOf(b)
      /\ ~readonly => Append(path, "tmp") \in DirsOf(b)
  BY PointsAre
<1>5. es = a \o b \o c /\ Runtime(path, root) \in X
  BY DEF Files
<1> HIDE DEF a, b, c, es, X
<1>6. a \o b \o c = a \o (b \o c)
  BY <1>3, <1>4, ConcatTwice
<1>7. /\ IsList(b \o c) /\ Supports(b \o c, D) /\ DirsOf(b \o c) = DirsOf(b) \cup DirsOf(c)
      /\ \A i \in DOMAIN (b \o c) : (b \o c)[i] \in X
  <2>1. Supports(c, D \cup DirsOf(b))
    BY <1>3, SupportsWider
  <2>2. IsList(b \o c) /\ Supports(b \o c, D) /\ DirsOf(b \o c) = DirsOf(b) \cup DirsOf(c)
    BY <1>3, <1>4, <2>1, SupportsMore, DirsConcat, ConcatIs
  <2>3. ASSUME NEW i \in DOMAIN (b \o c)
        PROVE  (b \o c)[i] \in X
    <3>1. \A k \in DOMAIN c : c[k] \in X
      <4>1. DOMAIN c = 1..1
        BY <1>3, ListDomain
      <4> QED
        BY <1>3, <1>5, <4>1, OneTwo
    <3>2. \/ i \in DOMAIN b /\ (b \o c)[i] = b[i]
          \/ i - Len(b) \in DOMAIN c /\ (b \o c)[i] = c[i - Len(b)]
      BY <1>3, <1>4, ListConcat
    <3> QED
      BY <1>4, <3>1, <3>2
  <2> QED
    BY <2>2, <2>3
<1>8. IsList(es) /\ Supports(es, D) /\ DirsOf(es) = DirsOf(a) \cup DirsOf(b \o c)
  <2>1. Supports(b \o c, D \cup DirsOf(a))
    BY <1>7, SupportsWider
  <2> QED
    BY <1>3, <1>5, <1>6, <1>7, <2>1, SupportsMore, DirsConcat, ConcatIs
<1>9. ASSUME NEW i \in DOMAIN es
      PROVE  (i = 1 /\ es[i] = Config(path)) \/ (i # 1 /\ es[i] \in X)
  <2> DEFINE d == b \o c
  <2>1. IsList(d) /\ es = a \o d /\ \A k \in DOMAIN d : d[k] \in X
    BY <1>5, <1>6, <1>7
  <2> HIDE DEF d
  <2>2. \/ i \in DOMAIN a /\ (a \o d)[i] = a[i]
        \/ i - Len(a) \in DOMAIN d /\ (a \o d)[i] = d[i - Len(a)]
    BY <1>3, <1>9, <2>1, ListConcat
  <2>3. CASE i \in DOMAIN a /\ (a \o d)[i] = a[i]
    <3>1. DOMAIN a = 1..1
      BY <1>3, ListDomain
    <3>2. i = 1
      BY <2>3, <3>1, OneTwo
    <3> QED
      BY <1>3, <2>1, <2>3, <3>2
  <2>4. CASE i - Len(a) \in DOMAIN d /\ (a \o d)[i] = d[i - Len(a)]
    <3>1. i - 1 \in DOMAIN d
      BY <1>3, <2>4
    <3>2. DOMAIN d = 1..Len(d) /\ Len(d) \in Nat
      BY <2>1, ListDomain
    <3>3. i # 1
      BY <3>1, <3>2
    <3> QED
      BY <2>1, <2>4, <3>3
  <2> QED
    BY <2>2, <2>3, <2>4
<1> QED
  BY <1>4, <1>7, <1>8, <1>9 DEF es, X

LEMMA FilesOwn ==
  ASSUME NEW path, Spot(path), NEW root, NEW readonly, NEW found, NEW i \in DOMAIN Files(path, root, readonly, found)
  PROVE  LET e == Files(path, root, readonly, found)[i] IN
         /\ Front(e.name) = path /\ (Last(e.name) = "config.json" <=> i = 1)
         /\ Last(e.name) = "runtime.json" => e.body = root
<1> DEFINE e == Files(path, root, readonly, found)[i]
<1>1. \/ i = 1 /\ e = Config(path)
      \/ i # 1 /\ e \in {Dir(Append(path, "tmp")), Dir(Append(path, "rootfs")), Runtime(path, root)}
  <2>1. PICK D : path \in D
    <3>1. path \in {path}
      OBVIOUS
    <3> QED
      BY <3>1
  <2> DEFINE es == Files(path, root, readonly, found)
  <2>2. \A k \in DOMAIN es :
           \/ k = 1 /\ es[k] = Config(path)
           \/ k # 1 /\ es[k] \in {Dir(Append(path, "tmp")), Dir(Append(path, "rootfs")), Runtime(path, root)}
    BY <2>1, FilesAre
  <2> HIDE DEF es
  <2>3. i \in DOMAIN es /\ e = es[i]
    BY DEF es
  <2> QED
    BY <2>2, <2>3
<1>2. \A x : Front(Append(path, x)) = path /\ Last(Append(path, x)) = x
  BY BelowSpot
<1> HIDE DEF e
<1>3. CASE i = 1 /\ e = Config(path)
  <2>1. e.name = Append(path, "config.json")
    BY <1>3, RegIs DEF Config
  <2> QED
    BY <1>2, <1>3, <2>1 DEF e
<1>4. ASSUME NEW x \in {"tmp", "rootfs"}, i # 1, e = Dir(Append(path, x))
      PROVE  Front(e.name) = path /\ Last(e.name) = x
  <2>1. e.name = Append(path, x)
    BY <1>4, DirIs
  <2> QED
    BY <1>2, <2>1
<1>5. CASE i # 1 /\ e = Runtime(path, root)
  <2>1. e.name = Append(path, "runtime.json") /\ e.body = root
    BY <1>5, RegIs DEF Runtime
  <2> QED
    BY <1>2, <1>5, <2>1 DEF e
<1> QED
  BY <1>1, <1>3, <1>4, <1>5 DEF e

\* Only first halves follow a second half.
LEMMA NoSecond ==
  ASSUME IsList(todo), todo # <<>>, Order, todo[1].do = "bundle", NEW m \in DOMAIN todo, m > 1
  PROVE  todo[m].do # "bundle"
<1>1. 1 \in DOMAIN todo /\ m \in Nat
  BY ListDomain
<1>2. Orderly(todo[1], todo[m])
  BY <1>1 DEF Order
<1> QED
  BY <1>2 DEF Orderly, OfImage

\* The rootfs root is recorded for the image, and what was recorded stays.
Roots(image, root) ==
  /\ image \in DOMAIN dup' /\ dup'[image] = root
  /\ \A x \in DOMAIN dup : x \in DOMAIN dup' /\ dup'[x] = dup[x]

\* A list is another with the files of the container at path after it.
Second(s, old, path, root) ==
  \A i \in DOMAIN s :
    \/ i \in DOMAIN old /\ s[i] = old[i] /\ (IsOwn(old[i].name) => Front(old[i].name) # path)
    \/ /\ i \notin DOMAIN old /\ Front(s[i].name) = path
       /\ Last(s[i].name) = "config.json" <=> i - Len(old) = 1
       /\ Last(s[i].name) = "runtime.json" => s[i].body = root

\* The stream with the container's files behind it is such a list.
LEMMA SecondIs ==
  ASSUME NEW old, IsList(old), NEW path, Spot(path), NEW root, NEW readonly, NEW found,
         NEW es, es = Files(path, root, readonly, found), IsList(es),
         \A i \in DOMAIN old : IsOwn(old[i].name) => Front(old[i].name) # path
  PROVE  Second(old \o es, old, path, root)
<1> DEFINE s == old \o es
<1> SUFFICES ASSUME NEW i \in DOMAIN s
             PROVE  \/ i \in DOMAIN old /\ s[i] = old[i] /\ (IsOwn(old[i].name) => Front(old[i].name) # path)
                    \/ /\ i \notin DOMAIN old /\ Front(s[i].name) = path
                       /\ Last(s[i].name) = "config.json" <=> i - Len(old) = 1
                       /\ Last(s[i].name) = "runtime.json" => s[i].body = root
  BY DEF Second
<1>1. \/ i \in DOMAIN old /\ s[i] = old[i]
      \/ i - Len(old) \in DOMAIN es /\ s[i] = es[i - Len(old)]
  BY ListConcat, Zenon
<1>2. i - Len(old) \in DOMAIN es => i \notin DOMAIN old
  <2>1. DOMAIN es = 1..Len(es) /\ Len(es) \in Nat /\ DOMAIN old = 1..Len(old) /\ Len(old) \in Nat
    BY ListDomain
  <2>2. i \in Nat
    <3>1. IsList(s)
      BY ConcatIs
    <3> HIDE DEF s
    <3> QED
      BY <3>1, ListDomain
  <2> HIDE DEF s
  <2> QED
    BY <2>1, <2>2
<1> HIDE DEF s
<1>3. CASE i - Len(old) \in DOMAIN es /\ s[i] = es[i - Len(old)]
  <2>1. /\ Front(s[i].name) = path
        /\ Last(s[i].name) = "config.json" <=> i - Len(old) = 1
        /\ Last(s[i].name) = "runtime.json" => s[i].body = root
    BY <1>3, FilesOwn
  <2> QED
    BY <1>2, <1>3, <2>1
<1> QED
  BY <1>1, <1>3

LEMMA SecondOnce ==
  ASSUME NEW s, NEW old, IsList(s), IsList(old), NEW path, NEW root, Second(s, old, path, root), OnlyOnce(old)
  PROVE  OnlyOnce(s)
<1> SUFFICES ASSUME NEW i \in DOMAIN s, NEW j \in DOMAIN s, i # j, IsOwn(s[i].name), Last(s[i].name) = "config.json",
                    s[i].name = s[j].name
             PROVE  FALSE
  BY DEF OnlyOnce
<1>1. /\ i \in DOMAIN old => s[i] = old[i] /\ Front(s[i].name) # path
      /\ i \notin DOMAIN old => Front(s[i].name) = path /\ i - Len(old) = 1
  BY DEF Second
<1>2. /\ j \in DOMAIN old => s[j] = old[j] /\ Front(s[j].name) # path
      /\ j \notin DOMAIN old => Front(s[j].name) = path /\ j - Len(old) = 1
  BY DEF Second
<1>3. i \in Int /\ j \in Int /\ Len(old) \in Int
  BY ListDomain
<1>4. CASE i \in DOMAIN old /\ j \in DOMAIN old
  BY <1>1, <1>2, <1>4 DEF OnlyOnce
<1>5. CASE i \notin DOMAIN old /\ j \notin DOMAIN old
  BY <1>1, <1>2, <1>3, <1>5
<1> QED
  BY <1>1, <1>2, <1>4, <1>5

LEMMA SecondBundle ==
  ASSUME BundleInv, Order, IsList(todo), todo # <<>>, IsList(out), NEW t, t = todo[1], t.do = "bundle", Spot(t.path),
         NEW readonly, NEW es, es = Files(t.path, t.root, readonly, t.found), IsList(es),
         Moves(<<>>), cfg' = cfg, bundles' = bundles, out' = out \o es, Roots(t.image, t.root), RootAt(t.path, t.root)'
  PROVE  BundleInv'
<1>1. Apart(BuildItems(cfg)') /\ Apart(todo')
  <2>1. BuildItems(cfg)' = BuildItems(cfg)
    OBVIOUS
  <2> DEFINE none == <<>>
  <2>2. DOMAIN none = {} /\ Moves(none)
    BY EmptyList
  <2> HIDE DEF none
  <2> QED
    BY <2>1, <2>2, ApartStays DEF BundleInv
<1>2. 1 \in DOMAIN todo /\ t.do \in Placing
  BY ListDomain DEF Placing
<1>3. Unwritten(t.path)
  BY <1>2 DEF BundleInv, Pends
<1>4. Second(out', out, t.path, t.root)
  BY <1>3, SecondIs DEF Unwritten
<1>5. (\A i \in DOMAIN todo : Pends(todo[i]))'
  <2> DEFINE l == todo'
  <2>1. ASSUME NEW k \in DOMAIN l, l[k].do \in Placing
        PROVE  /\ \E c \in ToSet(BuildItems(cfg)) : From(l[k], c)
               /\ \A i \in DOMAIN out' : IsOwn(out'[i].name) => Front(out'[i].name) # l[k].path
               /\ l[k].do # "bundle"
    <3>1. PICK m \in DOMAIN todo : m > 1 /\ l[k] = todo[m]
      BY TailItem
    <3> HIDE DEF l
    <3>2. l[k].do # "bundle"
      BY <3>1, NoSecond
    <3>3. (\E c \in ToSet(BuildItems(cfg)) : From(l[k], c)) /\ Unwritten(l[k].path)
      BY <2>1, <3>1 DEF BundleInv, Pends
    <3>4. l[k].path # t.path
      BY <1>2, <2>1, <3>1 DEF BundleInv, Apart
    <3>5. \A i \in DOMAIN out' : IsOwn(out'[i].name) => Front(out'[i].name) # l[k].path
      <4>1. PICK p : p = l[k].path
        OBVIOUS
      <4>2. p # t.path /\ \A i \in DOMAIN out : IsOwn(out[i].name) => Front(out[i].name) # p
        BY <3>3, <3>4, <4>1, Zenon DEF Unwritten
      <4>3. ASSUME NEW i \in DOMAIN out', IsOwn(out'[i].name)
            PROVE  Front(out'[i].name) # p
        <5>1. \/ i \in DOMAIN out /\ out'[i] = out[i]
              \/ Front(out'[i].name) = t.path
          BY <1>4 DEF Second
        <5> QED
          BY <4>2, <4>3, <5>1
      <4> QED
        BY <4>1, <4>3, Zenon
    <3> QED
      BY <3>2, <3>3, <3>5
  <2> QED
    BY <2>1 DEF Pends, Unwritten
<1>6. OnlyOnce(out')
  <2>1. OnlyOnce(out) /\ IsList(out')
    BY ConcatIs DEF BundleInv, OnlyOnce
  <2> QED
    BY <1>4, <2>1, SecondOnce
<1>7. ASSUME NEW path \in DOMAIN bundles, NEW i \in DOMAIN out', out'[i].name = Append(path, "runtime.json")
      PROVE  RootAt(path, out[i].body)' /\ out[i].body' = out'[i].body
  <2>1. /\ IsOwn(Append(path, "runtime.json")) /\ Front(Append(path, "runtime.json")) = path
        /\ Last(Append(path, "runtime.json")) = "runtime.json"
    BY OwnBelow DEF BundleInv
  <2>2. CASE i \in DOMAIN out /\ out'[i] = out[i]
    <3>1. RootAt(path, out[i].body)
      BY <1>7, <2>2 DEF BundleInv
    <3>2. DirsOf(out) \subseteq DirsOf(out')
      BY DirsConcat
    <3> QED
      BY <2>2, <3>1, <3>2 DEF RootAt, Roots
  <2>3. CASE path = t.path /\ out'[i].body = t.root
    BY <2>3 DEF RootAt
  <2>4. \/ i \in DOMAIN out /\ out'[i] = out[i]
        \/ Front(out'[i].name) = t.path /\ (Last(out'[i].name) = "runtime.json" => out'[i].body = t.root)
    BY <1>4 DEF Second
  <2> QED
    BY <1>7, <2>1, <2>2, <2>3, <2>4, Zenon
<1>8. (\A path \in DOMAIN bundles, i \in DOMAIN out :
          out[i].name = Append(path, "runtime.json") => RootAt(path, out[i].body))'
  BY <1>7
<1> QED
  BY <1>1, <1>5, <1>6, <1>8 DEF BundleInv, OnlyOnce

LEMMA ImageBundleAssembly ==
  ASSUME AllTidy, BuildInv, AssemblyInv, ImageBundle
  PROVE  AssemblyInv'
<1> DEFINE none == <<>>
<1>1. /\ todo # <<>> /\ todo[1].do = "bundle" /\ IsItem(Now)
      /\ \A image \in DOMAIN dup : IsList(dup[image])
  BY AtHead DEF ImageBundle
<1>2. /\ Now = todo[1] /\ Sound(Now) /\ 1 \in DOMAIN todo /\ IsList(todo)
      /\ \A d \in Needs(Now) : d \in DirsOf(out)
  BY <1>1, HeadSound
<1>3. PICK t : t = Now
  OBVIOUS
<1>4. PICK readonly : readonly = bundles[t.path].readonly
  OBVIOUS
<1> DEFINE es == Files(t.path, t.root, readonly, t.found)
<1>5. /\ t = todo[1] /\ t.do = "bundle" /\ Spot(t.path) /\ t.to # "kernel"
      /\ IsList(t.root) /\ Place(t.root) /\ t.root # None
      /\ t.path \in DirsOf(out) /\ t.root \in DirsOf(out)
  BY <1>1, <1>2, <1>3 DEF Sound, Placing, OfImage, Outputs, Needs
<1>6. /\ Emit(es, none)
      /\ dup' = IF t.found THEN dup
                ELSE [image \in DOMAIN dup \cup {t.image} |-> IF image = t.image THEN t.root ELSE dup[image]]
      /\ UNCHANGED <<cfg, added, seen, bundles>>
  BY <1>3, <1>4 DEF ImageBundle, Files, Points, Config, Runtime
<1>8. /\ IsList(es) /\ Supports(es, DirsOf(out))
      /\ ~readonly \/ t.found => Append(t.path, "rootfs") \in DirsOf(es)
      /\ ~readonly => Append(t.path, "tmp") \in DirsOf(es)
  BY <1>5, FilesAre
<1>9. es = Files(t.path, t.root, readonly, t.found)
  OBVIOUS
<1>10. DOMAIN none = {} /\ IsList(none) /\ Fits(none)
  BY EmptyList, NoneFits
<1> HIDE DEF es, none
<1>11. /\ Moves(none) /\ DirsOf(out) \subseteq DirsOf(out') /\ BootMade([kf EXCEPT !.out = out])'
       /\ out' = out \o es /\ DirsOf(out') = DirsOf(out) \cup DirsOf(es)
  BY <1>3, <1>5, <1>6, <1>8, <1>10, EmitMade DEF AssemblyInv
<1>12. /\ t.path \in DOMAIN bundles
       /\ t.found => t.image \in DOMAIN dup /\ t.root = dup[t.image]
       /\ ~t.found => t.image \notin DOMAIN dup /\ t.root = Append(t.path, IF readonly THEN "rootfs" ELSE "lower")
       /\ \E c \in ToSet(BuildItems(cfg)) : From(t, c)
  BY <1>2, <1>4, <1>5 DEF AssemblyInv, BundleInv, Pends, Awaits, Placing
<1>13. Roots(t.image, t.root) /\ \A x \in DOMAIN dup' : (x \in DOMAIN dup /\ dup'[x] = dup[x]) \/ dup'[x] = t.root
  <2>1. CASE t.found
    BY <1>6, <1>12, <2>1 DEF Roots
  <2>2. CASE ~t.found
    BY <1>6, <1>12, <2>2 DEF Roots
  <2> QED
    BY <2>1, <2>2
<1>14. RootAt(t.path, t.root)'
  <2>1. t.root \in DirsOf(out') /\ Append(t.path, "rootfs") \in DirsOf(out') /\ (~readonly => Append(t.path, "tmp") \in DirsOf(out'))
    <3>1. CASE ~readonly \/ t.found
      BY <1>5, <1>8, <1>11, <3>1
    <3>2. CASE readonly /\ ~t.found
      BY <1>5, <1>11, <1>12, <3>2
    <3> QED
      BY <3>1, <3>2
  <2>2. PICK c \in ToSet(BuildItems(cfg)) : From(t, c)
    BY <1>12
  <2>3. c \in ToSet(BuildItems(cfg)') /\ c.do = "container" /\ c.path = t.path /\ c.image = t.image
    <3>1. BuildItems(cfg)' = BuildItems(cfg)
      BY <1>6
    <3> QED
      BY <2>2, <3>1 DEF From
  <2>4. bundles'[t.path].readonly = readonly
    BY <1>4, <1>6
  <2>5. \E d \in ToSet(BuildItems(cfg)') : d.do = "container" /\ d.path = t.path /\ d.image \in DOMAIN dup' /\ dup'[d.image] = t.root
    BY <1>13, <2>3 DEF Roots
  <2> QED
    BY <2>1, <2>4, <2>5 DEF RootAt
<1>15. SoundInv'
  <2>1. \A image \in DOMAIN dup' : Place(dup'[image]) /\ dup'[image] # None
    BY <1>5, <1>13 DEF AssemblyInv, SoundInv
  <2> QED
    BY <1>1, <1>2, <1>6, <1>10, <1>11, <2>1, SoundMoves DEF AssemblyInv
<1>16. TreeInv'
  <2>1. SeenMade'
    BY <1>1, <1>2, <1>6, <1>10, <1>11, SeenMoves DEF AssemblyInv, TreeInv
  <2>2. AddedMade'
    BY <1>6, <1>11 DEF AssemblyInv, TreeInv, AddedMade
  <2>3. \A image \in DOMAIN dup' : dup'[image] \in DirsOf(out')
    BY <1>5, <1>11, <1>13 DEF AssemblyInv, TreeInv
  <2>4. Supply(none)
    BY <1>5, <1>10 DEF Supply, Makes
  <2> QED
    BY <1>1, <1>2, <1>10, <1>11, <2>1, <2>2, <2>3, <2>4, TreeMoves DEF AssemblyInv
<1>17. BundleInv'
  <2>1. IsList(out) /\ BundleInv /\ Order
    BY DEF BuildInv, BuildType, IsArchive, AssemblyInv, SoundInv
  <2>2. Moves(<<>>)
    BY <1>11 DEF none
  <2> QED
    BY <1>1, <1>2, <1>5, <1>6, <1>8, <1>9, <1>11, <1>13, <1>14, <2>1, <2>2, SecondBundle
<1> QED
  BY <1>15, <1>16, <1>17 DEF AssemblyInv

(***************************************************************************)
(* Files of the configuration                                              *)
(***************************************************************************)
Slashless(path) == \A k \in 1..(Len(path) - 1) : path[k] # ""

LEMMA LessOne ==
  ASSUME NEW n \in Nat, NEW k \in 1..(n - 1)
  PROVE  /\ k \in 1..n /\ n - 1 \in Nat /\ n - 1 \in 1..n /\ n - 1 \in 1..(n - 1) /\ n > 1
         /\ k > 1 => k - 1 \in 1..(n - 1)
OBVIOUS

LEMMA LeadingIs ==
  ASSUME NEW path, IsList(path), path # <<>>, Slashless(path)
  PROVE  /\ IsList(Leading(path)) /\ DOMAIN Leading(path) = 1..(Len(path) - 1) /\ Len(path) \in Nat
         /\ \A k \in DOMAIN Leading(path) :
              /\ k \in DOMAIN path /\ Leading(path)[k] = SubSeq(path, 1, k)
              /\ Bare(Leading(path)[k]) = Leading(path)[k] /\ Len(Leading(path)[k]) = k /\ Leading(path)[k][1] = path[1]
              /\ \A d \in Above(Leading(path)[k]) : k - 1 \in DOMAIN Leading(path) /\ d = Leading(path)[k - 1]
<1>1. Len(path) \in Nat /\ DOMAIN path = 1..Len(path) /\ Len(path) # 0
  BY ListDomain
<1>2. Len(path) - 1 \in Nat
  BY <1>1
<1>3. IsList(Leading(path)) /\ DOMAIN Leading(path) = 1..(Len(path) - 1)
  <2> DEFINE l == Leading(path)
             n == Len(path) - 1
  <2>1. l = [i \in 1..n |-> l[i]] /\ n \in Nat
    BY <1>2 DEF Leading
  <2> HIDE DEF l, n
  <2>2. IsList(l) /\ Len(l) = n
    BY <2>1, Listed
  <2>3. DOMAIN l = 1..n
    BY <2>1, <2>2, ListDomain
  <2> QED
    BY <2>2, <2>3 DEF l, n
<1>4. ASSUME NEW k \in 1..(Len(path) - 1)
      PROVE  /\ k \in DOMAIN path /\ Leading(path)[k] = SubSeq(path, 1, k)
             /\ Bare(Leading(path)[k]) = Leading(path)[k] /\ Len(Leading(path)[k]) = k /\ Leading(path)[k][1] = path[1]
             /\ \A d \in Above(Leading(path)[k]) : k - 1 \in 1..(Len(path) - 1) /\ d = Leading(path)[k - 1]
  <2>1. /\ k \in DOMAIN path /\ path[k] # ""
        /\ k > 1 => k - 1 \in 1..(Len(path) - 1)
    BY <1>1, <1>4, LessOne DEF Slashless
  <2>2. \A j \in 1..(Len(path) - 1) : Leading(path)[j] = SubSeq(path, 1, j)
    BY DEF Leading
  <2> DEFINE s == SubSeq(path, 1, k)
  <2>3. /\ IsList(s) /\ Len(s) = k /\ k \in Nat \ {0} /\ Bare(s) = s
        /\ \A j \in 1..k : s[j] = path[j]
    BY <2>1, PrefixEntry
  <2>4. s[1] = path[1]
    <3>1. 1 \in 1..k
      BY <2>3
    <3> QED
      BY <2>3, <3>1
  <2>5. k > 1 => Front(s) = SubSeq(path, 1, k - 1)
    BY <2>1, PrefixFront
  <2> HIDE DEF s
  <2>6. \A d \in Above(s) : k > 1 /\ d = Front(s)
    BY <2>3 DEF Above
  <2>7. Leading(path)[k] = s
    BY <1>4, <2>2 DEF s
  <2>8. ASSUME NEW d \in Above(s)
        PROVE  k - 1 \in 1..(Len(path) - 1) /\ d = Leading(path)[k - 1]
    <3>1. k > 1 /\ d = Front(s)
      BY <2>6, <2>8
    <3>2. k - 1 \in 1..(Len(path) - 1)
      BY <2>1, <3>1
    <3>3. Leading(path)[k - 1] = SubSeq(path, 1, k - 1)
      BY <2>2, <3>2, Zenon
    <3> QED
      BY <2>5, <3>1, <3>2, <3>3, Zenon
  <2>9. s = SubSeq(path, 1, k)
    BY DEF s
  <2> QED
    BY <2>1, <2>3, <2>4, <2>7, <2>8, <2>9, Zenon
<1> QED
  BY <1>1, <1>3, <1>4

LEMMA PathAbove ==
  ASSUME NEW path, IsList(path), path # <<>>, Slashless(path), NEW d \in Above(path)
  PROVE  d \in ToSet(Leading(path))
<1>1. /\ DOMAIN Leading(path) = 1..(Len(path) - 1) /\ Len(path) \in Nat
      /\ \A k \in DOMAIN Leading(path) : k \in DOMAIN path /\ Leading(path)[k] = SubSeq(path, 1, k)
  BY LeadingIs
<1>2. Len(Bare(path)) > 1 /\ d = Front(Bare(path))
  BY DEF Above
<1>3. DOMAIN path = 1..Len(path)
  BY ListDomain
<1>4. CASE Last(path) # ""
  <2>1. Bare(path) = path
    BY <1>4, BareIs
  <2>2. Len(path) > 1 /\ d = Front(path) /\ Front(path) = SubSeq(path, 1, Len(path) - 1)
    BY <1>2, <2>1, FrontIs
  <2>3. Len(path) - 1 \in 1..(Len(path) - 1)
    BY <1>1, <2>2
  <2> QED
    BY <1>1, <2>2, <2>3 DEF ToSet
<1>5. CASE Last(path) = ""
  <2>1. Bare(path) = Front(path) /\ Front(path) = SubSeq(path, 1, Len(path) - 1) /\ Len(path) = Len(Front(path)) + 1 /\ Len(Front(path)) \in Nat
    BY <1>5, BareIs, FrontIs
  <2>2. Len(Front(path)) > 1
    BY <1>2, <2>1
  <2>3. Len(path) - 1 > 1 /\ Len(path) - 1 \in 1..Len(path) /\ Len(path) - 1 - 1 \in 1..(Len(path) - 1)
    BY <1>1, <2>1, <2>2
  <2>4. Front(SubSeq(path, 1, Len(path) - 1)) = SubSeq(path, 1, Len(path) - 1 - 1)
    BY <1>3, <2>3, PrefixFront
  <2> QED
    BY <1>1, <1>2, <2>1, <2>3, <2>4 DEF ToSet
<1> QED
  BY <1>4, <1>5

Parents(m, uid) == [i \in DOMAIN m |-> [Dir(m[i]) EXCEPT !.uid = uid]]

LEMMA ParentsAre ==
  ASSUME NEW m, IsList(m), NEW uid
  PROVE  /\ IsList(Parents(m, uid)) /\ DOMAIN Parents(m, uid) = DOMAIN m
         /\ \A i \in DOMAIN m : Parents(m, uid)[i].name = m[i] /\ Parents(m, uid)[i].type = "dir"
<1> DEFINE es == Parents(m, uid)
<1>1. Len(m) \in Nat /\ DOMAIN m = 1..Len(m)
  BY ListDomain
<1>2. es = [i \in 1..Len(m) |-> es[i]] /\ DOMAIN es = DOMAIN m
  BY <1>1 DEF Parents
<1>3. \A i \in DOMAIN m : es[i].name = m[i] /\ es[i].type = "dir"
  BY DEF Parents, Dir
<1> HIDE DEF es
<1>4. IsList(es)
  BY <1>1, <1>2, Listed
<1> QED
  BY <1>2, <1>3, <1>4 DEF es

LEMMA ParentsSupported ==
  ASSUME NEW path, Named(path), Slashless(path), NEW T, NEW D, \A d \in ToSet(Leading(path)) : d \notin T => d \in D, NEW uid
  PROVE  LET m  == Matching(Leading(path), T)
             es == Parents(m, uid)
         IN /\ IsList(es) /\ Supports(es, D) /\ Others(es) /\ DirsOf(es) = ToSet(m)
            /\ ToSet(Leading(path)) \subseteq D \cup DirsOf(es)
<1> DEFINE L  == Leading(path)
           m  == Matching(L, T)
           es == Parents(m, uid)
<1>1. IsList(path) /\ path # <<>> /\ path[1] # "containers"
  BY NamedIs
<1>2. /\ IsList(L) /\ DOMAIN L = 1..(Len(path) - 1) /\ Len(path) \in Nat
      /\ \A k \in DOMAIN L : /\ Bare(L[k]) = L[k] /\ L[k][1] = path[1]
                             /\ \A d \in Above(L[k]) : k - 1 \in DOMAIN L /\ d = L[k - 1]
  BY <1>1, LeadingIs
<1> HIDE DEF L
<1>3. IsList(m) /\ InOrder(m, L, T)
  BY <1>2, MatchingInOrder
<1>4. \A d \in ToSet(L) : d \in T => d \in ToSet(m)
  <2>1. L \in Seq(ToSet(L))
    BY <1>2 DEF IsList
  <2>2. \A k \in DOMAIN L : L[k] \in T => \E i \in DOMAIN m : m[i] = L[k]
    <3> DEFINE S == ToSet(L)
    <3> HIDE DEF S
    <3>1. L \in Seq(S)
      BY <2>1 DEF S
    <3> QED
      BY <3>1, MatchingElements
  <2> QED
    BY <2>2 DEF ToSet
<1> HIDE DEF m
<1>5. /\ IsList(es) /\ DOMAIN es = DOMAIN m
      /\ \A i \in DOMAIN m : es[i].name = m[i] /\ es[i].type = "dir"
  BY <1>3, ParentsAre
<1> HIDE DEF es
<1>6. \A i \in DOMAIN m : \E k \in DOMAIN L : m[i] = L[k]
  BY <1>3 DEF InOrder
<1>7. \A i \in DOMAIN m : Bare(m[i]) = m[i] /\ m[i][1] # "containers"
  BY <1>1, <1>2, <1>6
<1>8. Others(es)
  BY <1>5, <1>7 DEF Others, IsOwn
<1>9. DirsOf(es) = ToSet(m)
  <2>1. ASSUME NEW d
        PROVE  d \in DirsOf(es) <=> d \in ToSet(m)
    <3>1. d \in DirsOf(es) <=> \E j \in DOMAIN es : es[j].type = "dir" /\ Bare(es[j].name) = d
      BY DirsAre
    <3> QED
      BY <1>5, <1>7, <3>1 DEF ToSet
  <2> QED
    BY <2>1
<1>10. ToSet(L) \subseteq D \cup DirsOf(es)
  <2>1. \A d \in ToSet(L) : d \notin T => d \in D
    BY DEF L
  <2> QED
    BY <1>4, <1>9, <2>1
<1>11. ASSUME NEW i \in DOMAIN es, NEW d \in Above(es[i].name)
       PROVE  d \in D \/ \E j \in 1..(i - 1) : es[j].type = "dir" /\ Bare(es[j].name) = d
  <2>1. PICK k \in DOMAIN L :
           /\ m[i] = L[k] /\ \A j \in 1..(k - 1) : L[j] \in T => \E l \in 1..(i - 1) : m[l] = L[j]
    BY <1>3, <1>5, <1>11 DEF InOrder
  <2>2. k - 1 \in DOMAIN L /\ d = L[k - 1]
    BY <1>2, <1>5, <1>11, <2>1
  <2>3. CASE d \in T
    <3>1. k - 1 \in 1..(k - 1)
      BY <1>2, <2>2
    <3>2. PICK l \in 1..(i - 1) : m[l] = d
      BY <2>1, <2>2, <2>3, <3>1
    <3>3. l \in DOMAIN m
      <4>1. DOMAIN m = 1..Len(m) /\ Len(m) \in Nat
        BY <1>3, ListDomain
      <4>2. i \in 1..Len(m)
        BY <1>5, <1>11, <4>1
      <4> QED
        BY <3>2, <4>1, <4>2, BeforeIn
    <3> QED
      BY <1>5, <1>7, <3>2, <3>3
  <2>4. CASE d \notin T
    <3>1. d \in ToSet(L)
      BY <2>2 DEF ToSet
    <3> QED
      BY <2>4, <3>1 DEF L
  <2> QED
    BY <2>3, <2>4
<1>12. Supports(es, D)
  BY <1>11 DEF Supports
<1> QED
  BY <1>5, <1>8, <1>9, <1>10, <1>12 DEF es, m, L

\* A file of the configuration has a path that the directories above it lead to.
LEMMA FileIs ==
  ASSUME NEW fs, FilesTidy(fs), NEW f \in ToSet(fs)
  PROVE  /\ Named(PathOf(f)) /\ Slashless(PathOf(f))
         /\ \A g \in ToSet(fs) : PathOf(f) \in ToSet(Leading(PathOf(g))) => "directory" \in f.given
         /\ \A g \in ToSet(fs) : Named(PathOf(g)) /\ Slashless(PathOf(g))
<1>1. PICK i \in DOMAIN fs : fs[i] = f
  BY DEF ToSet
<1>2. \A g \in ToSet(fs) : \E j \in DOMAIN fs : fs[j] = g
  BY DEF ToSet
<1>3. \A j \in DOMAIN fs : Named(PathOf(fs[j])) /\ Slashless(PathOf(fs[j]))
  BY DEF FilesTidy, Slashless
<1>4. \A j \in DOMAIN fs : PathOf(fs[i]) \in ToSet(Leading(PathOf(fs[j]))) => "directory" \in fs[i].given
  BY DEF FilesTidy
<1> QED
  BY <1>1, <1>2, <1>3, <1>4, Zenon

LEMMA LeadingBare ==
  ASSUME NEW path, Named(path), Slashless(path), NEW d \in ToSet(Leading(path))
  PROVE  Bare(d) = d
<1>1. \A k \in DOMAIN Leading(path) : Bare(Leading(path)[k]) = Leading(path)[k]
  BY NamedIs, LeadingIs
<1> QED
  BY <1>1 DEF ToSet

LEMMA OwnedIs ==
  ASSUME NEW name, NEW link, NEW body, NEW uid, NEW e \in {Dir(name), Symlink(name, link), Reg(name, body)}
  PROVE  [e EXCEPT !.uid = uid].name = name /\ (e = Dir(name) => [e EXCEPT !.uid = uid].type = "dir")
<1>1. CASE e = Dir(name)
  BY <1>1 DEF Dir
<1>2. CASE e = Symlink(name, link)
  BY <1>2 DEF Symlink, Dir
<1>3. CASE e = Reg(name, body)
  BY <1>3 DEF Reg, Dir
<1> QED
  BY <1>1, <1>2, <1>3

LEMMA AddFileAssembly ==
  ASSUME AllTidy, BuildInv, AssemblyInv, AddFile
  PROVE  AssemblyInv'
<1> DEFINE none == <<>>
           path == IF Now.f.path[1] = "" THEN Tail(Now.f.path) ELSE Now.f.path
           T    == ToSet(Leading(path)) \ added
           dirs == Matching(Leading(path), T)
           uid  == IdNumeric(Now.f.uid, Ids(cfg))
           file == CASE "directory" \in Now.f.given -> Dir(path)
                     [] Now.f.given \cap {"directory", "symlink"} = {"symlink"} -> Symlink(path, Now.f.link)
                     [] OTHER -> Reg(path, Now.f.body)
           above == Parents(dirs, uid)
           owned == [file EXCEPT !.uid = uid]
<1>1. At("file")
  BY ZenonT(60) DEF AddFile
<1>2. /\ todo # <<>> /\ todo[1].do = "file" /\ Now = todo[1] /\ Sound(Now)
  BY <1>1, AtHead, HeadSound
<1>3. /\ \/ Fail /\ UNCHANGED <<out, kf, added>>
         \/ Emit(none, none) /\ added' = added
         \/ Emit(above \o <<owned>>, none) /\ added' = added \cup ToSet(dirs) \cup {path}
      /\ UNCHANGED <<cfg, seen, dup, bundles>>
  BY ZenonT(60) DEF AddFile, Parents
<1>4. PICK f : f = Now.f
  OBVIOUS
<1>5. f \in ToSet(cfg.files) /\ path = PathOf(f)
  <2>1. path = PathOf(Now.f)
    BY DEF PathOf
  <2> HIDE DEF path
  <2>2. Now.f \in ToSet(cfg.files)
    BY <1>2 DEF Sound
  <2> QED
    BY <1>4, <2>1, <2>2
<1>6. owned.name = path /\ ("directory" \in f.given => owned.type = "dir")
  <2> HIDE DEF path, uid
  <2>1. file \in {Dir(path), Symlink(path, Now.f.link), Reg(path, Now.f.body)}
    BY DEF file
  <2>2. ASSUME "directory" \in Now.f.given PROVE file = Dir(path)
    <3>1. Now.f.given \cap {"directory", "symlink"} # {"symlink"}
      BY <2>2
    <3> QED
      BY <2>2, <3>1, Zenon DEF file
  <2> HIDE DEF file
  <2>3. owned = [file EXCEPT !.uid = uid]
    BY DEF owned
  <2> HIDE DEF owned
  <2>4. PICK e, u, p, g, h : e = file /\ u = uid /\ p = path /\ g = Now.f.link /\ h = Now.f.body
    OBVIOUS
  <2>5. e \in {Dir(p), Symlink(p, g), Reg(p, h)} /\ owned = [e EXCEPT !.uid = u] /\ (file = Dir(path) => e = Dir(p))
    BY <2>1, <2>3, <2>4, Zenon
  <2>6. owned.name = p /\ (e = Dir(p) => owned.type = "dir")
    BY <2>5, OwnedIs
  <2> QED
    BY <1>4, <2>2, <2>4, <2>5, <2>6, Zenon
<1> HIDE DEF owned
<1>7. FilesTidy(cfg.files)
  BY DEF AssemblyInv, SoundInv, ConfigTidy
<1>8. /\ Named(path) /\ Slashless(path)
      /\ \A g \in ToSet(cfg.files) : path \in ToSet(Leading(PathOf(g))) => "directory" \in f.given
      /\ \A g \in ToSet(cfg.files) : Named(PathOf(g)) /\ Slashless(PathOf(g))
  BY <1>5, <1>7, FileIs
<1> HIDE DEF path, uid, file
<1>9. \A i \in DOMAIN cfg.files : cfg.files[i] \in ToSet(cfg.files)
  BY DEF ToSet
<1>10. \A d \in ToSet(Leading(path)) : d \notin T => d \in DirsOf(out)
  <2>1. PICK i \in DOMAIN cfg.files : cfg.files[i] = f
    BY <1>5 DEF ToSet
  <2>2. \A d \in ToSet(Leading(PathOf(cfg.files[i]))) : d \in added => d \in DirsOf(out)
    BY DEF AssemblyInv, TreeInv, AddedMade
  <2> QED
    BY <1>5, <2>1, <2>2
<1> HIDE DEF T
<1>11. /\ IsList(above) /\ Supports(above, DirsOf(out)) /\ Others(above) /\ DirsOf(above) = ToSet(dirs)
       /\ ToSet(Leading(path)) \subseteq DirsOf(out) \cup DirsOf(above)
  BY <1>8, <1>10, ParentsSupported
<1> HIDE DEF above, dirs
<1>12. /\ IsList(<<owned>>) /\ Supports(<<owned>>, DirsOf(out) \cup DirsOf(above)) /\ Others(<<owned>>)
       /\ DirsOf(<<owned>>) = (IF owned.type = "dir" THEN {Bare(path)} ELSE {})
  <2>1. IsList(path) /\ path # <<>>
    BY <1>8, NamedIs
  <2>2. Above(owned.name) \subseteq DirsOf(out) \cup DirsOf(above)
    BY <1>6, <1>8, <1>11, <2>1, PathAbove
  <2>3. ~IsOwn(owned.name)
    BY <1>6, <1>8, NamedNotOwn
  <2> QED
    BY <1>6, <2>2, <2>3, SupportsOne, OthersOne
<1> DEFINE es == above \o <<owned>>
<1>13. IsList(es) /\ Supports(es, DirsOf(out)) /\ Others(es) /\ DirsOf(es) = DirsOf(above) \cup DirsOf(<<owned>>)
  BY <1>11, <1>12, ConcatIs, SupportsMore, OthersMore, DirsConcat
<1> HIDE DEF es
<1>14. Makes(todo[1]) = {} /\ Now.to # "kernel"
  BY <1>2 DEF Makes, Sound, Outputs, OfImage
<1>15. IsList(none) /\ Supports(none, DirsOf(out)) /\ Others(none)
  BY NoEntries
<1>16. CASE Fail /\ UNCHANGED <<out, kf, added>>
  BY <1>3, <1>16, EndedAssembly DEF Fail
<1>17. CASE Emit(none, none) /\ added' = added
  BY <1>2, <1>3, <1>14, <1>15, <1>17, OneAssembly
<1>18. CASE Emit(es, none) /\ added' = added \cup ToSet(dirs) \cup {path}
  <2>1. DirsOf(out) \subseteq DirsOf(out') /\ DirsOf(out') = DirsOf(out) \cup DirsOf(es)
    BY <1>13, <1>14, <1>15, <1>18, EmitMade DEF AssemblyInv
  <2>2. ASSUME NEW p \in added', NEW i \in DOMAIN cfg.files, p \in ToSet(Leading(PathOf(cfg.files[i])))
        PROVE  p \in DirsOf(out')
    <3>1. CASE p \in added
      BY <2>1, <2>2, <3>1 DEF AssemblyInv, TreeInv, AddedMade
    <3>2. CASE p \in ToSet(dirs)
      BY <1>11, <1>13, <2>1, <3>2
    <3>3. CASE p = path
      <4>1. "directory" \in f.given
        BY <1>8, <1>9, <2>2, <3>3
      <4>2. Bare(path) = path
        BY <1>8, <1>9, <2>2, <3>3, LeadingBare
      <4>3. path \in DirsOf(<<owned>>)
        BY <1>6, <1>12, <4>1, <4>2
      <4> QED
        BY <1>13, <2>1, <3>3, <4>3
    <3> QED
      BY <1>18, <2>2, <3>1, <3>2, <3>3
  <2>3. AddedMade'
    BY <1>3, <2>2 DEF AddedMade
  <2> QED
    BY <1>2, <1>3, <1>13, <1>14, <1>18, <2>3, OneAssembly
<1> QED
  BY <1>3, <1>16, <1>17, <1>18 DEF es

(***************************************************************************)
(* The items of a build                                                    *)
(***************************************************************************)
\* An item that a build begins with.
Begins(t, fs) ==
  /\ t.do \in {"image", "close", "container", "file", "addition", "mkimage", "format"}
  /\ t.do = "image" => t.prefix = None /\ t.to \in {"kernel", "tar"}
  /\ t.do # "image" => t.to = "tar"
  /\ t.do = "container" => Spot(t.path)
  /\ t.do = "file" => t.f \in ToSet(fs)

\* A list of them: its containers are of these sections and lie apart.
Begun(l, fs, sections) ==
  /\ IsList(l) /\ Apart(l)
  /\ \A i \in DOMAIN l : Begins(l[i], fs) /\ (l[i].do = "container" => l[i].path[2] \in sections)

LEMMA BegunMore ==
  ASSUME NEW a, NEW b, NEW fs, NEW S, NEW T, S \cap T = {}, Begun(a, fs, S), Begun(b, fs, T)
  PROVE  Begun(a \o b, fs, S \cup T)
<1> DEFINE l == a \o b
<1>1. IsList(a) /\ IsList(b) /\ IsList(l)
  BY ListConcat DEF Begun
<1>2. \A i \in DOMAIN l : (i \in DOMAIN a /\ l[i] = a[i]) \/ (i - Len(a) \in DOMAIN b /\ l[i] = b[i - Len(a)])
  <2>1. \A i \in DOMAIN l : (i \in DOMAIN a => l[i] = a[i])
    BY <1>1, ConcatIs, ListDomain
  <2>2. \A i \in DOMAIN l : i \in DOMAIN a \/ (i - Len(a) \in DOMAIN b /\ l[i] = b[i - Len(a)])
    BY <1>1, ListConcat, Zenon
  <2> QED
    BY <2>1, <2>2
<1>3. DOMAIN l \subseteq Nat /\ Len(a) \in Nat
  BY <1>1, ListDomain
<1> HIDE DEF l
<1>4. \A i \in DOMAIN l : Begins(l[i], fs) /\ (l[i].do = "container" => l[i].path[2] \in S \cup T)
  BY <1>2 DEF Begun
<1>5. \A i \in DOMAIN a : a[i].do \in Placing => a[i].path[2] \in S
  BY DEF Begun, Placing, Begins
<1>6. \A i \in DOMAIN b : b[i].do \in Placing => b[i].path[2] \in T
  BY DEF Begun, Placing, Begins
<1>7. ASSUME NEW i \in DOMAIN l, NEW j \in DOMAIN l, i # j, l[i].do \in Placing, l[j].do \in Placing
      PROVE  l[i].path # l[j].path
  <2>1. CASE i \in DOMAIN a /\ l[i] = a[i] /\ j \in DOMAIN a /\ l[j] = a[j]
    BY <1>7, <2>1 DEF Begun, Apart
  <2>2. CASE i - Len(a) \in DOMAIN b /\ l[i] = b[i - Len(a)] /\ j - Len(a) \in DOMAIN b /\ l[j] = b[j - Len(a)]
    <3>1. i - Len(a) # j - Len(a)
      BY <1>3, <1>7
    <3> DEFINE g == i - Len(a)
               h == j - Len(a)
    <3> HIDE DEF g, h
    <3>2. g # h /\ g \in DOMAIN b /\ h \in DOMAIN b /\ l[i] = b[g] /\ l[j] = b[h]
      BY <2>2, <3>1 DEF g, h
    <3> QED
      BY <1>7, <3>2 DEF Begun, Apart
  <2>3. CASE i \in DOMAIN a /\ l[i] = a[i] /\ j - Len(a) \in DOMAIN b /\ l[j] = b[j - Len(a)]
    BY <1>5, <1>6, <1>7, <2>3
  <2>4. CASE i - Len(a) \in DOMAIN b /\ l[i] = b[i - Len(a)] /\ j \in DOMAIN a /\ l[j] = a[j]
    BY <1>5, <1>6, <1>7, <2>4
  <2> QED
    BY <1>2, <2>1, <2>2, <2>3, <2>4
<1> QED
  BY <1>1, <1>4, <1>7 DEF Begun, Apart, l

LEMMA BegunNone ==
  ASSUME NEW fs
  PROVE  Begun(<<>>, fs, {})
<1> DEFINE l == <<>>
<1>1. IsList(l) /\ DOMAIN l = {}
  BY EmptyList
<1> HIDE DEF l
<1> QED
  BY <1>1 DEF Begun, Apart, l

\* A list without containers.
LEMMA BegunPlain ==
  ASSUME NEW l, IsList(l), NEW fs, \A i \in DOMAIN l : Begins(l[i], fs) /\ l[i].do # "container"
  PROVE  Begun(l, fs, {})
BY DEF Begun, Apart, Placing, Begins

\* One item for each of a list, of which none is a container.
LEMMA BegunEach ==
  ASSUME NEW s, IsList(s), NEW f, f = [i \in DOMAIN s |-> f[i]],
         NEW fs, \A i \in DOMAIN s : Begins(f[i], fs) /\ f[i].do # "container"
  PROVE  Begun(f, fs, {})
<1>1. Len(s) \in Nat /\ DOMAIN s = 1..Len(s)
  BY ListDomain
<1>2. IsList(f)
  BY <1>1, Listed
<1>3. DOMAIN f = DOMAIN s
  OBVIOUS
<1> QED
  BY <1>2, <1>3, BegunPlain

LEMMA ThreeIs ==
  ASSUME NEW x, NEW y, NEW z
  PROVE  /\ IsList(<<x, y, z>>) /\ Len(<<x, y, z>>) = 3 /\ DOMAIN <<x, y, z>> = {1, 2, 3}
         /\ <<x, y, z>>[1] = x /\ <<x, y, z>>[2] = y /\ <<x, y, z>>[3] = z
<1> DEFINE s == <<x, y, z>>
<1>1. s \in Seq({x, y, z}) /\ Len(s) = 3 /\ s[1] = x /\ s[2] = y /\ s[3] = z /\ DOMAIN s = {1, 2, 3}
  OBVIOUS
<1> HIDE DEF s
<1>2. IsList(s)
  BY <1>1, ListIs
<1> QED
  BY <1>1, <1>2 DEF s

LEMMA ContainerBegins ==
  ASSUME NEW c, NEW section, NEW dir, DirName(section), DirName(dir), NEW fs
  PROVE  LET t == Container(c, section, dir)
         IN /\ Begins(t, fs) /\ t.do = "container" /\ t.path[2] = section /\ t.path[3] = dir /\ t.image = c.image
<1> DEFINE path == <<"containers", section, dir>>
<1>1. Container(c, section, dir) = [do |-> "container", to |-> "tar", image |-> c.image, yaml |-> c.yaml,
                                    path |-> path]
  BY DEF Container
<1>2. /\ IsList(path) /\ Len(path) = 3 /\ DOMAIN path = {1, 2, 3}
      /\ path[1] = "containers" /\ path[2] = section /\ path[3] = dir
  BY ThreeIs
<1> HIDE DEF path
<1>3. \A k \in DOMAIN path : DirName(path[k])
  <2>1. DirName("containers")
    BY DEF DirName
  <2>2. \A k \in DOMAIN path : k = 1 \/ k = 2 \/ k = 3
    BY <1>2
  <2> QED
    BY <1>2, <2>1, <2>2, Zenon
<1>4. Spot(path)
  BY <1>2, <1>3, Zenon DEF Spot
<1> QED
  BY <1>1, <1>2, <1>4 DEF Begins

\* The containers of a section.
LEMMA BegunSection ==
  ASSUME NEW cs, IsList(cs), NEW fs, NEW section, DirName(section), NEW dirs,
         NEW f, f = [i \in DOMAIN cs |-> f[i]],
         \A i \in DOMAIN cs : f[i] = Container(cs[i], section, dirs[i]) /\ DirName(dirs[i]),
         \A i, j \in DOMAIN cs : i # j => dirs[i] # dirs[j]
  PROVE  Begun(f, fs, {section})
<1>1. Len(cs) \in Nat /\ DOMAIN cs = 1..Len(cs)
  BY ListDomain
<1>2. IsList(f) /\ DOMAIN f = DOMAIN cs
  BY <1>1, Listed
<1>3. \A i \in DOMAIN f : Begins(f[i], fs) /\ f[i].do = "container" /\ f[i].path[2] = section /\ f[i].path[3] = dirs[i]
  BY <1>2, ContainerBegins
<1>4. Apart(f)
  BY <1>2, <1>3 DEF Apart
<1> QED
  BY <1>2, <1>3, <1>4 DEF Begun

LEMMA BegunNumbered ==
  ASSUME NEW cs, IsList(cs), DirNames(cs), NEW fs, NEW section, DirName(section)
  PROVE  Begun(Numbered(cs, section), fs, {section})
<1> DEFINE f    == Numbered(cs, section)
           dirs == [i \in DOMAIN cs |-> NumberedName(i, cs[i].name)]
<1>1. f = [i \in DOMAIN cs |-> f[i]]
  BY DEF Numbered
<1>2. \A i \in DOMAIN cs : f[i] = Container(cs[i], section, dirs[i]) /\ DirName(dirs[i])
  BY DEF Numbered, DirNames
<1>3. \A i, j \in DOMAIN cs : i # j => dirs[i] # dirs[j]
  BY DEF DirNames
<1> HIDE DEF f, dirs
<1> QED
  BY <1>1, <1>2, <1>3, BegunSection DEF f

LEMMA BegunServices ==
  ASSUME NEW cs, IsList(cs), UniqueServices(cs), \A i \in DOMAIN cs : DirName(cs[i].name), NEW fs
  PROVE  Begun([i \in DOMAIN cs |-> Container(cs[i], "services", cs[i].name)], fs, {"services"})
<1> DEFINE f    == [i \in DOMAIN cs |-> Container(cs[i], "services", cs[i].name)]
           dirs == [i \in DOMAIN cs |-> cs[i].name]
<1>1. f = [i \in DOMAIN cs |-> f[i]]
  OBVIOUS
<1>2. \A i \in DOMAIN cs : f[i] = Container(cs[i], "services", dirs[i]) /\ DirName(dirs[i])
  OBVIOUS
<1>3. \A i, j \in DOMAIN cs : i # j => dirs[i] # dirs[j]
  BY DEF UniqueServices
<1>4. DirName("services")
  BY DEF DirName
<1> HIDE DEF f, dirs
<1> QED
  BY <1>1, <1>2, <1>3, <1>4, BegunSection DEF f

\* The names of the services of a configuration that may be built differ.
LEMMA MergedUnique ==
  ASSUME NEW files, IsList(files), Merged(files).valid
  PROVE  UniqueServices(Merged(files).services)
<1> DEFINE f == CHOOSE f : Merging(files, f, Len(files))
<1>1. Len(files) \in Nat
  BY ListDomain
<1>2. Merging(files, f, Len(files))
  BY <1>1, MergingsExist
<1>3. Merged(files) = f[Len(files)]
  BY DEF Merged, Merging, Step
<1> HIDE DEF f
<1>4. f[Len(files)] = Step(files, f, Len(files))
  <2>1. Len(files) \in 0..Len(files)
    BY <1>1
  <2> QED
    BY <1>2, <2>1 DEF Merging
<1>5. CASE Len(files) = 0
  <2>1. Merged(files) = NoConfig
    BY <1>3, <1>4, <1>5 DEF Step
  <2>2. NoConfig.services = <<>>
    BY DEF NoConfig
  <2>3. DOMAIN Merged(files).services = {}
    BY <2>1, <2>2, EmptyList
  <2> QED
    BY <2>3 DEF UniqueServices
<1>6. CASE Len(files) # 0
  <2>1. PICK c, d : Merged(files) = AppendConfig(c, d)
    BY <1>3, <1>4, <1>6 DEF Step
  <2> DEFINE services == c.services \o d.services
  <2> HIDE DEF services
  <2>2. AppendConfig(c, d).services = services /\ (AppendConfig(c, d).valid => UniqueServices(services))
    BY DEF AppendConfig, services
  <2> QED
    BY <2>1, <2>2
<1> QED
  BY <1>5, <1>6

Sections == {"onboot", "onshutdown", "services"}

LEMMA BuildItemsBegun ==
  ASSUME NEW c, IsConfig(c), ConfigTidy(c), UniqueServices(c.services)
  PROVE  Begun(BuildItems(c), c.files, Sections)
<1> DEFINE kernel == IF c.kimage = None THEN <<>>
                     ELSE <<ImageTar(c.kimage[1], None, "kernel", None), Do("close")>>
           init == [i \in DOMAIN c.init |-> ImageTar(c.init[i], None, "tar", <<"", "run", "resolvconf", "resolv.conf">>)]
           onboot == Numbered(c.onboot, "onboot")
           onshutdown == Numbered(c.onshutdown, "onshutdown")
           services == [i \in DOMAIN c.services |-> Container(c.services[i], "services", c.services[i].name)]
           files == [i \in DOMAIN c.files |-> [do |-> "file", to |-> "tar", f |-> c.files[i]]]
           fs    == c.files
<1>1. BuildItems(c) = kernel \o init \o onboot \o onshutdown \o services \o files
  BY DEF BuildItems
<1>2. IsList(c.init) /\ IsList(c.onboot) /\ IsList(c.onshutdown) /\ IsList(c.services) /\ IsList(c.files)
  BY DEF IsConfig, HasImages
<1>3. Begun(kernel, fs, {})
  <2> DEFINE t == ImageTar(c.kimage[1], None, "kernel", None)
             u == Do("close")
             l == <<t, u>>
  <2>1. Begins(t, fs) /\ t.do # "container" /\ Begins(u, fs) /\ u.do # "container"
    BY DEF ImageTar, Do, Begins
  <2>2. kernel = <<>> \/ kernel = l
    OBVIOUS
  <2> HIDE DEF t, u, kernel
  <2>3. l \in Seq({t, u}) /\ DOMAIN l = 1..2 /\ l[1] = t /\ l[2] = u
    OBVIOUS
  <2> HIDE DEF l
  <2>4. IsList(l) /\ \A i \in DOMAIN l : l[i] = t \/ l[i] = u
    BY <2>3, ListIs
  <2>5. Begun(l, fs, {})
    BY <2>1, <2>4, BegunPlain
  <2> QED
    BY <2>2, <2>5, BegunNone
<1>4. Begun(init, fs, {})
  <2> DEFINE resolv == <<"", "run", "resolvconf", "resolv.conf">>
  <2>1. init = [i \in DOMAIN c.init |-> ImageTar(c.init[i], None, "tar", resolv)]
    OBVIOUS
  <2> HIDE DEF resolv, init
  <2>2. init = [i \in DOMAIN c.init |-> init[i]] /\ \A i \in DOMAIN c.init : init[i] = ImageTar(c.init[i], None, "tar", resolv)
    BY <2>1
  <2>3. ASSUME NEW i \in DOMAIN c.init PROVE Begins(init[i], fs) /\ init[i].do # "container"
    <3>1. init[i] = ImageTar(c.init[i], None, "tar", resolv)
      BY <2>2
    <3> HIDE DEF fs
    <3> QED
      BY <3>1 DEF Begins, ImageTar
  <2> QED
    BY <1>2, <2>2, <2>3, BegunEach
<1>5. Begun(onboot, fs, {"onboot"}) /\ Begun(onshutdown, fs, {"onshutdown"})
  <2>1. DirName("onboot") /\ DirName("onshutdown")
    BY DEF DirName
  <2> QED
    BY <1>2, <2>1, BegunNumbered DEF ConfigTidy
<1>6. Begun(services, fs, {"services"})
  BY <1>2, BegunServices DEF ConfigTidy
<1>7. Begun(files, fs, {})
  <2>1. files = [i \in DOMAIN fs |-> files[i]]
    OBVIOUS
  <2>2. ASSUME NEW i \in DOMAIN fs PROVE Begins(files[i], fs) /\ files[i].do # "container"
    <3>1. files[i] = [do |-> "file", to |-> "tar", f |-> fs[i]] /\ fs[i] \in ToSet(fs)
      BY DEF ToSet
    <3> HIDE DEF files
    <3> QED
      BY <3>1 DEF Begins
  <2> HIDE DEF files
  <2> QED
    BY <1>2, <2>1, <2>2, BegunEach
<1> HIDE DEF kernel, init, onboot, onshutdown, services, files, fs
<1>8. Begun(kernel \o init, fs, {} \cup {})
  BY <1>3, <1>4, BegunMore
<1>9. Begun((kernel \o init) \o onboot, fs, {} \cup {"onboot"})
  BY <1>5, <1>8, BegunMore
<1>10. Begun(((kernel \o init) \o onboot) \o onshutdown, fs, {"onboot"} \cup {"onshutdown"})
  <2>1. Begun((kernel \o init) \o onboot, fs, {"onboot"}) /\ {"onboot"} \cap {"onshutdown"} = {}
    BY <1>9
  <2> QED
    BY <1>5, <2>1, BegunMore
<1>11. Begun((((kernel \o init) \o onboot) \o onshutdown) \o services, fs, {"onboot", "onshutdown"} \cup {"services"})
  <2>1. /\ Begun(((kernel \o init) \o onboot) \o onshutdown, fs, {"onboot", "onshutdown"})
        /\ {"onboot", "onshutdown"} \cap {"services"} = {}
    BY <1>10
  <2> QED
    BY <1>6, <2>1, BegunMore
<1>12. Begun(((((kernel \o init) \o onboot) \o onshutdown) \o services) \o files, fs, Sections \cup {})
  <2>1. Begun((((kernel \o init) \o onboot) \o onshutdown) \o services, fs, Sections)
    BY <1>11 DEF Sections
  <2> QED
    BY <1>7, <2>1, BegunMore
<1>13. Begun(((((kernel \o init) \o onboot) \o onshutdown) \o services) \o files, fs, Sections)
  BY <1>12
<1> QED
  BY <1>1, <1>13 DEF fs

\* Of a list that is one between two others, of which none has a container.
LEMMA BegunWithin ==
  ASSUME NEW a, NEW b, NEW c, NEW fs, NEW S, Begun(a, fs, {}), Begun(b, fs, S), Begun(c, fs, {})
  PROVE  /\ Begun((a \o b) \o c, fs, S)
         /\ \A i \in DOMAIN ((a \o b) \o c) : ((a \o b) \o c)[i].do = "container" => ((a \o b) \o c)[i] \in ToSet(b)
<1>1. IsList(a) /\ IsList(b) /\ IsList(c) /\ IsList(a \o b)
  BY ListConcat DEF Begun
<1>2. Begun(a \o b, fs, S)
  <2>1. Begun(a \o b, fs, {} \cup S)
    BY BegunMore
  <2> QED
    BY <2>1
<1>3. Begun((a \o b) \o c, fs, S)
  <2>1. Begun((a \o b) \o c, fs, S \cup {})
    BY <1>2, BegunMore
  <2> QED
    BY <2>1
<1>4. ASSUME NEW i \in DOMAIN ((a \o b) \o c), ((a \o b) \o c)[i].do = "container"
      PROVE  ((a \o b) \o c)[i] \in ToSet(b)
  <2> DEFINE t == ((a \o b) \o c)[i]
  <2>1. (\E j \in DOMAIN (a \o b) : t = (a \o b)[j]) \/ \E j \in DOMAIN c : t = c[j]
    <3>1. ASSUME NEW x, IsList(x), NEW k \in DOMAIN (x \o c)
          PROVE  (\E j \in DOMAIN x : (x \o c)[k] = x[j]) \/ \E j \in DOMAIN c : (x \o c)[k] = c[j]
      <4>1. (k \in DOMAIN x /\ (x \o c)[k] = x[k]) \/ (k - Len(x) \in DOMAIN c /\ (x \o c)[k] = c[k - Len(x)])
        BY <1>1, <3>1, ListConcat, Zenon
      <4> QED
        BY <4>1, Zenon
    <3> QED
      BY <1>1, <1>4, <3>1
  <2>2. ASSUME NEW j \in DOMAIN (a \o b), t = (a \o b)[j]
        PROVE  (\E k \in DOMAIN a : t = a[k]) \/ \E k \in DOMAIN b : t = b[k]
    BY <1>1, <2>2, ListConcat
  <2>3. t.do = "container"
    BY <1>4
  <2> HIDE DEF t
  <2>4. ~\E j \in DOMAIN c : t = c[j]
    BY <2>3 DEF Begun
  <2>5. ~\E k \in DOMAIN a : t = a[k]
    BY <2>3 DEF Begun
  <2>6. \E k \in DOMAIN b : t = b[k]
    BY <2>1, <2>2, <2>4, <2>5
  <2>7. t \in ToSet(b)
    BY <2>6 DEF ToSet
  <2> QED
    BY <2>7 DEF t
<1> QED
  BY <1>3, <1>4

LEMMA BegunAround ==
  ASSUME NEW first, NEW build, NEW extra, NEW made, NEW given, NEW S,
         Begun(build, given, S), Begun(first, given, {}), Begun(extra, given, {}), Begun(made, given, {})
  PROVE  LET l == (((first \o build) \o extra) \o first) \o made
         IN Begun(l, given, S) /\ \A i \in DOMAIN l : l[i].do = "container" => l[i] \in ToSet(build)
<1>1. IsList(first) /\ IsList(build) /\ IsList(extra) /\ IsList(made)
  BY DEF Begun
<1> DEFINE last == (extra \o first) \o made
<1>2. Begun(last, given, {})
  <2>1. Begun(extra \o first, given, {} \cup {})
    BY BegunMore
  <2>2. Begun(extra \o first, given, {})
    BY <2>1
  <2>3. Begun(last, given, {} \cup {})
    BY <2>2, BegunMore
  <2> QED
    BY <2>3
<1>3. (((first \o build) \o extra) \o first) \o made = (first \o build) \o last
  <2> DEFINE T == ToSet(first) \cup ToSet(build) \cup ToSet(extra) \cup ToSet(made)
             x == first \o build
  <2>1. first \in Seq(T) /\ build \in Seq(T) /\ extra \in Seq(T) /\ made \in Seq(T)
    BY <1>1, SeqMonotonic DEF IsList
  <2> HIDE DEF T
  <2>2. x \in Seq(T)
    BY <2>1
  <2> HIDE DEF x
  <2>3. (x \o extra) \o first = x \o (extra \o first) /\ extra \o first \in Seq(T)
    BY <2>1, <2>2
  <2>4. (x \o (extra \o first)) \o made = x \o ((extra \o first) \o made)
    BY <2>1, <2>2, SMTT(30), <2>3
  <2> QED
    BY <2>3, <2>4 DEF x
<1> HIDE DEF last
<1>4. /\ Begun((first \o build) \o last, given, S)
      /\ \A i \in DOMAIN ((first \o build) \o last) :
           ((first \o build) \o last)[i].do = "container" => ((first \o build) \o last)[i] \in ToSet(build)
  BY <1>2, BegunWithin
<1> QED
  BY <1>3, <1>4, Zenon

\* What a build starts with.
LEMMA BuildBegun ==
  ASSUME NEW c, NEW fs, IsConfig(c), ConfigTidy(c), UniqueServices(c.services), IsList(fs), fs # <<>>
  PROVE  LET l == Prerequisites(fs) \o BuildItems(c) \o (IF fs[1] = "docker" THEN <<Do("addition")>> ELSE <<>>)
                    \o Prerequisites(fs) \o FormatItems(fs)
         IN /\ Begun(l, c.files, Sections)
            /\ \A i \in DOMAIN l : l[i].do = "container" => l[i] \in ToSet(BuildItems(c))
<1> DEFINE first == Prerequisites(fs)
           build == BuildItems(c)
           extra == IF fs[1] = "docker" THEN <<Do("addition")>> ELSE <<>>
           made  == FormatItems(fs)
           given == c.files
<1>1. Begun(build, given, Sections)
  BY BuildItemsBegun
<1>2. Begun(first, given, {})
  <2>1. IsList(first)
    BY PrerequisitesPlain DEF Plain
  <2>2. \A i \in DOMAIN first : first[i] = Do("mkimage")
    BY DEF Prerequisites
  <2>3. Begins(Do("mkimage"), given) /\ Do("mkimage").do # "container"
    BY DEF Do, Begins
  <2> HIDE DEF first
  <2> QED
    BY <2>1, <2>2, <2>3, BegunPlain
<1>3. Begun(extra, given, {})
  <2> DEFINE t == Do("addition")
  <2>1. Begins(t, given) /\ t.do # "container"
    BY DEF Do, Begins
  <2>2. extra = <<t>> \/ extra = <<>>
    OBVIOUS
  <2> HIDE DEF t, extra
  <2>3. IsList(<<t>>) /\ \A i \in DOMAIN <<t>> : <<t>>[i] = t
    BY OneEntry
  <2> DEFINE l == <<t>>
  <2> HIDE DEF l
  <2>4. IsList(l) /\ \A i \in DOMAIN l : l[i] = t
    BY <2>3 DEF l
  <2>5. Begun(l, given, {})
    BY <2>1, <2>4, BegunPlain
  <2> QED
    BY <2>2, <2>5, BegunNone DEF l
<1>4. Begun(made, given, {})
  <2> DEFINE m == Matching(fs, ToSet(fs) \ Streamable)
  <2>1. IsList(m)
    BY ListMatching
  <2>2. made = [i \in DOMAIN m |-> [do |-> "format", to |-> "tar", o |-> m[i]]]
    BY DEF FormatItems
  <2> HIDE DEF m, made
  <2>3. made = [i \in DOMAIN m |-> made[i]] /\ \A i \in DOMAIN m : made[i].do = "format" /\ made[i].to = "tar"
    BY <2>2
  <2>4. \A i \in DOMAIN m : Begins(made[i], given) /\ made[i].do # "container"
    BY <2>3 DEF Begins
  <2> QED
    BY <2>1, <2>3, <2>4, BegunEach
<1> HIDE DEF first, build, extra, made, given
<1> DEFINE l == (((first \o build) \o extra) \o first) \o made
<1> HIDE DEF l
<1>5. Begun(l, given, Sections) /\ \A i \in DOMAIN l : l[i].do = "container" => l[i] \in ToSet(build)
  BY <1>1, <1>2, <1>3, <1>4, BegunAround DEF l
<1> QED
  BY <1>5, Zenon DEF l, first, build, extra, made, given

LEMMA SameItems ==
  ASSUME NEW c, NEW d, d.files = c.files, d.onboot = c.onboot, d.onshutdown = c.onshutdown,
         d.services = c.services, d.kimage = c.kimage, d.init = c.init
  PROVE  BuildItems(d) = BuildItems(c)
BY Zenon DEF BuildItems

\* A list that a build begins with, and an empty stream.
LEMMA BegunAssembly ==
  ASSUME NEW c, ConfigTidy(c), IsConfig(c), UniqueServices(c.services), NEW unzip, cfg' = [c EXCEPT !.unzip = unzip],
         Begun(todo', c.files, Sections),
         \A i \in DOMAIN todo' : todo'[i].do = "container" => todo'[i] \in ToSet(BuildItems(c)),
         out' = <<>>, added' = {}, kf' = Filter, dup' = <<>>, bundles' = <<>>
  PROVE  AssemblyInv'
<1>1. /\ cfg'.files = c.files /\ cfg'.onboot = c.onboot /\ cfg'.onshutdown = c.onshutdown /\ cfg'.services = c.services
      /\ cfg'.kimage = c.kimage /\ cfg'.init = c.init
  BY DEF IsConfig
<1>2. BuildItems(cfg)' = BuildItems(c)
  <2>1. PICK d : d = cfg'
    OBVIOUS
  <2>2. BuildItems(d) = BuildItems(c)
    BY <1>1, <2>1, SameItems
  <2> QED
    BY <2>1, <2>2
<1>3. ConfigTidy(cfg)'
  BY <1>1 DEF ConfigTidy
<1>4. DOMAIN out' = {} /\ DOMAIN dup' = {} /\ DOMAIN bundles' = {} /\ IsList(out')
  BY EmptyList
<1>5. ASSUME NEW i \in DOMAIN todo'
      PROVE  /\ Begins(todo'[i], cfg'.files) /\ todo'[i].do \notin OfImage /\ todo'[i].do # "bundle"
             /\ todo'[i].do \in Placing => todo'[i].do = "container"
  <2>1. Begins(todo'[i], cfg'.files)
    BY <1>1 DEF Begun
  <2> QED
    BY <2>1 DEF Begins, OfImage, Placing
<1>6. ASSUME NEW i \in DOMAIN todo'
      PROVE  Sound(todo[i])'
  <2>1. PICK t : t = todo'[i]
    OBVIOUS
  <2>2. Begins(t, cfg'.files) /\ Place(None) /\ IsList(None)
    BY <1>5, <2>1, EmptyList DEF Place, None
  <2>3. Sound(t)'
    BY <2>2 DEF Sound, Begins, OfImage, Placing, Outputs
  <2> QED
    BY <2>1, <2>3 DEF Sound
<1>7. SoundInv'
  <2>1. Order'
    BY <1>5 DEF Order, Orderly
  <2> QED
    BY <1>3, <1>4, <1>6, <2>1 DEF SoundInv
<1>8. BootMade([kf EXCEPT !.out = out])'
  <2>1. Tree(out')
    BY <1>4 DEF Tree
  <2>2. BootMade([Filter EXCEPT !.out = out'])
    BY <2>1, Unfiltered
  <2> QED
    BY <2>2 DEF BootMade
<1>9. Supplied'
  <2>1. \A i \in DOMAIN todo' : Needs(todo[i])' = {}
    BY <1>5 DEF Needs, OfImage
  <2> QED
    BY <2>1 DEF Supplied
<1>10. TreeInv'
  BY <1>4, <1>5, <1>8, <1>9 DEF TreeInv, SeenMade, AddedMade
<1>11. Apart(todo)' /\ Apart(BuildItems(cfg))'
  <2>1. Begun(BuildItems(c), c.files, Sections)
    BY BuildItemsBegun
  <2> QED
    BY <1>2, <2>1 DEF Begun, Apart
<1>12. ASSUME NEW i \in DOMAIN todo'
       PROVE  Pends(todo[i])'
  <2>1. todo'[i].do \in Placing => todo'[i].do = "container" /\ todo'[i] \in ToSet(BuildItems(cfg)')
    BY <1>2, <1>5
  <2>2. Unwritten(todo[i].path)'
    BY <1>4 DEF Unwritten
  <2> QED
    BY <1>5, <2>1, <2>2 DEF Pends, From
<1>13. BundleInv'
  BY <1>4, <1>11, <1>12 DEF BundleInv
<1> QED
  BY <1>7, <1>10, <1>13 DEF AssemblyInv

LEMMA StartBuildAssembly ==
  ASSUME AllTidy, StartBuild
  PROVE  AssemblyInv'
<1>1. PICK files \in Configs, fs \in FormatLists, unzip \in BOOLEAN :
        /\ Merged(files).valid
        /\ cfg' = [Merged(files) EXCEPT !.unzip = unzip]
        /\ todo' = Prerequisites(fs) \o BuildItems(Merged(files))
                     \o (IF fs[1] = "docker" THEN <<Do("addition")>> ELSE <<>>)
                     \o Prerequisites(fs)
                     \o FormatItems(fs)
  BY DEF StartBuild
<1>2. out' = <<>> /\ added' = {} /\ kf' = Filter /\ dup' = <<>> /\ bundles' = <<>>
  BY DEF StartBuild
<1>3. PICK c : c = Merged(files)
  OBVIOUS
<1>4. IsConfig(c) /\ UniqueServices(c.services) /\ ConfigTidy(c)
  BY <1>1, <1>3, ConfigsAssumption, MergedType, MergedUnique DEF AllTidy
<1>5. IsList(fs) /\ fs # <<>>
  BY FormatsAssumption
<1>6. /\ Begun(todo', c.files, Sections)
      /\ \A i \in DOMAIN todo' : todo'[i].do = "container" => todo'[i] \in ToSet(BuildItems(c))
  BY <1>1, <1>3, <1>4, <1>5, BuildBegun
<1> QED
  BY <1>1, <1>2, <1>3, <1>4, <1>6, BegunAssembly

LEMMA InitAssembly ==
  ASSUME Init
  PROVE  AssemblyInv
<1>1. DOMAIN todo = {} /\ DOMAIN out = {} /\ DOMAIN dup = {} /\ DOMAIN bundles = {} /\ added = {} /\ kf = Filter
  BY EmptyList DEF Init
<1>2. ConfigTidy(cfg)
  <2>1. /\ DOMAIN NoConfig.onboot = {} /\ DOMAIN NoConfig.onshutdown = {}
        /\ DOMAIN NoConfig.services = {} /\ DOMAIN NoConfig.files = {}
    BY EmptyList DEF NoConfig
  <2> QED
    BY <2>1 DEF Init, ConfigTidy, DirNames, FilesTidy
<1>3. Apart(BuildItems(cfg))
  <2>1. UniqueServices(cfg.services) /\ IsConfig(cfg)
    BY NoConfigType, EmptyList DEF Init, NoConfig, UniqueServices
  <2>2. PICK c : c = cfg
    OBVIOUS
  <2>3. Begun(BuildItems(c), c.files, Sections)
    BY <1>2, <2>1, <2>2, BuildItemsBegun
  <2> QED
    BY <2>2, <2>3 DEF Begun
<1>4. BootMade([kf EXCEPT !.out = out])
  BY <1>1, Unfiltered DEF Tree
<1> QED
  BY <1>1, <1>2, <1>3, <1>4 DEF AssemblyInv, SoundInv, Order, TreeInv, Supplied, SeenMade, AddedMade, BundleInv, Apart

LEMMA AssemblyNext ==
  ASSUME AllTidy, BuildInv, AssemblyInv, [Next]_vars
  PROVE  AssemblyInv'
<1>1. CASE StartBuild
  BY <1>1, StartBuildAssembly
<1>2. CASE OpenImage
  BY <1>2, OpenImageAssembly
<1>3. CASE ImageEntry
  BY <1>3, ImageEntryAssembly
<1>4. CASE TouchFiles
  BY <1>4, TouchFilesAssembly
<1>5. CASE CloseKernel
  BY <1>5, CloseKernelAssembly
<1>6. CASE OutputImage
  BY <1>6, OutputImageAssembly
<1>7. CASE ImageBundle
  BY <1>7, ImageBundleAssembly
<1>8. CASE AddFile
  BY <1>8, AddFileAssembly
<1>9. CASE Addition
  BY <1>9, AdditionAssembly
<1>10. CASE OutputFormat
  BY <1>10, OutputFormatAssembly
<1>11. CASE WriteOutput
  BY <1>11, WriteOutputAssembly
<1>12. CASE EnsureMkimage
  BY <1>12, EnsureMkimageAssembly
<1>13. CASE WriteMkimage
  BY <1>13, WriteMkimageAssembly
<1>14. CASE Finish
  BY <1>14, SameAssembly DEF Finish
<1>15. CASE Abort
  BY <1>15, EndedAssembly DEF Abort, Fail
<1>16. CASE UNCHANGED vars
  BY <1>16, SameAssembly DEF vars
<1> QED
  BY <1>1, <1>2, <1>3, <1>4, <1>5, <1>6, <1>7, <1>8, <1>9, <1>10, <1>11, <1>12, <1>13, <1>14, <1>15, <1>16 DEF Next

\* The inductive invariant of the assembly holds, for images that can be unpacked and
\* configurations that keep to the directories that are left to them.
THEOREM AssemblyInvariant ==
  ASSUME AllTidy
  PROVE  Spec => []AssemblyInv
<1>1. Init => AssemblyInv
  BY InitAssembly
<1>2. BuildInv /\ AssemblyInv /\ [Next]_vars => AssemblyInv'
  BY AssemblyNext
<1> QED
  BY <1>1, <1>2, BuildInvariant, PTL DEF Spec

\* Every entry of the stream comes after the directory that it lies in: whatever the order of
\* kernel, archive and microcode in the kernel image, wherever an image of several containers
\* was unpacked first, and whichever directories the files of the configuration share.
THEOREM StreamUnpacks ==
  ASSUME AllTidy
  PROVE  Spec => []ParentsFirst
<1>1. BuildInv /\ AssemblyInv => ParentsFirst
  BY StreamTree DEF AssemblyInv, ParentsFirst
<1> QED
  BY <1>1, BuildInvariant, AssemblyInvariant, PTL

\* Each container's configuration is in the stream once: its directory is its own among the
\* merged files' containers, and neither an image nor a configured file lies in it.
THEOREM ContainersApart ==
  ASSUME AllTidy
  PROVE  Spec => []PathsDistinct
<1>1. AssemblyInv => PathsDistinct
  <2> SUFFICES ASSUME AssemblyInv, NEW path \in DOMAIN bundles, NEW i \in DOMAIN out, NEW j \in DOMAIN out,
                      i # j, out[i].name = Append(path, "config.json")
               PROVE  out[j].name # out[i].name
    BY DEF PathsDistinct
  <2>1. Spot(path)
    BY DEF AssemblyInv, BundleInv
  <2>2. IsOwn(out[i].name) /\ Last(out[i].name) = "config.json"
    BY <2>1, OwnBelow
  <2> QED
    BY <2>2 DEF AssemblyInv, BundleInv
<1> QED
  BY <1>1, AssemblyInvariant, PTL

\* The root in a container's runtime configuration is the directory where its image was
\* unpacked, for this container or for an earlier one of the same image, and is in the stream,
\* as are the directories that the container mounts on.
THEOREM RootsUnpacked ==
  ASSUME AllTidy
  PROVE  Spec => []BundleRoots
<1>1. AssemblyInv => BundleRoots
  <2> SUFFICES ASSUME AssemblyInv, NEW path \in DOMAIN bundles, NEW i \in DOMAIN out,
                      out[i].name = Append(path, "runtime.json")
               PROVE  LET entry(name) == \E j \in DOMAIN out : out[j].type = "dir" /\ Bare(out[j].name) = name
                          c == CHOOSE x \in ToSet(BuildItems(cfg)) : x.do = "container" /\ x.path = path
                      IN /\ entry(out[i].body) /\ dup[c.image] = out[i].body
                         /\ entry(Append(path, "rootfs"))
                         /\ ~bundles[path].readonly => entry(Append(path, "tmp"))
    BY DEF BundleRoots
  <2> DEFINE x == CHOOSE x \in ToSet(BuildItems(cfg)) : x.do = "container" /\ x.path = path
  <2>1. RootAt(path, out[i].body)
    BY DEF AssemblyInv, BundleInv
  <2>2. PICK c \in ToSet(BuildItems(cfg)) : c.do = "container" /\ c.path = path /\ dup[c.image] = out[i].body
    BY <2>1 DEF RootAt
  <2>3. \A y, z \in ToSet(BuildItems(cfg)) :
          y.do = "container" /\ z.do = "container" /\ y.path = z.path => y = z
    BY DEF AssemblyInv, BundleInv, Apart, ToSet, Placing
  <2>4. x \in ToSet(BuildItems(cfg)) /\ x.do = "container" /\ x.path = path
    BY <2>2
  <2> HIDE DEF x
  <2>5. x = c
    BY <2>2, <2>3, <2>4
  <2>6. \A d \in DirsOf(out) : \E j \in DOMAIN out : out[j].type = "dir" /\ Bare(out[j].name) = d
    BY DirsAre
  <2>7. /\ out[i].body \in DirsOf(out) /\ Append(path, "rootfs") \in DirsOf(out)
        /\ ~bundles[path].readonly => Append(path, "tmp") \in DirsOf(out)
    BY <2>1 DEF RootAt
  <2>8. dup[x.image] = out[i].body
    BY <2>2, <2>5
  <2> QED
    BY <2>6, <2>7, <2>8, Zenon DEF x
<1> QED
  BY <1>1, AssemblyInvariant, PTL
===============================================================================
