---------------------------- MODULE UnifdefProofs ----------------------------
(***************************************************************************)
(* Proofs about unifdef: for every nesting bound, every set of conditions  *)
(* and every input, the preprocessor selects from the output what it       *)
(* selects from the input, as long as no condition is split by a           *)
(* backslash-newline and no #elif follows the end of a comment on its line.*)
(***************************************************************************)
EXTENDS UnifdefCpp, FiniteSetTheorems, TLAPS

\* The states of a group whose #if the output holds, and has not closed.
Emits == {"PASS_MIDDLE", "FALSE_MIDDLE", "TRUE_MIDDLE", "PASS_ELSE"}

Stacks == Seq([is : Ifstates, ign : BOOLEAN])

\* The number of groups that the output has open below and at place k.
Pos(s, k) == Cardinality({j \in 2..k : s[j].is \in Emits})

\* The worlds in which the text of place k is compiled, in the input's groups
\* gi and in the output's groups go.
InAct(gi, k)     == IF k = 1 THEN Worlds ELSE gi[k - 1].act
OutAct(s, go, k) == IF Pos(s, k) = 0 THEN Worlds ELSE go[Pos(s, k)].act

\* What place k of the stack says of the group it stands for.
Level(s, gi, go, k) ==
  LET is == s[k].is
      i  == gi[k - 1]
      o  == go[Pos(s, k)]
  IN /\ is # "OUTSIDE"
     /\ i.act = IF is \in Dropping THEN {} ELSE OutAct(s, go, k)
     /\ s[k - 1].is \in Dropping => is \in {"FALSE_TRAILER", "FALSE_ELSE"}
     /\ is \notin {"PASS_ELSE", "TRUE_ELSE", "FALSE_ELSE"} => ~i.els
     /\ is = "FALSE_PREFIX" => i.taken = {}
     /\ is \in {"TRUE_PREFIX", "TRUE_MIDDLE"} => i.taken = Worlds
     /\ is = "FALSE_TRAILER" => InAct(gi, k - 1) \subseteq i.taken
     /\ is \in {"PASS_MIDDLE", "FALSE_MIDDLE"} => o.taken = i.taken /\ ~o.els

Levels(s, gi, go) == \A k \in 2..Len(s) : Level(s, gi, go, k)

\* The stack fits the groups that the readers have open.
Match(s, gi, go) ==
  /\ s \in Stacks /\ Len(s) >= 1 /\ s[1].is = "OUTSIDE"
  /\ gi \in Groups /\ Len(gi) = Len(s) - 1
  /\ go \in Groups /\ Len(go) = Pos(s, Len(s))
  /\ Levels(s, gi, go)

StackOK(s) ==
  /\ s \in Stacks /\ Len(s) \in 1..MAXDEPTH
  /\ \A k \in 1..Len(s) : s[k].is = "OUTSIDE" <=> k = 1

Shape ==
  /\ StackOK(stack)
  /\ incomment \in BOOLEAN /\ dirty \in BOOLEAN
  /\ status \in {"run", "done", "error"}
  /\ wrote \in Directives \cup {"plain", "blank", Nothing}
  /\ in \in Readers /\ out \in Readers

Agreement ==
  /\ ~in.broken /\ ~out.broken
  /\ in.comment = incomment
  /\ out.comment = (incomment /\ Top.is \notin Dropping)
  /\ Match(stack, in.groups, out.groups)

IInv ==
  /\ Shape
  /\ Following => Agreement
  /\ status = "done" => Top.is = "OUTSIDE" /\ ~incomment

-----------------------------------------------------------------------------
(* Counting the groups that the output has open.                           *)

LEMMA PosNat == ASSUME NEW s, NEW k \in Nat PROVE Pos(s, k) \in Nat
  <1>. DEFINE S == {j \in 2..k : s[j].is \in Emits}
  <1>1. IsFiniteSet(2..k)
    BY FS_Interval
  <1>2. IsFiniteSet(S)
    BY <1>1, FS_Subset
  <1>. QED BY <1>2, FS_CardinalityType DEF Pos

LEMMA PosBase == ASSUME NEW s PROVE Pos(s, 1) = 0
  <1>1. {j \in 2..1 : s[j].is \in Emits} = {}
    OBVIOUS
  <1>. QED BY <1>1, FS_EmptySet DEF Pos

\* The count goes up by one at a state of Emits.
LEMMA PosStep ==
  ASSUME NEW s, NEW k \in Nat, k >= 2
  PROVE Pos(s, k) = Pos(s, k - 1) + (IF s[k].is \in Emits THEN 1 ELSE 0)
  <1>. DEFINE S(n) == {j \in 2..n : s[j].is \in Emits}
  <1>1. IsFiniteSet(S(k - 1))
    <2>1. IsFiniteSet(2..(k - 1))
      BY FS_Interval
    <2>. QED BY <2>1, FS_Subset
  <1>2. CASE s[k].is \in Emits
    <2>1. S(k) = S(k - 1) \cup {k} /\ k \notin S(k - 1)
      BY <1>2
    <2>2. Cardinality(S(k)) = Cardinality(S(k - 1)) + 1
      BY <2>1, <1>1, FS_AddElement
    <2>. QED BY <2>2, <1>2 DEF Pos
  <1>3. CASE s[k].is \notin Emits
    <2>1. S(k) = S(k - 1)
      BY <1>3
    <2>2. Cardinality(S(k)) = Cardinality(S(k - 1)) /\ Cardinality(S(k - 1)) \in Nat
      BY <2>1, <1>1, FS_CardinalityType
    <2>. QED BY <2>2, <1>3 DEF Pos
  <1>. QED BY <1>2, <1>3

LEMMA PosMono ==
  ASSUME NEW s, NEW k \in Nat, NEW j \in Nat, j <= k
  PROVE Pos(s, j) <= Pos(s, k)
  <1>. DEFINE S(n) == {i \in 2..n : s[i].is \in Emits}
  <1>1. IsFiniteSet(S(k))
    <2>1. IsFiniteSet(2..k)
      BY FS_Interval
    <2>. QED BY <2>1, FS_Subset
  <1>2. S(j) \subseteq S(k)
    OBVIOUS
  <1>. QED BY <1>1, <1>2, FS_Subset DEF Pos

LEMMA PosSame ==
  ASSUME NEW s, NEW t, NEW k \in Nat, \A j \in 2..k : s[j] = t[j]
  PROVE Pos(s, k) = Pos(t, k)
  <1>1. {j \in 2..k : s[j].is \in Emits} = {j \in 2..k : t[j].is \in Emits}
    OBVIOUS
  <1>. QED BY <1>1 DEF Pos

\* A level is about the places below it only.
LEMMA Frame ==
  ASSUME NEW s, NEW t, NEW n \in Nat, \A j \in 1..n : s[j] = t[j],
         NEW gi, NEW gi2, \A j \in 1..(n - 1) : gi[j] = gi2[j],
         NEW go, NEW go2, \A j \in 1..Pos(s, n) : go[j] = go2[j],
         NEW k \in 2..n, Level(s, gi, go, k)
  PROVE Level(t, gi2, go2, k)
  <1>1. Pos(t, k) = Pos(s, k)
    <2>1. \A j \in 2..k : s[j] = t[j]
      OBVIOUS
    <2>. QED BY <2>1, PosSame
  <1>2. Pos(s, k) \in Nat /\ Pos(s, k) <= Pos(s, n) /\ Pos(s, n) \in Nat
    BY PosNat, PosMono
  <1>3. Pos(s, k) # 0 => go[Pos(s, k)] = go2[Pos(s, k)]
    BY <1>2
  <1>4. s[k] = t[k] /\ s[k - 1] = t[k - 1] /\ gi[k - 1] = gi2[k - 1]
    OBVIOUS
  <1>5. k # 2 => gi[k - 2] = gi2[k - 2]
    OBVIOUS
  <1>6. s[k].is \in Emits => Pos(s, k) # 0
    BY PosStep, PosNat
  <1>7. InAct(gi, k - 1) = InAct(gi2, k - 1)
    BY <1>5 DEF InAct
  <1>8. OutAct(s, go, k) = OutAct(t, go2, k)
    BY <1>1, <1>3 DEF OutAct
  <1>9. s[k].is \in {"PASS_MIDDLE", "FALSE_MIDDLE"} => go[Pos(s, k)] = go2[Pos(t, k)]
    BY <1>1, <1>3, <1>6 DEF Emits
  <1>. QED BY <1>1, <1>4, <1>7, <1>8, <1>9 DEF Level

-----------------------------------------------------------------------------
(* The readers in terms of the places of the stack.                        *)

LEMMA Prefix ==
  ASSUME NEW S, NEW q \in Seq(S), NEW n \in Nat, n <= Len(q)
  PROVE /\ SubSeq(q, 1, n) \in Seq(S)
        /\ Len(SubSeq(q, 1, n)) = n
        /\ \A j \in 1..n : SubSeq(q, 1, n)[j] = q[j]
  OBVIOUS

LEMMA PrefixGroups ==
  ASSUME NEW g \in Groups, NEW n \in Nat, n <= Len(g)
  PROVE /\ SubSeq(g, 1, n) \in Groups
        /\ Len(SubSeq(g, 1, n)) = n
        /\ \A j \in 1..n : SubSeq(g, 1, n)[j] = g[j]
  <1>. DEFINE R == [act : SUBSET Worlds, taken : SUBSET Worlds, els : BOOLEAN]
  <1>1. g \in Seq(R)
    BY DEF Groups
  <1>. HIDE DEF R
  <1>2. /\ SubSeq(g, 1, n) \in Seq(R)
        /\ Len(SubSeq(g, 1, n)) = n
        /\ \A j \in 1..n : SubSeq(g, 1, n)[j] = g[j]
    BY <1>1, Prefix
  <1>. QED BY <1>2 DEF R, Groups

LEMMA GroupsLen == ASSUME NEW g \in Groups PROVE Len(g) \in Nat /\ (g = << >> <=> Len(g) = 0)
  BY DEF Groups

LEMMA LiveIn ==
  ASSUME NEW d \in Nat \ {0}, NEW gi \in Groups, Len(gi) = d - 1
  PROVE Live(gi) = InAct(gi, d)
  BY DEF Live, InAct, Groups

LEMMA LiveOut ==
  ASSUME NEW s, NEW go \in Groups, NEW d, Len(go) = Pos(s, d)
  PROVE Live(go) = OutAct(s, go, d)
  BY DEF Live, OutAct, Groups

LEMMA BelowIn ==
  ASSUME NEW d \in Nat, d >= 2, NEW gi \in Groups, Len(gi) = d - 1
  PROVE Below(gi) = InAct(gi, d - 1)
  <1>. DEFINE b == SubSeq(gi, 1, Len(gi) - 1)
  <1>1. b \in Groups /\ Len(b) = d - 2 /\ (d # 2 => b[d - 2] = gi[d - 2])
    BY PrefixGroups, d - 2 \in Nat
  <1>2. b = << >> <=> d = 2
    BY <1>1, GroupsLen
  <1>. QED BY <1>1, <1>2 DEF Below, Live, InAct

LEMMA BelowOut ==
  ASSUME NEW s, NEW d \in Nat, d >= 2, NEW go \in Groups, Len(go) = Pos(s, d),
         s[d].is \in Emits
  PROVE Below(go) = OutAct(s, go, d - 1)
  <1>. DEFINE b == SubSeq(go, 1, Len(go) - 1)
            p == Pos(s, d - 1)
  <1>1. p \in Nat /\ Len(go) = p + 1
    BY PosStep, PosNat
  <1>2. b \in Groups /\ Len(b) = p /\ (p # 0 => b[p] = go[p])
    BY <1>1, PrefixGroups
  <1>3. b = << >> <=> p = 0
    BY <1>2, GroupsLen
  <1>. QED BY <1>2, <1>3 DEF Below, Live, OutAct

\* Unless the group is one that is dropped as a whole, the text around it is
\* compiled in the same worlds in the input and in the output.
LEMMA Around ==
  ASSUME NEW s \in Stacks, NEW gi, NEW go, Levels(s, gi, go), NEW d \in 2..Len(s),
         s[1].is = "OUTSIDE", s[d].is \notin {"FALSE_TRAILER", "FALSE_ELSE"}
  PROVE InAct(gi, d - 1) = OutAct(s, go, d - 1)
  <1>1. CASE d = 2
    BY <1>1, PosBase DEF InAct, OutAct
  <1>2. CASE d # 2
    <2>1. Level(s, gi, go, d) /\ Level(s, gi, go, d - 1)
      BY <1>2 DEF Levels, Stacks
    <2>2. s[d - 1].is \notin Dropping
      BY <2>1 DEF Level
    <2>. QED BY <2>1, <2>2, <1>2 DEF Level, InAct
  <1>. QED BY <1>1, <1>2


-----------------------------------------------------------------------------
(* The innermost group: what Level says of the top of the stack, in terms  *)
(* of its state is, the groups i and o, the worlds a and b of the text     *)
(* around it in the input and the output, and the state of the level below.*)

TopOK(is, i, o, a, b, below) ==
  /\ is # "OUTSIDE"
  /\ i.act = IF is \in Dropping THEN {} ELSE IF is \in Emits THEN o.act ELSE b
  /\ below \in Dropping => is \in {"FALSE_TRAILER", "FALSE_ELSE"}
  /\ is \notin {"PASS_ELSE", "TRUE_ELSE", "FALSE_ELSE"} => ~i.els
  /\ is = "FALSE_PREFIX" => i.taken = {}
  /\ is \in {"TRUE_PREFIX", "TRUE_MIDDLE"} => i.taken = Worlds
  /\ is = "FALSE_TRAILER" => a \subseteq i.taken
  /\ is \in {"PASS_MIDDLE", "FALSE_MIDDLE"} => o.taken = i.taken /\ ~o.els

LEMMA TopLevel ==
  ASSUME NEW s, NEW d \in Nat, d >= 2, NEW gi, NEW go
  PROVE Level(s, gi, go, d) <=>
        TopOK(s[d].is, gi[d - 1], go[Pos(s, d - 1) + 1],
              InAct(gi, d - 1), OutAct(s, go, d - 1), s[d - 1].is)
  <1>. DEFINE p == Pos(s, d - 1)
  <1>1. p \in Nat
    BY PosNat
  <1>2. Pos(s, d) = p + (IF s[d].is \in Emits THEN 1 ELSE 0)
    BY PosStep
  <1>3. s[d].is \in Emits => Pos(s, d) = p + 1 /\ OutAct(s, go, d) = go[p + 1].act
    BY <1>1, <1>2 DEF OutAct
  <1>4. s[d].is \notin Emits => OutAct(s, go, d) = OutAct(s, go, d - 1)
    BY <1>1, <1>2 DEF OutAct
  <1>5. "PASS_MIDDLE" \in Emits /\ "FALSE_MIDDLE" \in Emits
    BY DEF Emits
  <1>. QED BY <1>3, <1>4, <1>5 DEF Level, TopOK

\* A new top of the stack, over the same levels.
Regroups(s, t, d, gi, gi2, go, go2) ==
  /\ s \in Stacks /\ t \in Stacks /\ d \in Nat /\ d >= 2 /\ Len(t) = d /\ d <= Len(s) + 1
  /\ \A j \in 1..(d - 1) : t[j] = s[j]
  /\ \A j \in 1..(d - 2) : gi2[j] = gi[j]
  /\ \A j \in 1..Pos(s, d - 1) : go2[j] = go[j]
  /\ Levels(s, gi, go)
  /\ TopOK(t[d].is, gi2[d - 1], go2[Pos(s, d - 1) + 1],
           InAct(gi, d - 1), OutAct(s, go, d - 1), s[d - 1].is)

LEMMA Regroup ==
  ASSUME NEW s, NEW t, NEW d, NEW gi, NEW gi2, NEW go, NEW go2,
         Regroups(s, t, d, gi, gi2, go, go2)
  PROVE Levels(t, gi2, go2) /\ Pos(t, d - 1) = Pos(s, d - 1)
  <1>. USE DEF Regroups
  <1>1. Pos(t, d - 1) = Pos(s, d - 1) /\ Pos(s, d - 1) \in Nat
    BY PosSame, PosNat
  <1>2. InAct(gi2, d - 1) = InAct(gi, d - 1)
    <2>1. d # 2 => gi2[d - 2] = gi[d - 2]
      OBVIOUS
    <2>. QED BY <2>1 DEF InAct
  <1>3. OutAct(t, go2, d - 1) = OutAct(s, go, d - 1)
    BY <1>1 DEF OutAct
  <1>4. t[d - 1] = s[d - 1]
    OBVIOUS
  <1>5. Level(t, gi2, go2, d)
    BY <1>1, <1>2, <1>3, <1>4, TopLevel
  <1>6. ASSUME NEW k \in 2..(d - 1)
        PROVE Level(t, gi2, go2, k)
    <2>1. Level(s, gi, go, k)
      BY <1>6 DEF Levels, Stacks
    <2>2. \A j \in 1..(d - 1) : s[j] = t[j]
      OBVIOUS
    <2>3. \A j \in 1..((d - 1) - 1) : gi[j] = gi2[j]
      OBVIOUS
    <2>4. \A j \in 1..Pos(s, d - 1) : go[j] = go2[j]
      OBVIOUS
    <2>5. d - 1 \in Nat
      OBVIOUS
    <2>. QED BY <1>6, <2>1, <2>2, <2>3, <2>4, <2>5, Frame
  <1>. QED BY <1>1, <1>5, <1>6 DEF Levels

\* Levels speaks of the places of the stack, whatever lies above.
LEMMA Ungroup ==
  ASSUME NEW s \in Stacks, NEW t \in Stacks, Len(t) <= Len(s),
         \A j \in 1..Len(t) : t[j] = s[j],
         NEW gi, NEW gi2, \A j \in 1..(Len(t) - 1) : gi2[j] = gi[j],
         NEW go, NEW go2, \A j \in 1..Pos(s, Len(t)) : go2[j] = go[j],
         Levels(s, gi, go)
  PROVE Levels(t, gi2, go2) /\ Pos(t, Len(t)) = Pos(s, Len(t))
  <1>. DEFINE n == Len(t)
  <1>0. n \in Nat
    BY DEF Stacks
  <1>1. ASSUME NEW k \in 2..n
        PROVE Level(t, gi2, go2, k)
    <2>1. Level(s, gi, go, k)
      BY <1>1, <1>0 DEF Levels, Stacks
    <2>2. \A j \in 1..n : s[j] = t[j]
      OBVIOUS
    <2>3. \A j \in 1..(n - 1) : gi[j] = gi2[j]
      OBVIOUS
    <2>4. \A j \in 1..Pos(s, n) : go[j] = go2[j]
      OBVIOUS
    <2>. QED BY <1>0, <2>1, <2>2, <2>3, <2>4, Frame
  <1>2. Pos(t, n) = Pos(s, n)
    BY <1>0, PosSame
  <1>. QED BY <1>1, <1>2 DEF Levels

-----------------------------------------------------------------------------
(* What a directive does to the groups of a reader.                        *)

LEMMA GroupType ==
  ASSUME NEW g \in Groups, NEW j \in 1..Len(g)
  PROVE g[j].act \in SUBSET Worlds /\ g[j].taken \in SUBSET Worlds
  <1>. DEFINE R == [act : SUBSET Worlds, taken : SUBSET Worlds, els : BOOLEAN]
  <1>1. g \in Seq(R)
    BY DEF Groups
  <1>. HIDE DEF R
  <1>2. g[j] \in R
    BY <1>1
  <1>. QED BY <1>2 DEF R

GroupSpace == [act : SUBSET Worlds, taken : SUBSET Worlds, els : BOOLEAN]

LEMMA GroupsSeq == Groups = Seq(GroupSpace)
  BY DEF Groups, GroupSpace

LEMMA GroupIn ==
  ASSUME NEW a \in SUBSET Worlds, NEW t \in SUBSET Worlds
  PROVE Group(a, t, FALSE) \in GroupSpace /\ Group(a, t, TRUE) \in GroupSpace
  BY DEF Group, GroupSpace

\* Adding a group inside, and replacing the innermost one.
LEMMA PushTop ==
  ASSUME NEW g \in Groups, NEW x \in GroupSpace
  PROVE /\ Append(g, x) \in Groups
        /\ Len(Append(g, x)) = Len(g) + 1
        /\ \A j \in 1..Len(g) : Append(g, x)[j] = g[j]
        /\ Append(g, x)[Len(g) + 1] = x
  BY GroupsSeq

LEMMA PutTop ==
  ASSUME NEW g \in Groups, g # << >>, NEW x \in GroupSpace
  PROVE /\ [g EXCEPT ![Len(g)] = x] \in Groups
        /\ Len([g EXCEPT ![Len(g)] = x]) = Len(g)
        /\ \A j \in 1..(Len(g) - 1) : [g EXCEPT ![Len(g)] = x][j] = g[j]
        /\ [g EXCEPT ![Len(g)] = x][Len(g)] = x
  <1>1. g \in Seq(GroupSpace)
    BY GroupsSeq
  <1>. QED BY <1>1, GroupsSeq

LEMMA LiveType == ASSUME NEW g \in Groups PROVE Live(g) \in SUBSET Worlds
  <1>1. CASE g = << >>
    BY <1>1 DEF Live
  <1>2. CASE g # << >>
    <2>1. Len(g) \in 1..Len(g)
      BY <1>2, GroupsLen
    <2>. QED BY <1>2, <2>1, GroupType DEF Live
  <1>. QED BY <1>1, <1>2

LEMMA TopType ==
  ASSUME NEW g \in Groups, g # << >>
  PROVE g[Len(g)].act \in SUBSET Worlds /\ g[Len(g)].taken \in SUBSET Worlds
  <1>1. Len(g) \in 1..Len(g)
    BY GroupsLen
  <1>. QED BY <1>1, GroupType

LEMMA BelowType == ASSUME NEW g \in Groups, g # << >> PROVE Below(g) \in SUBSET Worlds
  <1>1. Len(g) - 1 \in Nat /\ Len(g) - 1 <= Len(g)
    BY DEF Groups
  <1>. QED BY <1>1, PrefixGroups, LiveType DEF Below

LEMMA AfterIf ==
  ASSUME NEW g \in Groups, NEW h \in SUBSET Worlds
  PROVE /\ After(g, "if", h) \in Groups
        /\ Len(After(g, "if", h)) = Len(g) + 1
        /\ \A j \in 1..Len(g) : After(g, "if", h)[j] = g[j]
        /\ After(g, "if", h)[Len(g) + 1] = Group(Live(g) \cap h, h, FALSE)
  <1>1. Live(g) \cap h \in SUBSET Worlds
    OBVIOUS
  <1>2. After(g, "if", h) = Append(g, Group(Live(g) \cap h, h, FALSE))
    BY DEF After
  <1>. DEFINE x == Group(Live(g) \cap h, h, FALSE)
  <1>3. x \in GroupSpace
    BY <1>1, GroupIn
  <1>4. After(g, "if", h) = Append(g, x)
    BY <1>2
  <1>5. x = Group(Live(g) \cap h, h, FALSE)
    OBVIOUS
  <1>. HIDE DEF x
  <1>6. /\ Append(g, x) \in Groups
        /\ Len(Append(g, x)) = Len(g) + 1
        /\ \A j \in 1..Len(g) : Append(g, x)[j] = g[j]
        /\ Append(g, x)[Len(g) + 1] = x
    BY <1>3, PushTop
  <1>. QED BY <1>4, <1>5, <1>6, Zenon

LEMMA AfterElif ==
  ASSUME NEW g \in Groups, g # << >>, NEW h \in SUBSET Worlds
  PROVE /\ After(g, "elif", h) \in Groups
        /\ Len(After(g, "elif", h)) = Len(g)
        /\ \A j \in 1..(Len(g) - 1) : After(g, "elif", h)[j] = g[j]
        /\ After(g, "elif", h)[Len(g)] = Group((Below(g) \ g[Len(g)].taken) \cap h, g[Len(g)].taken \cup h, FALSE)
  <1>. DEFINE a == (Below(g) \ g[Len(g)].taken) \cap h
              t == g[Len(g)].taken \cup h
  <1>1. a \in SUBSET Worlds /\ t \in SUBSET Worlds
    BY BelowType, TopType
  <1>2. After(g, "elif", h) = [g EXCEPT ![Len(g)] = Group(a, t, FALSE)]
    BY DEF After
  <1>. DEFINE x == Group(a, t, FALSE)
  <1>3. x \in GroupSpace
    BY <1>1, GroupIn
  <1>4. After(g, "elif", h) = [g EXCEPT ![Len(g)] = x]
    BY <1>2
  <1>5. x = Group(a, t, FALSE)
    OBVIOUS
  <1>. HIDE DEF x
  <1>6. /\ [g EXCEPT ![Len(g)] = x] \in Groups
        /\ Len([g EXCEPT ![Len(g)] = x]) = Len(g)
        /\ \A j \in 1..(Len(g) - 1) : [g EXCEPT ![Len(g)] = x][j] = g[j]
        /\ [g EXCEPT ![Len(g)] = x][Len(g)] = x
    BY <1>3, PutTop
  <1>. QED BY <1>4, <1>5, <1>6, Zenon

LEMMA AfterElse ==
  ASSUME NEW g \in Groups, g # << >>, NEW h
  PROVE /\ After(g, "else", h) \in Groups
        /\ Len(After(g, "else", h)) = Len(g)
        /\ \A j \in 1..(Len(g) - 1) : After(g, "else", h)[j] = g[j]
        /\ After(g, "else", h)[Len(g)] = Group(Below(g) \ g[Len(g)].taken, Worlds, TRUE)
  <1>. DEFINE a == Below(g) \ g[Len(g)].taken
  <1>1. a \in SUBSET Worlds
    BY BelowType
  <1>2. After(g, "else", h) = [g EXCEPT ![Len(g)] = Group(a, Worlds, TRUE)]
    BY DEF After
  <1>. DEFINE x == Group(a, Worlds, TRUE)
  <1>3. x \in GroupSpace
    BY <1>1, GroupIn
  <1>4. After(g, "else", h) = [g EXCEPT ![Len(g)] = x]
    BY <1>2
  <1>5. x = Group(a, Worlds, TRUE)
    OBVIOUS
  <1>. HIDE DEF x
  <1>6. /\ [g EXCEPT ![Len(g)] = x] \in Groups
        /\ Len([g EXCEPT ![Len(g)] = x]) = Len(g)
        /\ \A j \in 1..(Len(g) - 1) : [g EXCEPT ![Len(g)] = x][j] = g[j]
        /\ [g EXCEPT ![Len(g)] = x][Len(g)] = x
    BY <1>3, PutTop
  <1>. QED BY <1>4, <1>5, <1>6, Zenon

LEMMA AfterEndif ==
  ASSUME NEW g \in Groups, g # << >>, NEW h
  PROVE /\ After(g, "endif", h) \in Groups
        /\ Len(After(g, "endif", h)) = Len(g) - 1
        /\ \A j \in 1..(Len(g) - 1) : After(g, "endif", h)[j] = g[j]
  <1>1. Len(g) - 1 \in Nat /\ Len(g) - 1 <= Len(g)
    BY DEF Groups
  <1>2. After(g, "endif", h) = SubSeq(g, 1, Len(g) - 1)
    BY DEF After
  <1>3. LET n == Len(g) - 1
        IN /\ SubSeq(g, 1, n) \in Groups /\ Len(SubSeq(g, 1, n)) = n
           /\ \A j \in 1..n : SubSeq(g, 1, n)[j] = g[j]
    BY <1>1, PrefixGroups, Zenon
  <1>. QED BY <1>2, <1>3, Zenon


-----------------------------------------------------------------------------
(* The moves of the table, with the lines and states that call for them.   *)

Middles  == {"PASS_MIDDLE", "FALSE_MIDDLE"}
Errors   == {"Eelif", "Eelse", "Eendif", "Eioccc"}

MoveOf(is, l, m) ==
  \/ m \in Errors
  \/ l.dir \in {"plain", "blank"} /\ is \in Dropping /\ m = "drop"
  \/ l.dir \in {"plain", "blank"} /\ is \notin Dropping /\ m = "print"
  \/ l.dir = "if" /\ is \in Dropping /\ m \in {"Idrop", "Fdrop"}
  \/ l.dir = "if" /\ is \notin Dropping /\ m \in {"Fpass", "Oif", "Oiffy"}
  \/ l.dir = "if" /\ is \notin Dropping /\ ~Dodgy(l) /\ l.cond.cls = "TRUE" /\ m \in {"Ftrue", "Itrue"}
  \/ l.dir = "if" /\ is \notin Dropping /\ ~Dodgy(l) /\ l.cond.cls = "FALSE" /\ m \in {"Ffalse", "Ifalse"}
  \/ l.dir = "elif" /\ is = "FALSE_PREFIX" /\ m = "Mpass"
  \/ l.dir = "elif" /\ is = "FALSE_PREFIX" /\ ~Dodgy(l) /\ l.cond.cls = "TRUE" /\ m = "Strue"
  \/ l.dir = "elif" /\ is = "FALSE_PREFIX" /\ ~Dodgy(l) /\ l.cond.cls = "FALSE" /\ m = "Sfalse"
  \/ l.dir = "else" /\ is = "FALSE_PREFIX" /\ ~Dodgy(l) /\ m = "Selse"
  \/ l.dir = "elif" /\ is \in Middles /\ (is = "PASS_MIDDLE" \/ ~Dodgy(l)) /\ m \in {"Pelif", "Oelif"}
  \/ l.dir = "else" /\ is \in Middles /\ (is = "PASS_MIDDLE" \/ ~Dodgy(l)) /\ m = "Pelse"
  \/ l.dir = "elif" /\ is \in Middles /\ ~Dodgy(l) /\ l.cond.cls = "TRUE" /\ m = "Mtrue"
  \/ l.dir = "elif" /\ is \in Middles /\ ~Dodgy(l) /\ l.cond.cls = "FALSE" /\ m = "Delif"
  \/ l.dir = "elif" /\ is = "TRUE_PREFIX" /\ ~Dodgy(l) /\ m = "Dfalse"
  \/ l.dir = "else" /\ is = "TRUE_PREFIX" /\ ~Dodgy(l) /\ m = "Delse"
  \/ l.dir = "elif" /\ is = "FALSE_TRAILER" /\ m = "Dfalse"
  \/ l.dir = "else" /\ is = "FALSE_TRAILER" /\ m = "Delse"
  \/ l.dir = "elif" /\ is = "TRUE_MIDDLE" /\ ~Dodgy(l) /\ m = "Melif"
  \/ l.dir = "else" /\ is = "TRUE_MIDDLE" /\ ~Dodgy(l) /\ m = "Melse"
  \/ l.dir = "endif" /\ is \in Emits /\ (is \notin Dropping \/ ~Dodgy(l)) /\ m = "Pendif"
  \/ l.dir = "endif" /\ is \notin Emits \cup {"OUTSIDE"} /\ ~Dodgy(l) /\ m = "Dendif"

LEMMA OfIs ==
  ASSUME NEW a, NEW b, NEW c, NEW d, NEW e
  PROVE /\ Of("ELIF", a, b, c, d, e) = a /\ Of("ELTRUE", a, b, c, d, e) = b
        /\ Of("ELFALSE", a, b, c, d, e) = c /\ Of("ELSE", a, b, c, d, e) = d
        /\ Of("ENDIF", a, b, c, d, e) = e
  BY DEF Of

LEMMA CleanIs ==
  ASSUME NEW lt
  PROVE /\ CleanMove("OUTSIDE", lt) = Of(lt, "Eelif", "Eelif", "Eelif", "Eelse", "Eendif")
        /\ CleanMove("FALSE_PREFIX", lt) = Of(lt, "Mpass", "Strue", "Sfalse", "Selse", "Dendif")
        /\ CleanMove("TRUE_PREFIX", lt) = Of(lt, "Dfalse", "Dfalse", "Dfalse", "Delse", "Dendif")
        /\ CleanMove("PASS_MIDDLE", lt) = Of(lt, "Pelif", "Mtrue", "Delif", "Pelse", "Pendif")
        /\ CleanMove("FALSE_MIDDLE", lt) = Of(lt, "Pelif", "Mtrue", "Delif", "Pelse", "Pendif")
        /\ CleanMove("TRUE_MIDDLE", lt) = Of(lt, "Melif", "Melif", "Melif", "Melse", "Pendif")
        /\ CleanMove("PASS_ELSE", lt) = Of(lt, "Eelif", "Eelif", "Eelif", "Eelse", "Pendif")
        /\ CleanMove("FALSE_ELSE", lt) = Of(lt, "Eelif", "Eelif", "Eelif", "Eelse", "Dendif")
        /\ CleanMove("TRUE_ELSE", lt) = Of(lt, "Eelif", "Eelif", "Eelif", "Eelse", "Dendif")
        /\ CleanMove("FALSE_TRAILER", lt) = Of(lt, "Dfalse", "Dfalse", "Dfalse", "Delse", "Dendif")
  BY DEF CleanMove

LEMMA DodgyIs ==
  ASSUME NEW lt
  PROVE /\ DodgyMove("OUTSIDE", lt) = CleanMove("OUTSIDE", lt)
        /\ DodgyMove("FALSE_PREFIX", lt) = Of(lt, "Mpass", "Eioccc", "Eioccc", "Eioccc", "Eioccc")
        /\ DodgyMove("TRUE_PREFIX", lt) = Of(lt, "Eioccc", "Eioccc", "Eioccc", "Eioccc", "Eioccc")
        /\ DodgyMove("PASS_MIDDLE", lt) = Of(lt, "Pelif", "Oelif", "Oelif", "Pelse", "Pendif")
        /\ DodgyMove("FALSE_MIDDLE", lt) = Of(lt, "Eioccc", "Eioccc", "Eioccc", "Eioccc", "Eioccc")
        /\ DodgyMove("TRUE_MIDDLE", lt) = Of(lt, "Eioccc", "Eioccc", "Eioccc", "Eioccc", "Pendif")
        /\ DodgyMove("PASS_ELSE", lt) = CleanMove("PASS_ELSE", lt)
        /\ DodgyMove("FALSE_ELSE", lt) = IF lt = "ENDIF" THEN "Eioccc" ELSE CleanMove("FALSE_ELSE", lt)
        /\ DodgyMove("TRUE_ELSE", lt) = IF lt = "ENDIF" THEN "Eioccc" ELSE CleanMove("TRUE_ELSE", lt)
        /\ DodgyMove("FALSE_TRAILER", lt) = IF lt = "ENDIF" THEN "Eioccc" ELSE CleanMove("FALSE_TRAILER", lt)
  BY DEF DodgyMove

LEMMA MoveIs ==
  ASSUME NEW is \in Ifstates, NEW l \in LineSpace
  PROVE MoveOf(is, l, Move(is, Linetype(l), Dodgy(l)))
  <1>. DEFINE lt == Linetype(l)
              m  == Move(is, lt, Dodgy(l))
  <1>0. l.cond.cls \in {"TRUE", "FALSE", "IF"} /\ l.cond.ign \in BOOLEAN
    BY CondsSound DEF LineSpace, CondSpace
  <1>d. Dodgy(l) \in BOOLEAN
    BY DEF Dodgy, LineSpace
  <1>1. CASE l.dir \in {"plain", "blank"}
    <2>1. lt = "PLAIN"
      BY <1>1 DEF Linetype
    <2>. QED BY <1>1, <2>1 DEF Move, MoveOf
  <1>2. CASE l.dir = "if"
    <2>1. /\ lt \in {"TRUEI", "TRUE"} => l.cond.cls = "TRUE"
          /\ lt \in {"FALSEI", "FALSE"} => l.cond.cls = "FALSE"
          /\ lt \in {"TRUEI", "FALSEI", "IF", "TRUE", "FALSE"}
      BY <1>0, <1>2 DEF Linetype
    <2>2. m = OpenMove(is, lt, Dodgy(l))
      BY <2>1 DEF Move
    <2>. QED BY <1>2, <2>1, <2>2, <1>d DEF OpenMove, MoveOf
  <1>3. CASE l.dir \in {"elif", "else", "endif"}
    <2>1. /\ l.dir = "elif" => \/ lt = "ELTRUE" /\ l.cond.cls = "TRUE"
                               \/ lt = "ELFALSE" /\ l.cond.cls = "FALSE"
                               \/ lt = "ELIF"
          /\ l.dir = "else" => lt = "ELSE"
          /\ l.dir = "endif" => lt = "ENDIF"
      BY <1>0, <1>3 DEF Linetype
    <2>2. m = IF Dodgy(l) THEN DodgyMove(is, lt) ELSE CleanMove(is, lt)
      BY <1>3, <2>1 DEF Move
    <2>4. CASE ~Dodgy(l)
      <3>1. m = CleanMove(is, lt)
        BY <2>2, <2>4
      <3>2. CASE l.dir = "elif"
        BY <2>1, <2>4, <3>1, <3>2, CleanIs, OfIs DEF MoveOf, Errors, Middles, Ifstates
      <3>3. CASE l.dir = "else"
        BY <2>1, <2>4, <3>1, <3>3, CleanIs, OfIs DEF MoveOf, Errors, Middles, Ifstates
      <3>4. CASE l.dir = "endif"
        BY <2>1, <2>4, <3>1, <3>4, CleanIs, OfIs DEF MoveOf, Errors, Emits, Ifstates
      <3>. QED BY <1>3, <3>2, <3>3, <3>4
    <2>5. CASE Dodgy(l)
      <3>1. m = DodgyMove(is, lt)
        BY <2>2, <2>5
      <3>2. CASE l.dir = "elif"
        <4>1. CASE is \in {"FALSE_PREFIX", "TRUE_PREFIX", "PASS_MIDDLE", "FALSE_MIDDLE", "TRUE_MIDDLE"}
          BY <2>1, <3>1, <3>2, <4>1, DodgyIs, OfIs DEF MoveOf, Errors, Middles
        <4>2. CASE is \in {"OUTSIDE", "PASS_ELSE", "FALSE_ELSE", "TRUE_ELSE", "FALSE_TRAILER"}
          BY <2>1, <3>1, <3>2, <4>2, CleanIs, DodgyIs, OfIs DEF MoveOf, Errors, Middles
        <4>. QED BY <4>1, <4>2 DEF Ifstates
      <3>3. CASE l.dir = "else"
        <4>1. CASE is \in {"FALSE_PREFIX", "TRUE_PREFIX", "PASS_MIDDLE", "FALSE_MIDDLE", "TRUE_MIDDLE"}
          BY <2>1, <3>1, <3>3, <4>1, DodgyIs, OfIs DEF MoveOf, Errors, Middles
        <4>2. CASE is \in {"OUTSIDE", "PASS_ELSE", "FALSE_ELSE", "TRUE_ELSE", "FALSE_TRAILER"}
          BY <2>1, <3>1, <3>3, <4>2, CleanIs, DodgyIs, OfIs DEF MoveOf, Errors, Middles
        <4>. QED BY <4>1, <4>2 DEF Ifstates
      <3>4. CASE l.dir = "endif"
        <4>1. CASE is \in {"FALSE_PREFIX", "TRUE_PREFIX", "PASS_MIDDLE", "FALSE_MIDDLE", "TRUE_MIDDLE"}
          BY <2>1, <3>1, <3>4, <4>1, DodgyIs, OfIs DEF MoveOf, Errors, Emits, Dropping
        <4>2. CASE is \in {"OUTSIDE", "PASS_ELSE", "FALSE_ELSE", "TRUE_ELSE", "FALSE_TRAILER"}
          BY <2>1, <3>1, <3>4, <4>2, CleanIs, DodgyIs, OfIs DEF MoveOf, Errors, Emits, Dropping
        <4>. QED BY <4>1, <4>2 DEF Ifstates
      <3>. QED BY <1>3, <3>2, <3>3, <3>4
    <2>. QED BY <2>4, <2>5
  <1>. QED BY <1>1, <1>2, <1>3 DEF LineSpace, Directives


-----------------------------------------------------------------------------
(* The shape of the state.                                                 *)

LEMMA AfterType ==
  ASSUME NEW g \in Groups, NEW dir \in Directives \cup {"plain", "blank"}, NEW h \in SUBSET Worlds,
         ~Misplaced(g, dir)
  PROVE After(g, dir, h) \in Groups
  <1>1. dir \in {"elif", "else", "endif"} => g # << >>
    BY DEF Misplaced
  <1>2. dir \in {"plain", "blank"} => After(g, dir, h) = g
    BY DEF After
  <1>. QED BY <1>1, <1>2, AfterIf, AfterElif, AfterElse, AfterEndif DEF Directives

LEMMA ReadsType ==
  ASSUME NEW r \in Readers, NEW l \in LineSpace, NEW dir \in Directives \cup {"plain", "blank"}
  PROVE Reads(r, l, dir) \in Readers
  <1>1. l.whole.holds \in SUBSET Worlds /\ l.opens \in BOOLEAN
    BY CondsSound DEF LineSpace, CondSpace
  <1>2. CASE r.comment /\ ~l.closes
    BY <1>2 DEF Reads
  <1>3. CASE ~(r.comment /\ ~l.closes) /\ ((l.closes /\ ~r.comment) \/ Misplaced(r.groups, dir))
    <2>1. Reads(r, l, dir) = [r EXCEPT !.broken = TRUE]
      BY <1>3 DEF Reads
    <2>. QED BY <2>1 DEF Readers
  <1>4. CASE ~(r.comment /\ ~l.closes) /\ ~((l.closes /\ ~r.comment) \/ Misplaced(r.groups, dir))
    <2>1. Reads(r, l, dir) =
            [groups |-> After(r.groups, dir, l.whole.holds), comment |-> l.opens, broken |-> r.broken]
      BY <1>4 DEF Reads
    <2>2. After(r.groups, dir, l.whole.holds) \in Groups
      BY <1>1, <1>4, AfterType DEF Readers
    <2>. QED BY <2>1, <2>2, <1>1 DEF Readers
  <1>. QED BY <1>2, <1>3, <1>4

Level0 == [is : Ifstates, ign : BOOLEAN]

LEMMA LevelIn == ASSUME NEW s \in Stacks, NEW k \in 1..Len(s) PROVE s[k] \in Level0
  <1>1. s \in Seq(Level0)
    BY DEF Stacks, Level0
  <1>. QED BY <1>1

LEMMA StackOps ==
  ASSUME NEW s \in Stacks, Len(s) >= 1, NEW e \in Level0
  PROVE /\ s[Len(s)] \in Level0
        /\ Append(s, e) \in Stacks /\ Len(Append(s, e)) = Len(s) + 1
        /\ \A j \in 1..Len(s) : Append(s, e)[j] = s[j]
        /\ Append(s, e)[Len(s) + 1] = e
        /\ [s EXCEPT ![Len(s)] = e] \in Stacks /\ Len([s EXCEPT ![Len(s)] = e]) = Len(s)
        /\ \A j \in 1..(Len(s) - 1) : [s EXCEPT ![Len(s)] = e][j] = s[j]
        /\ [s EXCEPT ![Len(s)] = e][Len(s)] = e
        /\ SubSeq(s, 1, Len(s) - 1) \in Stacks
        /\ Len(SubSeq(s, 1, Len(s) - 1)) = Len(s) - 1
        /\ \A j \in 1..(Len(s) - 1) : SubSeq(s, 1, Len(s) - 1)[j] = s[j]
  <1>1. s \in Seq(Level0) /\ Len(s) \in 1..Len(s) /\ Len(s) - 1 \in Nat /\ Len(s) - 1 <= Len(s)
    BY DEF Stacks, Level0
  <1>2. Stacks = Seq(Level0)
    BY DEF Stacks, Level0
  <1>3. /\ SubSeq(s, 1, Len(s) - 1) \in Seq(Level0)
        /\ Len(SubSeq(s, 1, Len(s) - 1)) = Len(s) - 1
        /\ \A j \in 1..(Len(s) - 1) : SubSeq(s, 1, Len(s) - 1)[j] = s[j]
    BY <1>1, Prefix
  <1>4. /\ s[Len(s)] \in Level0
        /\ Append(s, e) \in Seq(Level0) /\ Len(Append(s, e)) = Len(s) + 1
        /\ \A j \in 1..Len(s) : Append(s, e)[j] = s[j]
        /\ Append(s, e)[Len(s) + 1] = e
    BY <1>1
  <1>5. /\ [s EXCEPT ![Len(s)] = e] \in Seq(Level0) /\ Len([s EXCEPT ![Len(s)] = e]) = Len(s)
        /\ \A j \in 1..(Len(s) - 1) : [s EXCEPT ![Len(s)] = e][j] = s[j]
        /\ [s EXCEPT ![Len(s)] = e][Len(s)] = e
    BY <1>1
  <1>. QED BY <1>2, <1>3, <1>4, <1>5


-----------------------------------------------------------------------------
(* What a move does to the stack and the output, unless it ends the run.   *)

Entry(is, y) == [is |-> is, ign |-> y]

Put(is)  == \E y \in BOOLEAN : stack' = [stack EXCEPT ![Len(stack)] = Entry(is, y)]
Push(is) == Len(stack) # MAXDEPTH /\ \E y \in BOOLEAN : stack' = Append(stack, Entry(is, y))

EffectOf(m, dir) ==
  /\ m \notin Errors /\ status' = status
  /\ m = "print" => wrote' = dir /\ stack' = stack
  /\ m = "drop" => wrote' = Nothing /\ stack' = stack
  /\ m = "Strue" => wrote' = Nothing /\ Put("TRUE_PREFIX")
  /\ m = "Sfalse" => wrote' = Nothing /\ Put("FALSE_PREFIX")
  /\ m = "Selse" => wrote' = Nothing /\ Put("TRUE_ELSE")
  /\ m \in {"Pelif", "Oelif"} => wrote' = dir /\ Put("PASS_MIDDLE")
  /\ m = "Pelse" => wrote' = dir /\ Put("PASS_ELSE")
  /\ m = "Dfalse" => wrote' = Nothing /\ Put("FALSE_TRAILER")
  /\ m = "Delif" => wrote' = Nothing /\ Put("FALSE_MIDDLE")
  /\ m = "Delse" => wrote' = Nothing /\ Put("FALSE_ELSE")
  /\ m = "Mpass" => wrote' = "if" /\ Put("PASS_MIDDLE")
  /\ m = "Mtrue" => wrote' = "else" /\ Put("TRUE_MIDDLE")
  /\ m = "Melif" => wrote' = "endif" /\ Put("FALSE_TRAILER")
  /\ m = "Melse" => wrote' = "endif" /\ Put("FALSE_ELSE")
  /\ m \in {"Fdrop", "Idrop"} => wrote' = Nothing /\ Push("FALSE_TRAILER")
  /\ m \in {"Fpass", "Oif", "Oiffy"} => wrote' = dir /\ Push("PASS_MIDDLE")
  /\ m \in {"Ftrue", "Itrue"} => wrote' = Nothing /\ Push("TRUE_PREFIX")
  /\ m \in {"Ffalse", "Ifalse"} => wrote' = Nothing /\ Push("FALSE_PREFIX")
  /\ m = "Pendif" => wrote' = dir /\ stack' = SubSeq(stack, 1, Len(stack) - 1)
  /\ m = "Dendif" => wrote' = Nothing /\ stack' = SubSeq(stack, 1, Len(stack) - 1)

LEMMA Effect ==
  ASSUME stack \in Stacks, Len(stack) >= 1, NEW m, NEW dir, Transition(m, dir),
         Len(stack) >= 2 \/ m \in Errors \cup {"print", "drop", "Fdrop", "Idrop", "Fpass", "Oif", "Oiffy",
                                               "Ftrue", "Itrue", "Ffalse", "Ifalse"}
  PROVE Error \/ EffectOf(m, dir)
  <1>. SUFFICES ASSUME ~Error PROVE EffectOf(m, dir)
    OBVIOUS
  <1>0. Len(stack) \in Nat
    BY DEF Stacks
  <1>1. /\ stack[Len(stack)].ign \in BOOLEAN
        /\ Len(stack) >= 2 => stack[Len(stack) - 1].ign \in BOOLEAN
    BY <1>0, LevelIn DEF Level0
  <1>2. \A is : State(is) => Put(is)
    BY <1>1 DEF State, Put, Entry, Top
  <1>3. Len(stack) >= 2 => \A is : Fresh(is) => Put(is)
    BY <1>1 DEF Fresh, Put, Entry
  <1>4. \A text, is : \A y \in BOOLEAN :
          Nest(text, is, y) => wrote' = text /\ status' = status /\ Push(is)
    BY <1>0, OptionsTyped DEF Nest, Flush, Push, Entry, depth
  <1>5. ignoring \in BOOLEAN
    BY <1>1 DEF ignoring, Top
  <1>7. m \notin Errors
    BY DEF Transition, Errors
  <1>8. m \in {"print", "drop"} => EffectOf(m, dir)
    BY <1>7 DEF Transition, Flush, EffectOf
  <1>9. m \in {"Strue", "Sfalse", "Pelif", "Oelif", "Dfalse", "Delif", "Mpass"} => EffectOf(m, dir)
    BY <1>3, <1>7 DEF Transition, Flush, EffectOf
  <1>10. m \in {"Selse", "Pelse", "Delse", "Mtrue", "Melif", "Melse"} => EffectOf(m, dir)
    BY <1>2, <1>7 DEF Transition, Flush, EffectOf
  <1>11. m \in {"Fdrop", "Idrop", "Fpass", "Oif", "Oiffy", "Ftrue", "Itrue", "Ffalse", "Ifalse"} => EffectOf(m, dir)
    BY <1>4, <1>5, <1>7 DEF Transition, EffectOf
  <1>12. m \in {"Pendif", "Dendif"} => EffectOf(m, dir)
    BY <1>7 DEF Transition, Flush, Unnest, EffectOf
  <1>13. m \notin {"print", "drop", "Strue", "Sfalse", "Pelif", "Oelif", "Dfalse", "Delif", "Mpass",
                   "Selse", "Pelse", "Delse", "Mtrue", "Melif", "Melse", "Fdrop", "Idrop", "Fpass",
                   "Oif", "Oiffy", "Ftrue", "Itrue", "Ffalse", "Ifalse", "Pendif", "Dendif"} => Error
    BY DEF Transition
  <1>. QED BY <1>8, <1>9, <1>10, <1>11, <1>12, <1>13

-----------------------------------------------------------------------------
(* The groups of the stack, of the input and of the output, move by move.  *)

\* What is known of the innermost group.
LEMMA TopFacts ==
  ASSUME NEW s, NEW gi, NEW go, Match(s, gi, go), NEW d \in Nat, d = Len(s), d >= 2,
         NEW p, p = Pos(s, d - 1), NEW a, a = InAct(gi, d - 1), NEW b, b = OutAct(s, go, d - 1),
         NEW is, is = s[d].is
  PROVE /\ TopOK(is, gi[d - 1], go[p + 1], a, b, s[d - 1].is)
        /\ is \notin {"FALSE_TRAILER", "FALSE_ELSE"} => a = b
        /\ a \in SUBSET Worlds /\ b \in SUBSET Worlds
        /\ gi[d - 1].taken \in SUBSET Worlds /\ gi # << >> /\ Below(gi) = a
        /\ p \in Nat
        /\ is \in Emits => Len(go) = p + 1 /\ go # << >> /\ Below(go) = b
        /\ is \notin Emits => Len(go) = p /\ Live(go) = b
  <1>1. p \in Nat /\ Pos(s, d) = p + (IF is \in Emits THEN 1 ELSE 0)
    BY PosNat, PosStep
  <1>2. Level(s, gi, go, d)
    BY DEF Match, Levels
  <1>3. TopOK(is, gi[d - 1], go[p + 1], a, b, s[d - 1].is)
    BY <1>2, TopLevel
  <1>4. is \notin {"FALSE_TRAILER", "FALSE_ELSE"} => a = b
    BY Around DEF Match
  <1>5. gi # << >> /\ gi \in Groups /\ go \in Groups /\ Len(gi) = d - 1 /\ Len(go) = Pos(s, d)
    BY GroupsLen DEF Match
  <1>6. Below(gi) = a /\ a \in SUBSET Worlds
    BY <1>5, BelowIn, BelowType
  <1>7. gi[d - 1].taken \in SUBSET Worlds
    BY <1>5, TopType
  <1>8. is \in Emits => Len(go) = p + 1 /\ go # << >> /\ Below(go) = b
    BY <1>1, <1>5, GroupsLen, BelowOut
  <1>9. is \notin Emits => Len(go) = p /\ Live(go) = b
    BY <1>1, <1>5, LiveOut DEF OutAct
  <1>10. b \in SUBSET Worlds
    BY <1>5, <1>8, <1>9, BelowType, LiveType
  <1>. QED BY <1>1, <1>3, <1>4, <1>5, <1>6, <1>7, <1>8, <1>9, <1>10

\* Where text is kept it is compiled in the same worlds; where it is dropped,
\* in none.
LEMMA Selection ==
  ASSUME NEW s, NEW gi, NEW go, Match(s, gi, go)
  PROVE Live(gi) = IF s[Len(s)].is \in Dropping THEN {} ELSE Live(go)
  <1>. DEFINE d == Len(s)
  <1>1. d \in Nat /\ d >= 1 /\ gi \in Groups /\ go \in Groups /\ Len(gi) = d - 1 /\ Len(go) = Pos(s, d)
    BY DEF Match, Stacks
  <1>2. Live(gi) = InAct(gi, d) /\ Live(go) = OutAct(s, go, d)
    BY <1>1, LiveIn, LiveOut
  <1>3. CASE d = 1
    BY <1>2, <1>3, PosBase DEF InAct, OutAct, Match, Dropping
  <1>4. CASE d # 1
    <2>1. Level(s, gi, go, d)
      BY <1>1, <1>4 DEF Match, Levels
    <2>. QED BY <1>2, <1>4, <2>1 DEF Level, InAct
  <1>. QED BY <1>3, <1>4

\* The innermost group changes its state.
PutFits(s, gi, go, d, is2, y, gi2, go2) ==
  /\ Match(s, gi, go) /\ d \in Nat /\ d = Len(s) /\ d >= 2
  /\ is2 \in Ifstates /\ y \in BOOLEAN
  /\ gi2 \in Groups /\ Len(gi2) = d - 1 /\ \A j \in 1..(d - 2) : gi2[j] = gi[j]
  /\ go2 \in Groups /\ Len(go2) = Pos(s, d - 1) + (IF is2 \in Emits THEN 1 ELSE 0)
  /\ \A j \in 1..Pos(s, d - 1) : go2[j] = go[j]
  /\ TopOK(is2, gi2[d - 1], go2[Pos(s, d - 1) + 1], InAct(gi, d - 1), OutAct(s, go, d - 1), s[d - 1].is)

LEMMA MatchPut ==
  ASSUME NEW s, NEW gi, NEW go, NEW d, NEW is2, NEW y, NEW gi2, NEW go2,
         PutFits(s, gi, go, d, is2, y, gi2, go2), NEW t, t = [s EXCEPT ![d] = Entry(is2, y)]
  PROVE Match(t, gi2, go2)
  <1>. USE DEF PutFits
  <1>1. s \in Stacks /\ s[1].is = "OUTSIDE" /\ Levels(s, gi, go)
    BY DEF Match
  <1>2. Entry(is2, y) \in Level0
    BY DEF Entry, Level0
  <1>. DEFINE e == Entry(is2, y)
  <1>. HIDE DEF e
  <1>3a. /\ [s EXCEPT ![Len(s)] = e] \in Stacks /\ Len([s EXCEPT ![Len(s)] = e]) = Len(s)
         /\ \A j \in 1..(Len(s) - 1) : [s EXCEPT ![Len(s)] = e][j] = s[j]
         /\ [s EXCEPT ![Len(s)] = e][Len(s)] = e
    BY <1>1, <1>2, StackOps, Zenon DEF e, Match
  <1>3. t \in Stacks /\ Len(t) = d /\ t[d] = Entry(is2, y) /\ \A j \in 1..(d - 1) : t[j] = s[j]
    BY <1>3a, Zenon DEF e
  <1>4. t[d].is = is2 /\ t[1] = s[1]
    BY <1>3 DEF Entry
  <1>5a. /\ d <= Len(s) + 1 /\ \A j \in 1..Pos(s, d - 1) : go2[j] = go[j]
         /\ TopOK(t[d].is, gi2[d - 1], go2[Pos(s, d - 1) + 1],
                  InAct(gi, d - 1), OutAct(s, go, d - 1), s[d - 1].is)
    BY <1>4
  <1>5. Levels(t, gi2, go2) /\ Pos(t, d - 1) = Pos(s, d - 1)
    <2>0a. s \in Stacks /\ t \in Stacks /\ d \in Nat /\ d >= 2 /\ Len(t) = d /\ d <= Len(s) + 1
      BY <1>1, <1>3, <1>5a
    <2>0b. (\A j \in 1..(d - 1) : t[j] = s[j]) /\ Levels(s, gi, go)
      BY <1>1, <1>3
    <2>0c. (\A j \in 1..(d - 2) : gi2[j] = gi[j]) /\ \A j \in 1..Pos(s, d - 1) : go2[j] = go[j]
      BY <1>5a
    <2>1. Regroups(s, t, d, gi, gi2, go, go2)
      BY <1>5a, <2>0a, <2>0b, <2>0c DEF Regroups
    <2>2. Levels(t, gi2, go2) /\ Pos(t, d - 1) = Pos(s, d - 1)
      BY ONLY <2>1, Regroup
    <2>. QED BY <2>2
  <1>6a. Pos(t, d) = Pos(t, d - 1) + (IF t[d].is \in Emits THEN 1 ELSE 0)
    BY PosStep
  <1>6. Pos(t, d) = Pos(s, d - 1) + (IF is2 \in Emits THEN 1 ELSE 0)
    BY <1>4, <1>5, <1>6a
  <1>. QED BY <1>1, <1>3, <1>4, <1>5, <1>6 DEF Match

\* A group opens.
LEMMA MatchPush ==
  ASSUME NEW s, NEW gi, NEW go, Match(s, gi, go), NEW d \in Nat, d = Len(s),
         NEW is2 \in Ifstates, NEW y \in BOOLEAN, NEW t, t = Append(s, Entry(is2, y)),
         NEW gi2 \in Groups, Len(gi2) = d, \A j \in 1..(d - 1) : gi2[j] = gi[j],
         NEW go2 \in Groups, Len(go2) = Len(go) + (IF is2 \in Emits THEN 1 ELSE 0),
         \A j \in 1..Len(go) : go2[j] = go[j],
         TopOK(is2, gi2[d], go2[Len(go) + 1], Live(gi), Live(go), s[d].is)
  PROVE Match(t, gi2, go2)
  <1>1. s \in Stacks /\ s[1].is = "OUTSIDE" /\ Levels(s, gi, go) /\ d >= 1
    BY DEF Match
  <1>2. Entry(is2, y) \in Level0
    BY DEF Entry, Level0
  <1>. DEFINE e == Entry(is2, y)
  <1>. HIDE DEF e
  <1>3a. /\ Append(s, e) \in Stacks /\ Len(Append(s, e)) = Len(s) + 1
         /\ \A j \in 1..Len(s) : Append(s, e)[j] = s[j]
         /\ Append(s, e)[Len(s) + 1] = e
    BY <1>1, <1>2, StackOps, Zenon DEF e, Match
  <1>3. t \in Stacks /\ Len(t) = d + 1 /\ t[d + 1] = Entry(is2, y) /\ \A j \in 1..d : t[j] = s[j]
    BY <1>3a, Zenon DEF e
  <1>4. t[d + 1].is = is2 /\ t[1] = s[1]
    BY <1>1, <1>3 DEF Entry
  <1>5. Live(gi) = InAct(gi, d) /\ Live(go) = OutAct(s, go, d) /\ Len(go) = Pos(s, d)
    BY <1>1, LiveIn, LiveOut DEF Match
  <1>6. /\ (d + 1) - 1 = d /\ (d + 1) - 2 = d - 1 /\ d + 1 \in Nat /\ d + 1 >= 2
        /\ \A j \in 1..((d + 1) - 1) : t[j] = s[j]
        /\ \A j \in 1..((d + 1) - 2) : gi2[j] = gi[j]
        /\ \A j \in 1..Pos(s, (d + 1) - 1) : go2[j] = go[j]
        /\ TopOK(t[d + 1].is, gi2[(d + 1) - 1], go2[Pos(s, (d + 1) - 1) + 1],
                 InAct(gi, (d + 1) - 1), OutAct(s, go, (d + 1) - 1), s[(d + 1) - 1].is)
    BY <1>1, <1>3, <1>4, <1>5
  <1>6a. d + 1 <= Len(s) + 1
    OBVIOUS
  <1>7. Levels(t, gi2, go2) /\ Pos(t, (d + 1) - 1) = Pos(s, (d + 1) - 1)
    <2>1. Regroups(s, t, d + 1, gi, gi2, go, go2)
      BY <1>1, <1>3, <1>6a, <1>6, Zenon DEF Regroups
    <2>. QED BY <2>1, Regroup, Zenon
  <1>8a. Pos(t, d + 1) = Pos(t, (d + 1) - 1) + (IF t[d + 1].is \in Emits THEN 1 ELSE 0)
    BY <1>6, PosStep, Zenon
  <1>8. Pos(t, d + 1) = Len(go) + (IF is2 \in Emits THEN 1 ELSE 0)
    BY <1>4, <1>5, <1>6, <1>7, <1>8a
  <1>. QED BY <1>1, <1>3, <1>4, <1>7, <1>8 DEF Match

\* The innermost group closes.
PopFits(s, gi, go, d, gi2, go2) ==
  /\ Match(s, gi, go) /\ d \in Nat /\ d = Len(s) /\ d >= 2
  /\ gi2 \in Groups /\ Len(gi2) = d - 2 /\ \A j \in 1..(d - 2) : gi2[j] = gi[j]
  /\ go2 \in Groups /\ Len(go2) = Pos(s, d - 1) /\ \A j \in 1..Pos(s, d - 1) : go2[j] = go[j]

LEMMA MatchPop ==
  ASSUME NEW s, NEW gi, NEW go, NEW d, NEW gi2, NEW go2,
         PopFits(s, gi, go, d, gi2, go2), NEW t, t = SubSeq(s, 1, d - 1)
  PROVE Match(t, gi2, go2)
  <1>. USE DEF PopFits
  <1>1. s \in Stacks /\ s[1].is = "OUTSIDE" /\ Levels(s, gi, go)
    BY DEF Match
  <1>2. Entry("OUTSIDE", FALSE) \in Level0
    BY DEF Entry, Level0, Ifstates
  <1>3a. /\ SubSeq(s, 1, Len(s) - 1) \in Stacks
         /\ Len(SubSeq(s, 1, Len(s) - 1)) = Len(s) - 1
         /\ \A j \in 1..(Len(s) - 1) : SubSeq(s, 1, Len(s) - 1)[j] = s[j]
    BY <1>1, <1>2, StackOps, Zenon DEF Match
  <1>3. t \in Stacks /\ Len(t) = d - 1 /\ \A j \in 1..(d - 1) : t[j] = s[j]
    BY <1>3a
  <1>4. t[1] = s[1]
    BY <1>3
  <1>5a. /\ Len(t) <= Len(s) /\ \A j \in 1..Len(t) : t[j] = s[j]
         /\ \A j \in 1..(Len(t) - 1) : gi2[j] = gi[j]
         /\ \A j \in 1..Pos(s, Len(t)) : go2[j] = go[j]
    BY <1>3
  <1>5b. Levels(t, gi2, go2) /\ Pos(t, Len(t)) = Pos(s, Len(t))
    BY <1>1, <1>3, <1>5a, Ungroup, Zenon
  <1>5. Levels(t, gi2, go2) /\ Pos(t, d - 1) = Pos(s, d - 1)
    BY <1>3, <1>5b
  <1>. QED BY <1>1, <1>3, <1>4, <1>5 DEF Match

\* g2 is the n outer groups of g, and x inside them.
Over(g2, g, n, x) ==
  g2 \in Groups /\ Len(g2) = n + 1 /\ (\A j \in 1..n : g2[j] = g[j]) /\ g2[n + 1] = x

\* g2 is the n outer groups of g.
Under(g2, g, n) == g2 \in Groups /\ Len(g2) = n /\ \A j \in 1..n : g2[j] = g[j]

\* What a directive makes of n + 1 groups, and #if of n groups.
LEMMA Inner ==
  ASSUME NEW g \in Groups, NEW n \in Nat, Len(g) = n + 1, NEW h \in SUBSET Worlds
  PROVE /\ Over(After(g, "elif", h), g, n, Group((Below(g) \ g[n + 1].taken) \cap h, g[n + 1].taken \cup h, FALSE))
        /\ Over(After(g, "else", h), g, n, Group(Below(g) \ g[n + 1].taken, Worlds, TRUE))
        /\ Under(After(g, "endif", h), g, n)
        /\ Over(g, g, n, g[n + 1])
  <1>1. g # << >> /\ Len(g) - 1 = n
    BY GroupsLen
  <1>2. Over(After(g, "elif", h), g, n, Group((Below(g) \ g[n + 1].taken) \cap h, g[n + 1].taken \cup h, FALSE))
    BY <1>1, AfterElif DEF Over
  <1>3. Over(After(g, "else", h), g, n, Group(Below(g) \ g[n + 1].taken, Worlds, TRUE))
    <2>1. /\ After(g, "else", h) \in Groups /\ Len(After(g, "else", h)) = Len(g)
          /\ \A j \in 1..(Len(g) - 1) : After(g, "else", h)[j] = g[j]
          /\ After(g, "else", h)[Len(g)] = Group(Below(g) \ g[Len(g)].taken, Worlds, TRUE)
      BY <1>1, AfterElse, Zenon
    <2>. QED BY <1>1, <2>1, Zenon DEF Over
  <1>4. Under(After(g, "endif", h), g, n)
    BY <1>1, AfterEndif DEF Under
  <1>. QED BY <1>2, <1>3, <1>4 DEF Over

LEMMA Outer ==
  ASSUME NEW g \in Groups, NEW n \in Nat, Len(g) = n, NEW h \in SUBSET Worlds
  PROVE Over(After(g, "if", h), g, n, Group(Live(g) \cap h, h, FALSE)) /\ Under(g, g, n)
  BY AfterIf DEF Over, Under

\* The output's groups: as many outside the innermost one, and that one if its
\* #if was written.
OutFits(is2, go2, go, p, z) ==
  IF is2 \in Emits THEN Over(go2, go, p, z) ELSE Under(go2, go, p)

\* MatchPut and MatchPush in these terms.
FitsPut(s, gi, go, d, is2, y, gi2, go2, x, z) ==
  /\ Match(s, gi, go) /\ d \in Nat /\ d = Len(s) /\ d >= 2
  /\ is2 \in Ifstates /\ y \in BOOLEAN
  /\ Over(gi2, gi, d - 2, x) /\ OutFits(is2, go2, go, Pos(s, d - 1), z)
  /\ TopOK(is2, x, z, InAct(gi, d - 1), OutAct(s, go, d - 1), s[d - 1].is)

LEMMA FitPut ==
  ASSUME NEW s, NEW gi, NEW go, NEW d, NEW is2, NEW y, NEW gi2, NEW go2, NEW x, NEW z,
         FitsPut(s, gi, go, d, is2, y, gi2, go2, x, z), NEW t, t = [s EXCEPT ![d] = Entry(is2, y)]
  PROVE Match(t, gi2, go2)
  <1>. USE DEF FitsPut
  <1>. DEFINE p == Pos(s, d - 1)
  <1>1. gi2 \in Groups /\ Len(gi2) = d - 1 /\ (\A j \in 1..(d - 2) : gi2[j] = gi[j]) /\ gi2[d - 1] = x
    BY DEF Over
  <1>2. /\ go2 \in Groups /\ Len(go2) = p + (IF is2 \in Emits THEN 1 ELSE 0)
        /\ \A j \in 1..p : go2[j] = go[j]
        /\ is2 \in Emits => go2[p + 1] = z
    <2>1. p \in Nat
      BY PosNat, d - 1 \in Nat
    <2>. QED BY <2>1 DEF OutFits, Over, Under
  <1>3. TopOK(is2, gi2[d - 1], go2[p + 1], InAct(gi, d - 1), OutAct(s, go, d - 1), s[d - 1].is)
    <2>1. CASE is2 \in Emits
      BY <1>1, <1>2, <2>1
    <2>2. CASE is2 \notin Emits
      BY <1>1, <2>2 DEF TopOK, Emits
    <2>. QED BY <2>1, <2>2
  <1>4. PutFits(s, gi, go, d, is2, y, gi2, go2)
    BY <1>1, <1>2, <1>3 DEF PutFits
  <1>. QED BY <1>4, MatchPut, Zenon

FitsPush(s, gi, go, d, is2, y, gi2, go2, x, z) ==
  /\ Match(s, gi, go) /\ d \in Nat /\ d = Len(s)
  /\ is2 \in Ifstates /\ y \in BOOLEAN
  /\ Over(gi2, gi, d - 1, x) /\ OutFits(is2, go2, go, Len(go), z)
  /\ TopOK(is2, x, z, Live(gi), Live(go), s[d].is)

LEMMA FitPush ==
  ASSUME NEW s, NEW gi, NEW go, NEW d, NEW is2, NEW y, NEW gi2, NEW go2, NEW x, NEW z,
         FitsPush(s, gi, go, d, is2, y, gi2, go2, x, z), NEW t, t = Append(s, Entry(is2, y))
  PROVE Match(t, gi2, go2)
  <1>. USE DEF FitsPush
  <1>0. Len(go) \in Nat
    BY GroupsLen DEF Match
  <1>1. gi2 \in Groups /\ Len(gi2) = d /\ (\A j \in 1..(d - 1) : gi2[j] = gi[j]) /\ gi2[d] = x
    BY DEF Over
  <1>2. /\ go2 \in Groups /\ Len(go2) = Len(go) + (IF is2 \in Emits THEN 1 ELSE 0)
        /\ \A j \in 1..Len(go) : go2[j] = go[j]
        /\ is2 \in Emits => go2[Len(go) + 1] = z
    BY <1>0 DEF OutFits, Over, Under
  <1>3. TopOK(is2, gi2[d], go2[Len(go) + 1], Live(gi), Live(go), s[d].is)
    <2>1. CASE is2 \in Emits
      BY <1>1, <1>2, <2>1
    <2>2. CASE is2 \notin Emits
      BY <1>1, <2>2 DEF TopOK, Emits
    <2>. QED BY <2>1, <2>2
  <1>4. /\ Match(s, gi, go) /\ d \in Nat /\ d = Len(s) /\ is2 \in Ifstates /\ y \in BOOLEAN
        /\ t = Append(s, Entry(is2, y))
    OBVIOUS
  <1>. HIDE DEF FitsPush
  <1>. QED BY <1>1, <1>2, <1>3, <1>4, MatchPush, ZenonT(60)

\* The moves that change the state of a group: on the directive dir, whose
\* condition holds in the worlds of h, w is written and is becomes is2.
PutOf(is, dir, h, w, is2) ==
  \/ dir = "elif" /\ is = "FALSE_PREFIX" /\ w = Nothing /\ h = Worlds /\ is2 = "TRUE_PREFIX"
  \/ dir = "elif" /\ is = "FALSE_PREFIX" /\ w = Nothing /\ h = {} /\ is2 = "FALSE_PREFIX"
  \/ dir = "elif" /\ is = "FALSE_PREFIX" /\ w = "if" /\ is2 = "PASS_MIDDLE"
  \/ dir = "elif" /\ is \in {"TRUE_PREFIX", "FALSE_TRAILER"} /\ w = Nothing /\ is2 = "FALSE_TRAILER"
  \/ dir = "elif" /\ is \in Middles /\ w = "elif" /\ is2 = "PASS_MIDDLE"
  \/ dir = "elif" /\ is \in Middles /\ w = "else" /\ h = Worlds /\ is2 = "TRUE_MIDDLE"
  \/ dir = "elif" /\ is \in Middles /\ w = Nothing /\ h = {} /\ is2 = "FALSE_MIDDLE"
  \/ dir = "elif" /\ is = "TRUE_MIDDLE" /\ w = "endif" /\ is2 = "FALSE_TRAILER"
  \/ dir = "else" /\ is = "FALSE_PREFIX" /\ w = Nothing /\ is2 = "TRUE_ELSE"
  \/ dir = "else" /\ is \in {"TRUE_PREFIX", "FALSE_TRAILER"} /\ w = Nothing /\ is2 = "FALSE_ELSE"
  \/ dir = "else" /\ is \in Middles /\ w = "else" /\ is2 = "PASS_ELSE"
  \/ dir = "else" /\ is = "TRUE_MIDDLE" /\ w = "endif" /\ is2 = "FALSE_ELSE"

\* The innermost group of the input after dir, and of the output after w; a and
\* b are the worlds of the text around it, i and o the groups before.
InTop(dir, a, i, h) ==
  IF dir = "elif" THEN Group((a \ i.taken) \cap h, i.taken \cup h, FALSE)
                  ELSE Group(a \ i.taken, Worlds, TRUE)

OutTop(w, b, o, h) ==
  CASE w = "if"   -> Group(b \cap h, h, FALSE)
    [] w = "elif" -> Group((b \ o.taken) \cap h, o.taken \cup h, FALSE)
    [] w = "else" -> Group(b \ o.taken, Worlds, TRUE)
    [] OTHER      -> o

LEMMA PutTopOK ==
  ASSUME NEW is, NEW i, NEW o, NEW a \in SUBSET Worlds, NEW b \in SUBSET Worlds, NEW below,
         TopOK(is, i, o, a, b, below), i.taken \in SUBSET Worlds,
         is \notin {"FALSE_TRAILER", "FALSE_ELSE"} => a = b,
         NEW dir, NEW h \in SUBSET Worlds, NEW w, NEW is2, PutOf(is, dir, h, w, is2)
  PROVE TopOK(is2, InTop(dir, a, i, h), OutTop(w, b, o, h), a, b, below)
  <1>. USE DEF TopOK, Emits, Dropping, Middles, Group, Nothing, InTop, OutTop
  <1>1. CASE dir = "elif" /\ is = "FALSE_PREFIX"
    BY <1>1 DEF PutOf
  <1>2. CASE dir = "elif" /\ is \in {"TRUE_PREFIX", "FALSE_TRAILER"}
    BY <1>2 DEF PutOf
  <1>3. CASE dir = "elif" /\ is \in Middles /\ w = "elif"
    BY <1>3 DEF PutOf
  <1>4. CASE dir = "elif" /\ is \in Middles /\ w = "else"
    BY <1>4 DEF PutOf
  <1>5. CASE dir = "elif" /\ is \in Middles /\ w = Nothing
    BY <1>5 DEF PutOf
  <1>6. CASE dir = "elif" /\ is = "TRUE_MIDDLE"
    BY <1>6 DEF PutOf
  <1>7. CASE dir = "else"
    BY <1>7 DEF PutOf
  <1>. QED BY <1>1, <1>2, <1>3, <1>4, <1>5, <1>6, <1>7 DEF PutOf

\* The same of the moves that open a group.
PushOf(is, h, w, is2) ==
  \/ is \in Dropping /\ w = Nothing /\ is2 = "FALSE_TRAILER"
  \/ is \notin Dropping /\ w = "if" /\ is2 = "PASS_MIDDLE"
  \/ is \notin Dropping /\ w = Nothing /\ h = Worlds /\ is2 = "TRUE_PREFIX"
  \/ is \notin Dropping /\ w = Nothing /\ h = {} /\ is2 = "FALSE_PREFIX"

LEMMA PushTopOK ==
  ASSUME NEW is, NEW b \in SUBSET Worlds, NEW a, a = (IF is \in Dropping THEN {} ELSE b),
         NEW h \in SUBSET Worlds, NEW w, NEW is2, PushOf(is, h, w, is2)
  PROVE TopOK(is2, Group(a \cap h, h, FALSE), Group(b \cap h, h, FALSE), a, b, is)
  BY DEF TopOK, Emits, Dropping, Group, Nothing, PushOf

PutCase(s, gi, go, d, h, y, dir, w, is2, t, go2) ==
  /\ Match(s, gi, go) /\ d \in Nat /\ d = Len(s) /\ d >= 2 /\ h \in SUBSET Worlds /\ y \in BOOLEAN
  /\ PutOf(s[d].is, dir, h, w, is2) /\ t = [s EXCEPT ![d] = Entry(is2, y)]
  /\ go2 = IF w = Nothing THEN go ELSE After(go, w, h)

LEMMA Puts ==
  ASSUME NEW s, NEW gi, NEW go, NEW d, NEW h, NEW y, NEW dir, NEW w, NEW is2, NEW t, NEW go2,
         PutCase(s, gi, go, d, h, y, dir, w, is2, t, go2)
  PROVE /\ Match(t, After(gi, dir, h), go2)
        /\ ~Misplaced(gi, dir) /\ (w # Nothing => ~Misplaced(go, w))
  <1>. USE DEF PutCase
  <1>. DEFINE is == s[d].is
              p  == Pos(s, d - 1)
              a  == InAct(gi, d - 1)
              b  == OutAct(s, go, d - 1)
              x  == InTop(dir, a, gi[d - 1], h)
              z  == OutTop(w, b, go[p + 1], h)
  <1>1. TopOK(is, gi[d - 1], go[p + 1], a, b, s[d - 1].is)
    BY TopFacts
  <1>2. /\ is \notin {"FALSE_TRAILER", "FALSE_ELSE"} => a = b
        /\ a \in SUBSET Worlds /\ b \in SUBSET Worlds /\ gi[d - 1].taken \in SUBSET Worlds
    BY TopFacts
  <1>3. gi # << >> /\ Below(gi) = a /\ p \in Nat
    BY TopFacts
  <1>4. /\ is \in Emits => Len(go) = p + 1 /\ go # << >> /\ Below(go) = b
        /\ is \notin Emits => Len(go) = p /\ Live(go) = b
    BY TopFacts
  <1>5. gi \in Groups /\ Len(gi) = (d - 2) + 1 /\ go \in Groups /\ d - 2 \in Nat /\ (d - 2) + 1 = d - 1
    BY DEF Match
  <1>6. TopOK(is2, x, z, a, b, s[d - 1].is)
    BY <1>1, <1>2, PutTopOK
  <1>7. Over(After(gi, dir, h), gi, d - 2, x)
    <2>1. /\ Over(After(gi, "elif", h), gi, d - 2, InTop("elif", a, gi[d - 1], h))
          /\ Over(After(gi, "else", h), gi, d - 2, InTop("else", a, gi[d - 1], h))
      BY <1>3, <1>5, Inner DEF InTop
    <2>2. dir \in {"elif", "else"}
      BY DEF PutOf
    <2>. QED BY <2>1, <2>2
  <1>8. OutFits(is2, go2, go, p, z)
    <2>1. CASE is \in Emits
      <3>1. /\ Over(After(go, "elif", h), go, p, OutTop("elif", b, go[p + 1], h))
            /\ Over(After(go, "else", h), go, p, OutTop("else", b, go[p + 1], h))
            /\ Under(After(go, "endif", h), go, p)
            /\ Over(go, go, p, OutTop(Nothing, b, go[p + 1], h))
        BY <1>3, <1>4, <1>5, <2>1, Inner DEF OutTop, Nothing
      <3>2. \/ w = Nothing /\ is2 \in Emits
            \/ w \in {"elif", "else"} /\ is2 \in Emits
            \/ w = "endif" /\ is2 \notin Emits
        BY <2>1 DEF PutOf, Emits, Middles
      <3>. QED BY <3>1, <3>2 DEF OutFits, Nothing
    <2>2. CASE is \notin Emits
      <3>1. /\ Over(After(go, "if", h), go, p, OutTop("if", b, go[p + 1], h))
            /\ Under(go, go, p)
        BY <1>3, <1>4, <1>5, <2>2, Outer DEF OutTop
      <3>2. \/ w = Nothing /\ is2 \notin Emits
            \/ w = "if" /\ is2 \in Emits
        BY <2>2 DEF PutOf, Emits, Middles
      <3>. QED BY <3>1, <3>2 DEF OutFits, Nothing
    <2>. QED BY <2>1, <2>2
  <1>9. is2 \in Ifstates
    BY DEF PutOf, Ifstates
  <1>10. FitsPut(s, gi, go, d, is2, y, After(gi, dir, h), go2, x, z)
    BY <1>6, <1>7, <1>8, <1>9 DEF FitsPut
  <1>11. Match(t, After(gi, dir, h), go2)
    BY <1>10, FitPut
  <1>12. ~Misplaced(gi, dir)
    <2>1. ~gi[d - 1].els
      BY <1>1 DEF PutOf, TopOK, Middles
    <2>. QED BY <1>3, <1>5, <2>1 DEF Misplaced
  <1>13. w # Nothing => ~Misplaced(go, w)
    <2>1. w \in {"elif", "else"} => is \in Emits /\ ~go[p + 1].els
      BY <1>1 DEF PutOf, TopOK, Emits, Middles, Nothing
    <2>2. w = "endif" => is \in Emits
      BY DEF PutOf, Emits, Nothing, Middles
    <2>. QED BY <1>4, <2>1, <2>2 DEF Misplaced
  <1>. QED BY <1>11, <1>12, <1>13

LEMMA Pushes ==
  ASSUME NEW s, NEW gi, NEW go, Match(s, gi, go), NEW d \in Nat, d = Len(s),
         NEW h \in SUBSET Worlds, NEW y \in BOOLEAN, NEW w, NEW is2,
         PushOf(s[d].is, h, w, is2), NEW t, t = Append(s, Entry(is2, y)),
         NEW go2, go2 = IF w = Nothing THEN go ELSE After(go, w, h)
  PROVE Match(t, After(gi, "if", h), go2)
  <1>. DEFINE is == s[d].is
              x  == Group(Live(gi) \cap h, h, FALSE)
              z  == Group(Live(go) \cap h, h, FALSE)
  <1>1. gi \in Groups /\ go \in Groups /\ Len(gi) = d - 1 /\ Len(go) \in Nat /\ d - 1 \in Nat
    BY GroupsLen DEF Match
  <1>2. Live(gi) = (IF is \in Dropping THEN {} ELSE Live(go)) /\ Live(go) \in SUBSET Worlds
    BY <1>1, Selection, LiveType
  <1>3. Over(After(gi, "if", h), gi, d - 1, x)
    BY <1>1, Outer
  <1>4. Over(After(go, "if", h), go, Len(go), z) /\ Under(go, go, Len(go))
    BY <1>1, Outer
  <1>5. is2 \in Ifstates
    BY DEF PushOf, Ifstates
  <1>6. OutFits(is2, go2, go, Len(go), z)
    <2>1. \/ w = Nothing /\ is2 \notin Emits
          \/ w = "if" /\ is2 \in Emits
      BY DEF PushOf, Emits
    <2>. QED BY <1>4, <2>1 DEF OutFits, Nothing
  <1>7. TopOK(is2, x, z, Live(gi), Live(go), is)
    BY <1>2, PushTopOK
  <1>8. FitsPush(s, gi, go, d, is2, y, After(gi, "if", h), go2, x, z)
    BY <1>3, <1>5, <1>6, <1>7 DEF FitsPush
  <1>. QED BY <1>8, FitPush

\* The moves that close a group.
PopOf(is, w) ==
  \/ is \in Emits /\ w = "endif"
  \/ is \notin Emits /\ w = Nothing

PopCase(s, gi, go, d, h, w, t, go2) ==
  /\ Match(s, gi, go) /\ d \in Nat /\ d = Len(s) /\ d >= 2 /\ h \in SUBSET Worlds
  /\ PopOf(s[d].is, w) /\ t = SubSeq(s, 1, d - 1)
  /\ go2 = IF w = Nothing THEN go ELSE After(go, w, h)

LEMMA Pops ==
  ASSUME NEW s, NEW gi, NEW go, NEW d, NEW h, NEW w, NEW t, NEW go2,
         PopCase(s, gi, go, d, h, w, t, go2)
  PROVE /\ Match(t, After(gi, "endif", h), go2)
        /\ ~Misplaced(gi, "endif") /\ (w # Nothing => ~Misplaced(go, w))
  <1>. USE DEF PopCase
  <1>. DEFINE is == s[d].is
              p  == Pos(s, d - 1)
  <1>1. gi # << >> /\ p \in Nat
    BY TopFacts
  <1>2. /\ is \in Emits => Len(go) = p + 1 /\ go # << >>
        /\ is \notin Emits => Len(go) = p
    BY TopFacts
  <1>3. gi \in Groups /\ Len(gi) = (d - 2) + 1 /\ go \in Groups /\ d - 2 \in Nat
    BY DEF Match
  <1>4. Under(After(gi, "endif", h), gi, d - 2)
    BY <1>3, Inner
  <1>5. Under(go2, go, p)
    <2>1. CASE is \in Emits
      <3>1. Under(After(go, "endif", h), go, p)
        BY <1>1, <1>2, <1>3, <2>1, Inner
      <3>. QED BY <2>1, <3>1 DEF PopOf, Nothing
    <2>2. CASE is \notin Emits
      <3>1. Under(go, go, p)
        BY <1>1, <1>2, <1>3, <2>2, Outer, {} \in SUBSET Worlds
      <3>. QED BY <2>2, <3>1 DEF PopOf
    <2>. QED BY <2>1, <2>2
  <1>6. Match(t, After(gi, "endif", h), go2)
    <2>1. PopFits(s, gi, go, d, After(gi, "endif", h), go2)
      BY <1>4, <1>5 DEF Under, PopFits
    <2>. QED BY <2>1, MatchPop
  <1>7. ~Misplaced(gi, "endif") /\ (w # Nothing => ~Misplaced(go, w))
    BY <1>1, <1>2 DEF Misplaced, PopOf, Nothing
  <1>. QED BY <1>6, <1>7

-----------------------------------------------------------------------------
(* A line that is read.                                                    *)

\* What the directive and the comments of a line have to do with a move from is
\* to is2 that writes w.
Side(is, l, w, is2) ==
  /\ w # Nothing => is \notin Dropping \/ ~l.closes
  /\ w # Nothing => is2 \notin Dropping \/ ~l.opens
  /\ w = Nothing => ~Dodgy(l) \/ (is \in Dropping /\ is2 \in Dropping)

\* The four things a step does that ends the run not.
Keeps(is, l) ==
  /\ l.dir \in {"plain", "blank"} /\ stack' = stack
  /\ wrote' = IF is \in Dropping THEN Nothing ELSE l.dir

PutsBy(is, l, h) ==
  \E is2 \in Ifstates, y \in BOOLEAN :
    /\ PutOf(is, l.dir, h, wrote', is2) /\ Side(is, l, wrote', is2)
    /\ stack' = [stack EXCEPT ![Len(stack)] = Entry(is2, y)]

PushesBy(is, l, h) ==
  /\ l.dir = "if" /\ Len(stack) # MAXDEPTH
  /\ \E is2 \in Ifstates, y \in BOOLEAN :
       /\ PushOf(is, h, wrote', is2) /\ Side(is, l, wrote', is2)
       /\ stack' = Append(stack, Entry(is2, y))

PopsBy(is, l) ==
  /\ l.dir = "endif" /\ is # "OUTSIDE" /\ PopOf(is, wrote')
  /\ wrote' # Nothing => is \notin Dropping \/ ~l.closes
  /\ wrote' = Nothing => ~Dodgy(l)
  /\ stack' = SubSeq(stack, 1, Len(stack) - 1)

LEMMA PutDo ==
  ASSUME NEW is, NEW l, NEW h, NEW is2 \in Ifstates, Put(is2),
         PutOf(is, l.dir, h, wrote', is2), Side(is, l, wrote', is2)
  PROVE PutsBy(is, l, h)
  BY DEF Put, PutsBy

LEMMA PushDo ==
  ASSUME NEW is, NEW l, NEW h, NEW is2 \in Ifstates, Push(is2), l.dir = "if",
         PushOf(is, h, wrote', is2), Side(is, l, wrote', is2)
  PROVE PushesBy(is, l, h)
  BY DEF Push, PushesBy

LEMMA LineStep ==
  ASSUME NEW is \in Ifstates, NEW l \in LineSpace, NEW m, MoveOf(is, l, m), EffectOf(m, l.dir),
         NEW h, h = l.cond.holds, l.closes => l.dir # "elif"
  PROVE Keeps(is, l) \/ PutsBy(is, l, h) \/ PushesBy(is, l, h) \/ PopsBy(is, l)
  <1>1. /\ l.cond.cls = "TRUE" => h = Worlds
        /\ l.cond.cls = "FALSE" => h = {}
    BY CondsSound DEF LineSpace
  <1>2. m \notin Errors
    BY DEF EffectOf
  <1>3. {"TRUE_PREFIX", "FALSE_PREFIX", "TRUE_ELSE", "PASS_MIDDLE", "PASS_ELSE", "FALSE_TRAILER",
         "FALSE_MIDDLE", "FALSE_ELSE", "TRUE_MIDDLE"} \subseteq Ifstates
    BY DEF Ifstates
  <1>4. CASE l.dir \in {"plain", "blank"}
    BY <1>2, <1>4 DEF MoveOf, EffectOf, Keeps
  <1>5. CASE l.dir = "if"
    <2>1. \/ is \in Dropping /\ m \in {"Idrop", "Fdrop"}
          \/ is \notin Dropping /\ m \in {"Fpass", "Oif", "Oiffy"}
          \/ is \notin Dropping /\ ~Dodgy(l) /\ h = Worlds /\ m \in {"Ftrue", "Itrue"}
          \/ is \notin Dropping /\ ~Dodgy(l) /\ h = {} /\ m \in {"Ffalse", "Ifalse"}
      BY <1>1, <1>2, <1>5 DEF MoveOf
    <2>2. \E is2 \in Ifstates : Push(is2) /\ PushOf(is, h, wrote', is2) /\ Side(is, l, wrote', is2)
      <3>1. CASE is \in Dropping
        <4>1. Push("FALSE_TRAILER") /\ wrote' = Nothing
          BY <2>1, <3>1 DEF EffectOf
        <4>. QED BY <1>3, <3>1, <4>1 DEF PushOf, Side, Dropping
      <3>2. CASE is \notin Dropping /\ m \in {"Fpass", "Oif", "Oiffy"}
        <4>1. Push("PASS_MIDDLE") /\ wrote' = "if"
          BY <1>5, <3>2 DEF EffectOf
        <4>. QED BY <1>3, <3>2, <4>1 DEF PushOf, Side, Dropping, Nothing
      <3>3. CASE is \notin Dropping /\ ~Dodgy(l) /\ h = Worlds /\ m \in {"Ftrue", "Itrue"}
        <4>1. Push("TRUE_PREFIX") /\ wrote' = Nothing
          BY <3>3 DEF EffectOf
        <4>. QED BY <1>3, <3>3, <4>1 DEF PushOf, Side
      <3>4. CASE is \notin Dropping /\ ~Dodgy(l) /\ h = {} /\ m \in {"Ffalse", "Ifalse"}
        <4>1. Push("FALSE_PREFIX") /\ wrote' = Nothing
          BY <3>4 DEF EffectOf
        <4>. QED BY <1>3, <3>4, <4>1 DEF PushOf, Side
      <3>. QED BY <2>1, <3>1, <3>2, <3>3, <3>4
    <2>. QED BY <1>5, <2>2, PushDo
  <1>6. CASE l.dir = "elif"
    <2>1. \/ is = "FALSE_PREFIX" /\ m = "Mpass"
          \/ is = "FALSE_PREFIX" /\ ~Dodgy(l) /\ h = Worlds /\ m = "Strue"
          \/ is = "FALSE_PREFIX" /\ ~Dodgy(l) /\ h = {} /\ m = "Sfalse"
          \/ is \in Middles /\ (is = "PASS_MIDDLE" \/ ~Dodgy(l)) /\ m \in {"Pelif", "Oelif"}
          \/ is \in Middles /\ ~Dodgy(l) /\ h = Worlds /\ m = "Mtrue"
          \/ is \in Middles /\ ~Dodgy(l) /\ h = {} /\ m = "Delif"
          \/ is = "TRUE_PREFIX" /\ ~Dodgy(l) /\ m = "Dfalse"
          \/ is = "FALSE_TRAILER" /\ m = "Dfalse"
          \/ is = "TRUE_MIDDLE" /\ ~Dodgy(l) /\ m = "Melif"
      BY <1>1, <1>2, <1>6 DEF MoveOf
    <2>2. PutsBy(is, l, h)
      <3>1. CASE is = "FALSE_PREFIX" /\ m = "Mpass"
        <4>1. Put("PASS_MIDDLE") /\ wrote' = "if"
          BY <3>1 DEF EffectOf
        <4>2. PutOf(is, l.dir, h, wrote', "PASS_MIDDLE") /\ Side(is, l, wrote', "PASS_MIDDLE")
          BY <1>6, <3>1, <4>1 DEF PutOf, Side, Dropping, Dodgy, Nothing
        <4>. QED BY <1>3, <4>1, <4>2, PutDo
      <3>2. CASE is = "FALSE_PREFIX" /\ ~Dodgy(l) /\ h = Worlds /\ m = "Strue"
        <4>1. Put("TRUE_PREFIX") /\ wrote' = Nothing
          BY <3>2 DEF EffectOf
        <4>2. PutOf(is, l.dir, h, wrote', "TRUE_PREFIX") /\ Side(is, l, wrote', "TRUE_PREFIX")
          BY <1>6, <3>2, <4>1 DEF PutOf, Side, Dropping, Dodgy, Nothing
        <4>. QED BY <1>3, <4>1, <4>2, PutDo
      <3>3. CASE is = "FALSE_PREFIX" /\ ~Dodgy(l) /\ h = {} /\ m = "Sfalse"
        <4>1. Put("FALSE_PREFIX") /\ wrote' = Nothing
          BY <3>3 DEF EffectOf
        <4>2. PutOf(is, l.dir, h, wrote', "FALSE_PREFIX") /\ Side(is, l, wrote', "FALSE_PREFIX")
          BY <1>6, <3>3, <4>1 DEF PutOf, Side, Dropping, Dodgy, Nothing
        <4>. QED BY <1>3, <4>1, <4>2, PutDo
      <3>4. CASE is \in Middles /\ (is = "PASS_MIDDLE" \/ ~Dodgy(l)) /\ m \in {"Pelif", "Oelif"}
        <4>1. Put("PASS_MIDDLE") /\ wrote' = "elif"
          BY <1>6, <3>4 DEF EffectOf
        <4>2. PutOf(is, l.dir, h, wrote', "PASS_MIDDLE") /\ Side(is, l, wrote', "PASS_MIDDLE")
          BY <1>6, <3>4, <4>1 DEF PutOf, Side, Dropping, Dodgy, Nothing
        <4>. QED BY <1>3, <4>1, <4>2, PutDo
      <3>5. CASE is \in Middles /\ ~Dodgy(l) /\ h = Worlds /\ m = "Mtrue"
        <4>1. Put("TRUE_MIDDLE") /\ wrote' = "else"
          BY <3>5 DEF EffectOf
        <4>2. PutOf(is, l.dir, h, wrote', "TRUE_MIDDLE") /\ Side(is, l, wrote', "TRUE_MIDDLE")
          BY <1>6, <3>5, <4>1 DEF PutOf, Side, Dropping, Dodgy, Nothing
        <4>. QED BY <1>3, <4>1, <4>2, PutDo
      <3>6. CASE is \in Middles /\ ~Dodgy(l) /\ h = {} /\ m = "Delif"
        <4>1. Put("FALSE_MIDDLE") /\ wrote' = Nothing
          BY <3>6 DEF EffectOf
        <4>2. PutOf(is, l.dir, h, wrote', "FALSE_MIDDLE") /\ Side(is, l, wrote', "FALSE_MIDDLE")
          BY <1>6, <3>6, <4>1 DEF PutOf, Side, Dropping, Dodgy, Nothing
        <4>. QED BY <1>3, <4>1, <4>2, PutDo
      <3>7. CASE m = "Dfalse" /\ (is = "FALSE_TRAILER" \/ (is = "TRUE_PREFIX" /\ ~Dodgy(l)))
        <4>1. Put("FALSE_TRAILER") /\ wrote' = Nothing
          BY <3>7 DEF EffectOf
        <4>2. PutOf(is, l.dir, h, wrote', "FALSE_TRAILER") /\ Side(is, l, wrote', "FALSE_TRAILER")
          BY <1>6, <3>7, <4>1 DEF PutOf, Side, Dropping, Dodgy, Nothing
        <4>. QED BY <1>3, <4>1, <4>2, PutDo
      <3>8. CASE is = "TRUE_MIDDLE" /\ ~Dodgy(l) /\ m = "Melif"
        <4>1. Put("FALSE_TRAILER") /\ wrote' = "endif"
          BY <3>8 DEF EffectOf
        <4>2. PutOf(is, l.dir, h, wrote', "FALSE_TRAILER") /\ Side(is, l, wrote', "FALSE_TRAILER")
          BY <1>6, <3>8, <4>1 DEF PutOf, Side, Dropping, Dodgy, Nothing
        <4>. QED BY <1>3, <4>1, <4>2, PutDo
      <3>. QED BY <2>1, <3>1, <3>2, <3>3, <3>4, <3>5, <3>6, <3>7, <3>8
    <2>. QED BY <2>2
  <1>7. CASE l.dir = "else"
    <2>1. \/ is = "FALSE_PREFIX" /\ ~Dodgy(l) /\ m = "Selse"
          \/ is \in Middles /\ (is = "PASS_MIDDLE" \/ ~Dodgy(l)) /\ m = "Pelse"
          \/ is = "TRUE_PREFIX" /\ ~Dodgy(l) /\ m = "Delse"
          \/ is = "FALSE_TRAILER" /\ m = "Delse"
          \/ is = "TRUE_MIDDLE" /\ ~Dodgy(l) /\ m = "Melse"
      BY <1>2, <1>7 DEF MoveOf
    <2>2. PutsBy(is, l, h)
      <3>1. CASE is = "FALSE_PREFIX" /\ ~Dodgy(l) /\ m = "Selse"
        <4>1. Put("TRUE_ELSE") /\ wrote' = Nothing
          BY <3>1 DEF EffectOf
        <4>2. PutOf(is, l.dir, h, wrote', "TRUE_ELSE") /\ Side(is, l, wrote', "TRUE_ELSE")
          BY <1>7, <3>1, <4>1 DEF PutOf, Side, Dropping, Dodgy, Nothing
        <4>. QED BY <1>3, <4>1, <4>2, PutDo
      <3>2. CASE is \in Middles /\ (is = "PASS_MIDDLE" \/ ~Dodgy(l)) /\ m = "Pelse"
        <4>1. Put("PASS_ELSE") /\ wrote' = "else"
          BY <1>7, <3>2 DEF EffectOf
        <4>2. PutOf(is, l.dir, h, wrote', "PASS_ELSE") /\ Side(is, l, wrote', "PASS_ELSE")
          BY <1>7, <3>2, <4>1 DEF PutOf, Side, Dropping, Dodgy, Nothing
        <4>. QED BY <1>3, <4>1, <4>2, PutDo
      <3>3. CASE m = "Delse" /\ (is = "FALSE_TRAILER" \/ (is = "TRUE_PREFIX" /\ ~Dodgy(l)))
        <4>1. Put("FALSE_ELSE") /\ wrote' = Nothing
          BY <3>3 DEF EffectOf
        <4>2. PutOf(is, l.dir, h, wrote', "FALSE_ELSE") /\ Side(is, l, wrote', "FALSE_ELSE")
          BY <1>7, <3>3, <4>1 DEF PutOf, Side, Dropping, Dodgy, Nothing
        <4>. QED BY <1>3, <4>1, <4>2, PutDo
      <3>4. CASE is = "TRUE_MIDDLE" /\ ~Dodgy(l) /\ m = "Melse"
        <4>1. Put("FALSE_ELSE") /\ wrote' = "endif"
          BY <3>4 DEF EffectOf
        <4>2. PutOf(is, l.dir, h, wrote', "FALSE_ELSE") /\ Side(is, l, wrote', "FALSE_ELSE")
          BY <1>7, <3>4, <4>1 DEF PutOf, Side, Dropping, Dodgy, Nothing
        <4>. QED BY <1>3, <4>1, <4>2, PutDo
      <3>. QED BY <2>1, <3>1, <3>2, <3>3, <3>4, Zenon
    <2>. QED BY <2>2
  <1>8. CASE l.dir = "endif"
    <2>1. \/ is \in Emits /\ (is \notin Dropping \/ ~Dodgy(l)) /\ m = "Pendif"
          \/ is \notin Emits \cup {"OUTSIDE"} /\ ~Dodgy(l) /\ m = "Dendif"
      BY <1>2, <1>8 DEF MoveOf
    <2>2. CASE is \in Emits /\ (is \notin Dropping \/ ~Dodgy(l)) /\ m = "Pendif"
      <3>1. wrote' = "endif" /\ stack' = SubSeq(stack, 1, Len(stack) - 1)
        BY <1>8, <2>2 DEF EffectOf
      <3>. QED BY <1>8, <2>2, <3>1 DEF PopsBy, PopOf, Emits, Dodgy, Nothing
    <2>3. CASE is \notin Emits \cup {"OUTSIDE"} /\ ~Dodgy(l) /\ m = "Dendif"
      <3>1. wrote' = Nothing /\ stack' = SubSeq(stack, 1, Len(stack) - 1)
        BY <2>3 DEF EffectOf
      <3>. QED BY <1>8, <2>3, <3>1 DEF PopsBy, PopOf
    <2>. QED BY <2>1, <2>2, <2>3
  <1>. QED BY <1>4, <1>5, <1>6, <1>7, <1>8 DEF LineSpace, Directives

\* The top of the stack and the state of the line automaton.
LEMMA TopIs ==
  ASSUME Shape
  PROVE /\ Len(stack) \in Nat /\ Len(stack) >= 1 /\ Len(stack) <= MAXDEPTH /\ MAXDEPTH \in Nat
        /\ Top.is \in Ifstates /\ Top.is = stack[Len(stack)].is /\ ignoring \in BOOLEAN
        /\ Top.is = "OUTSIDE" <=> Len(stack) = 1
  <1>1. Len(stack) \in Nat /\ Len(stack) >= 1 /\ Len(stack) <= MAXDEPTH /\ MAXDEPTH \in Nat
    BY OptionsTyped DEF Shape, StackOK
  <1>2. stack[Len(stack)] \in Level0
    BY <1>1, LevelIn DEF Shape, StackOK
  <1>3. Len(stack) \in 1..Len(stack)
    BY <1>1
  <1>4. stack[Len(stack)].is = "OUTSIDE" <=> Len(stack) = 1
    BY <1>3 DEF Shape, StackOK
  <1>5. Top.is \in Ifstates /\ Top.is = stack[Len(stack)].is /\ ignoring \in BOOLEAN
    BY <1>2 DEF Top, ignoring, Level0
  <1>. QED BY <1>1, <1>4, <1>5

\* A line that is read ends the run with an error, or does one of four things.
LEMMA Reading ==
  ASSUME Shape, NEW l \in LineSpace, Process(l), "elif" \notin Leads \/ ~l.closes
  PROVE \/ Error
        \/ /\ status' = status
           /\ \/ Keeps(Top.is, l)
              \/ PutsBy(Top.is, l, l.cond.holds) /\ Len(stack) >= 2
              \/ PushesBy(Top.is, l, l.cond.holds)
              \/ PopsBy(Top.is, l) /\ Len(stack) >= 2
  <1>. DEFINE is == Top.is
              m  == Move(is, Linetype(l), Dodgy(l))
  <1>1. /\ Len(stack) >= 1 /\ stack \in Stacks
        /\ is \in Ifstates /\ (is = "OUTSIDE" <=> Len(stack) = 1) /\ Len(stack) \in Nat
    BY TopIs DEF Shape, StackOK
  <1>2. MoveOf(is, l, m)
    BY <1>1, MoveIs
  <1>3. Len(stack) = 1 => m \in Errors \cup {"print", "drop", "Fdrop", "Idrop", "Fpass", "Oif", "Oiffy",
                                              "Ftrue", "Itrue", "Ffalse", "Ifalse"}
    BY <1>1, <1>2 DEF MoveOf, Emits, Middles
  <1>4. Error \/ EffectOf(m, l.dir)
    <2>1. Transition(m, l.dir)
      BY DEF Process
    <2>. HIDE DEF m
    <2>2. Len(stack) >= 2 \/ m \in Errors \cup {"print", "drop", "Fdrop", "Idrop", "Fpass", "Oif", "Oiffy",
                                                "Ftrue", "Itrue", "Ffalse", "Ifalse"}
      <3>1. CASE Len(stack) = 1
        BY <1>3, <3>1, Zenon
      <3>2. CASE Len(stack) # 1
        <4>0. Len(stack) \in Nat /\ Len(stack) >= 1
          BY <1>1
        <4>1. \A n \in Nat : n >= 1 /\ n # 1 => n >= 2
          OBVIOUS
        <4>2. Len(stack) >= 2
          BY <3>2, <4>0, <4>1, Zenon
        <4>. QED BY <4>2, Zenon
      <3>. QED BY <3>1, <3>2
    <2>. QED BY <1>1, <2>1, <2>2, Effect
  <1>5. l.closes => l.dir # "elif"
    BY DEF Process, Readable, LineSpace, Directives
  <1>. HIDE DEF m
  <1>6. CASE EffectOf(m, l.dir)
    <2>1. Keeps(is, l) \/ PutsBy(is, l, l.cond.holds) \/ PushesBy(is, l, l.cond.holds) \/ PopsBy(is, l)
      BY <1>1, <1>2, <1>5, <1>6, LineStep
    <2>2. PutsBy(is, l, l.cond.holds) => is # "OUTSIDE"
      BY DEF PutsBy, PutOf, Middles
    <2>3. PopsBy(is, l) => is # "OUTSIDE"
      BY DEF PopsBy
    <2>4. is # "OUTSIDE" => Len(stack) >= 2
      <3>1. is # "OUTSIDE" => Len(stack) # 1
        BY <1>1, Zenon
      <3>2. \A n \in Nat : n >= 1 /\ n # 1 => n >= 2
        OBVIOUS
      <3>. QED BY <1>1, <3>1, <3>2, Zenon
    <2>5. status' = status
      BY <1>6 DEF EffectOf
    <2>. QED BY <2>1, <2>2, <2>3, <2>4, <2>5
  <1>. QED BY <1>4, <1>6

-----------------------------------------------------------------------------
(* The shape of the state is kept.                                         *)

LEMMA StackKept ==
  ASSUME NEW s, StackOK(s), NEW d \in Nat, d = Len(s),
         NEW is2 \in Ifstates, is2 # "OUTSIDE", NEW y \in BOOLEAN
  PROVE /\ d >= 2 => StackOK([s EXCEPT ![d] = Entry(is2, y)])
        /\ d # MAXDEPTH => StackOK(Append(s, Entry(is2, y)))
        /\ d >= 2 => StackOK(SubSeq(s, 1, d - 1))
  <1>. DEFINE e == Entry(is2, y)
  <1>1. e \in Level0 /\ e.is = is2
    BY DEF Entry, Level0
  <1>. HIDE DEF e
  <1>2. s \in Stacks /\ Len(s) >= 1 /\ d >= 1 /\ d <= MAXDEPTH /\ MAXDEPTH \in Nat
    BY OptionsTyped DEF StackOK
  <1>3. \A k \in 1..d : s[k].is = "OUTSIDE" <=> k = 1
    BY DEF StackOK
  <1>4. ASSUME d >= 2
        PROVE StackOK([s EXCEPT ![d] = e])
    <2>1. /\ [s EXCEPT ![d] = e] \in Stacks /\ Len([s EXCEPT ![d] = e]) = d
          /\ \A j \in 1..(d - 1) : [s EXCEPT ![d] = e][j] = s[j]
          /\ [s EXCEPT ![d] = e][d] = e
      <3>1. /\ [s EXCEPT ![Len(s)] = e] \in Stacks /\ Len([s EXCEPT ![Len(s)] = e]) = Len(s)
            /\ \A j \in 1..(Len(s) - 1) : [s EXCEPT ![Len(s)] = e][j] = s[j]
            /\ [s EXCEPT ![Len(s)] = e][Len(s)] = e
        BY <1>1, <1>2, StackOps, Zenon
      <3>. QED BY <3>1, Zenon
    <2>. DEFINE t == [s EXCEPT ![d] = e]
    <2>2. t \in Stacks /\ Len(t) = d /\ t[d] = e /\ \A j \in 1..(d - 1) : t[j] = s[j]
      BY <2>1
    <2>. HIDE DEF t
    <2>3. \A k \in 1..d : t[k].is = "OUTSIDE" <=> k = 1
      BY <1>1, <1>3, <1>4, <2>2
    <2>4. StackOK(t)
      BY <1>2, <2>2, <2>3 DEF StackOK
    <2>. QED BY <2>4 DEF t
  <1>5. ASSUME d # MAXDEPTH
        PROVE StackOK(Append(s, e))
    <2>1. /\ Append(s, e) \in Stacks /\ Len(Append(s, e)) = d + 1
          /\ \A j \in 1..d : Append(s, e)[j] = s[j]
          /\ Append(s, e)[d + 1] = e
      BY <1>1, <1>2, StackOps
    <2>. DEFINE t == Append(s, e)
    <2>2. t \in Stacks /\ Len(t) = d + 1 /\ t[d + 1] = e /\ \A j \in 1..d : t[j] = s[j]
      BY <2>1
    <2>. HIDE DEF t
    <2>3. \A k \in 1..(d + 1) : t[k].is = "OUTSIDE" <=> k = 1
      BY <1>1, <1>2, <1>3, <2>2
    <2>4. d + 1 \in 1..MAXDEPTH
      BY <1>2, <1>5
    <2>5. StackOK(t)
      BY <2>2, <2>3, <2>4 DEF StackOK
    <2>. QED BY <2>5 DEF t
  <1>6. ASSUME d >= 2
        PROVE StackOK(SubSeq(s, 1, d - 1))
    <2>1. /\ SubSeq(s, 1, d - 1) \in Stacks /\ Len(SubSeq(s, 1, d - 1)) = d - 1
          /\ \A j \in 1..(d - 1) : SubSeq(s, 1, d - 1)[j] = s[j]
      BY <1>1, <1>2, StackOps
    <2>. DEFINE t == SubSeq(s, 1, d - 1)
    <2>2. t \in Stacks /\ Len(t) = d - 1 /\ \A j \in 1..(d - 1) : t[j] = s[j]
      BY <2>1
    <2>. HIDE DEF t
    <2>3. \A k \in 1..(d - 1) : t[k].is = "OUTSIDE" <=> k = 1
      BY <1>3, <2>2
    <2>4. d - 1 \in 1..MAXDEPTH
      BY <1>2, <1>6
    <2>5. StackOK(t)
      BY <2>2, <2>3, <2>4 DEF StackOK
    <2>. QED BY <2>5 DEF t
  <1>. QED BY <1>4, <1>5, <1>6 DEF e

LEMMA ShapeKept ==
  ASSUME Shape, NEW l \in LineSpace, CppProcess(l), "elif" \notin Leads \/ ~l.closes
  PROVE Shape'
  <1>. DEFINE d == Len(stack)
  <1>1. d \in Nat /\ StackOK(stack) /\ ignoring \in BOOLEAN /\ status = "run"
    BY TopIs DEF Shape, CppProcess, Process
  <1>2. incomment' \in BOOLEAN /\ dirty' \in BOOLEAN
    BY <1>1 DEF CppProcess, Process, DirtyAfter, LineSpace, Shape
  <1>3. \/ Error
        \/ /\ status' = status
           /\ \/ Keeps(Top.is, l)
              \/ PutsBy(Top.is, l, l.cond.holds) /\ d >= 2
              \/ PushesBy(Top.is, l, l.cond.holds)
              \/ PopsBy(Top.is, l) /\ d >= 2
    BY Reading DEF CppProcess
  <1>4. wrote' \in Directives \cup {"plain", "blank", Nothing}
    BY <1>3 DEF Error, Keeps, PutsBy, PutOf, PushesBy, PushOf, PopsBy, PopOf, Directives
  <1>5. status' \in {"run", "done", "error"}
    BY <1>1, <1>3 DEF Error
  <1>6. in' \in Readers
    <2>1. l.dir \in Directives \cup {"plain", "blank"}
      BY DEF LineSpace
    <2>. QED BY <2>1, ReadsType DEF CppProcess, Shape
  <1>7. out' \in Readers
    <2>1. CASE wrote' = Nothing
      BY <2>1 DEF CppProcess, Shape
    <2>2. CASE wrote' # Nothing
      <3>1. wrote' \in Directives \cup {"plain", "blank"}
        BY <1>4, <2>2
      <3>. QED BY <2>2, <3>1, ReadsType DEF CppProcess, Shape
    <2>. QED BY <2>1, <2>2
  <1>8. StackOK(stack')
    <2>1. CASE Error \/ Keeps(Top.is, l)
      BY <1>1, <2>1 DEF Error, Keeps
    <2>2. CASE PutsBy(Top.is, l, l.cond.holds) /\ d >= 2
      <3>1. PICK is2 \in Ifstates, y \in BOOLEAN :
              /\ PutOf(Top.is, l.dir, l.cond.holds, wrote', is2)
              /\ stack' = [stack EXCEPT ![d] = Entry(is2, y)]
        BY <2>2 DEF PutsBy
      <3>2. is2 # "OUTSIDE"
        BY <3>1 DEF PutOf
      <3>. QED BY <1>1, <2>2, <3>1, <3>2, StackKept
    <2>3. CASE PushesBy(Top.is, l, l.cond.holds)
      <3>1. PICK is2 \in Ifstates, y \in BOOLEAN :
              /\ PushOf(Top.is, l.cond.holds, wrote', is2)
              /\ stack' = Append(stack, Entry(is2, y))
        BY <2>3 DEF PushesBy
      <3>2. is2 # "OUTSIDE" /\ d # MAXDEPTH
        BY <2>3, <3>1 DEF PushOf, PushesBy
      <3>. QED BY <1>1, <3>1, <3>2, StackKept
    <2>4. CASE PopsBy(Top.is, l) /\ d >= 2
      <3>1. stack' = SubSeq(stack, 1, d - 1)
        BY <2>4 DEF PopsBy
      <3>2. "PASS_MIDDLE" \in Ifstates /\ "PASS_MIDDLE" # "OUTSIDE" /\ TRUE \in BOOLEAN
        BY DEF Ifstates
      <3>. QED BY <1>1, <2>4, <3>1, <3>2, StackKept
    <2>. QED BY <1>3, <2>1, <2>2, <2>3, <2>4
  <1>. QED BY <1>2, <1>4, <1>5, <1>6, <1>7, <1>8 DEF Shape

-----------------------------------------------------------------------------
(* The readers and the stack go on matching.                               *)

\* A line that is not inside a comment is read for its directive.
LEMMA ReadsDir ==
  ASSUME NEW r, NEW l, NEW dir, ~(r.comment /\ ~l.closes), ~(l.closes /\ ~r.comment),
         ~Misplaced(r.groups, dir)
  PROVE /\ Reads(r, l, dir).groups = After(r.groups, dir, l.whole.holds)
        /\ Reads(r, l, dir).comment = l.opens
        /\ Reads(r, l, dir).broken = r.broken
  BY DEF Reads

\* The comments and the groups of the readers after a line, when the text of
\* the input and of the output is not inside a comment or the line ends it.
ReaderCase(l, is2, h) ==
  /\ Agreement /\ l \in LineSpace
  /\ incomment \in BOOLEAN /\ in.comment \in BOOLEAN /\ out.comment \in BOOLEAN
  /\ ~(incomment /\ ~l.closes) /\ (l.closes => incomment)
  /\ Side(Top.is, l, wrote', is2)
  /\ in' = Reads(in, l, l.dir) /\ out' = (IF wrote' = Nothing THEN out ELSE Reads(out, l, wrote'))
  /\ ~Misplaced(in.groups, l.dir) /\ (wrote' # Nothing => ~Misplaced(out.groups, wrote'))
  /\ h = l.whole.holds

LEMMA ReadersStep ==
  ASSUME NEW l, NEW is2, NEW h, ReaderCase(l, is2, h)
  PROVE /\ ~in'.broken /\ ~out'.broken
        /\ in'.comment = l.opens
        /\ out'.comment = (l.opens /\ is2 \notin Dropping)
        /\ in'.groups = After(in.groups, l.dir, h)
        /\ out'.groups = IF wrote' = Nothing THEN out.groups ELSE After(out.groups, wrote', h)
  <1>. USE DEF ReaderCase
  <1>1. /\ ~in.broken /\ ~out.broken /\ in.comment = incomment
        /\ out.comment = (incomment /\ Top.is \notin Dropping)
    BY DEF Agreement
  <1>2. l.closes \in BOOLEAN /\ l.opens \in BOOLEAN
    BY DEF LineSpace
  <1>3. ~in'.broken /\ in'.comment = l.opens /\ in'.groups = After(in.groups, l.dir, h)
    <2>1. ~(in.comment /\ ~l.closes) /\ ~(l.closes /\ ~in.comment)
      BY <1>1
    <2>. QED BY <1>1, <2>1, ReadsDir
  <1>4. CASE wrote' = Nothing
    <2>1. out' = out
      BY <1>4
    <2>2. ~out.comment
      BY <1>1, <1>2, <1>4 DEF Side, Dodgy
    <2>3. ~(l.opens /\ is2 \notin Dropping)
      BY <1>2, <1>4 DEF Side, Dodgy
    <2>. QED BY <1>1, <1>3, <1>4, <2>1, <2>2, <2>3
  <1>5. CASE wrote' # Nothing
    <2>1. ~(out.comment /\ ~l.closes) /\ ~(l.closes /\ ~out.comment)
      BY <1>1, <1>2, <1>5 DEF Side
    <2>2. ~out'.broken /\ out'.comment = l.opens /\ out'.groups = After(out.groups, wrote', h)
      BY <1>1, <1>5, <2>1, ReadsDir
    <2>3. l.opens = (l.opens /\ is2 \notin Dropping)
      BY <1>2, <1>5 DEF Side
    <2>. QED BY <1>3, <1>5, <2>2, <2>3
  <1>. QED BY <1>4, <1>5

LEMMA AgreementKept ==
  ASSUME Shape, Agreement, NEW l \in LineSpace, CppProcess(l), "elif" \notin Leads, SplitConds = FALSE,
         ~Stuck, ~Error
  PROVE Agreement'
  <1>. DEFINE d  == Len(stack)
              is == Top.is
              h  == l.whole.holds
  <1>1. /\ d \in Nat /\ d >= 1 /\ is \in Ifstates /\ is = stack[d].is /\ ignoring \in BOOLEAN
        /\ incomment \in BOOLEAN /\ in.comment \in BOOLEAN /\ out.comment \in BOOLEAN
    BY TopIs DEF Shape, Readers
  <1>2. /\ l.closes \in BOOLEAN /\ l.opens \in BOOLEAN
        /\ l.closes => incomment
        /\ h = l.cond.holds /\ h \in SUBSET Worlds
    BY CondsSound DEF CppProcess, Process, Readable, LineSpace, CondSpace
  <1>3. /\ incomment /\ ~l.closes => l.dir = "blank" /\ ~l.opens
        /\ ignoring => ~l.closes /\ ~l.opens
    BY DEF CppProcess, Process, Readable
  <1>4. incomment' = IF ignoring THEN incomment ELSE l.opens \/ (incomment /\ ~l.closes)
    BY DEF CppProcess, Process
  <1>5. in' = Reads(in, l, l.dir) /\ out' = (IF wrote' = Nothing THEN out ELSE Reads(out, l, wrote'))
    BY DEF CppProcess
  <1>6. \/ Keeps(is, l)
        \/ PutsBy(is, l, h) /\ d >= 2
        \/ PushesBy(is, l, h)
        \/ PopsBy(is, l) /\ d >= 2
    <2>1. Process(l)
      BY DEF CppProcess
    <2>. QED BY <1>2, <2>1, Reading
  <1>7. /\ Match(stack, in.groups, out.groups) /\ ~in.broken /\ ~out.broken
        /\ in.comment = incomment /\ out.comment = (incomment /\ is \notin Dropping)
    BY DEF Agreement
  <1>8. CASE incomment /\ ~l.closes
    <2>1. l.dir = "blank" /\ incomment'
      BY <1>3, <1>4, <1>8
    <2>2. stack' = stack /\ (wrote' = Nothing \/ is \notin Dropping)
      BY <1>6, <2>1 DEF Keeps, PutsBy, PutOf, PushesBy, PopsBy
    <2>3. in' = in /\ out' = out
      BY <1>5, <1>7, <1>8, <2>2 DEF Reads
    <2>. QED BY <1>7, <1>8, <2>1, <2>2, <2>3 DEF Agreement, Top
  <1>9. CASE ~(incomment /\ ~l.closes)
    <2>1. incomment' = l.opens
      <3>1. CASE ignoring
        <4>1. l.opens = FALSE /\ incomment = FALSE
          BY <1>1, <1>2, <1>3, <1>9, <3>1
        <4>2. incomment' = incomment
          BY <1>4, <3>1
        <4>. QED BY <4>1, <4>2
      <3>2. CASE ~ignoring
        <4>1. incomment' = (l.opens \/ (incomment /\ ~l.closes))
          BY <1>4, <3>2
        <4>2. CASE l.opens = TRUE
          BY <4>1, <4>2, Zenon
        <4>3. CASE l.opens = FALSE
          BY <1>9, <4>1, <4>3, Zenon
        <4>. QED BY <1>2, <4>2, <4>3
      <3>. QED BY <3>1, <3>2
    <2>2. ASSUME NEW is2, Side(is, l, wrote', is2), Top'.is = is2,
                 ~Misplaced(in.groups, l.dir), wrote' # Nothing => ~Misplaced(out.groups, wrote'),
                 Match(stack', After(in.groups, l.dir, h),
                       IF wrote' = Nothing THEN out.groups ELSE After(out.groups, wrote', h))
          PROVE Agreement'
      <3>1. /\ ~in'.broken /\ ~out'.broken
            /\ in'.comment = l.opens
            /\ out'.comment = (l.opens /\ is2 \notin Dropping)
            /\ in'.groups = After(in.groups, l.dir, h)
            /\ out'.groups = IF wrote' = Nothing THEN out.groups ELSE After(out.groups, wrote', h)
        <4>1. ReaderCase(l, is2, h)
          <5>1. Agreement /\ l \in LineSpace /\ Side(Top.is, l, wrote', is2)
            BY <2>2
          <5>2. ~Misplaced(in.groups, l.dir) /\ (wrote' # Nothing => ~Misplaced(out.groups, wrote'))
            BY <2>2
          <5>. QED BY <1>1, <1>2, <1>5, <1>9, <5>1, <5>2, Zenon DEF ReaderCase
        <4>. QED BY <4>1, ReadersStep, Zenon
      <3>2. Match(stack', in'.groups, out'.groups)
        BY <2>2, <3>1
      <3>. QED BY <2>1, <2>2, <3>1, <3>2 DEF Agreement
    <2>3. CASE Keeps(is, l)
      <3>1. ~Misplaced(in.groups, l.dir) /\ (wrote' # Nothing => ~Misplaced(out.groups, wrote'))
        BY <2>3 DEF Keeps, Misplaced
      <3>2. \A g : After(g, l.dir, h) = g /\ (wrote' # Nothing => After(g, wrote', h) = g)
        BY <2>3 DEF Keeps, After
      <3>3. Side(is, l, wrote', is)
        BY <2>3 DEF Keeps, Side, Nothing
      <3>. QED BY <1>7, <2>2, <2>3, <3>1, <3>2, <3>3 DEF Keeps, Top
    <2>4. CASE PutsBy(is, l, h) /\ d >= 2
      <3>1. PICK is2 \in Ifstates, y \in BOOLEAN :
              /\ PutOf(is, l.dir, h, wrote', is2) /\ Side(is, l, wrote', is2)
              /\ stack' = [stack EXCEPT ![d] = Entry(is2, y)]
        BY <2>4 DEF PutsBy
      <3>2. PutOf(stack[d].is, l.dir, h, wrote', is2)
        BY <1>1, <3>1
      <3>3. \A go2 : go2 = (IF wrote' = Nothing THEN out.groups ELSE After(out.groups, wrote', h)) =>
              /\ Match(stack', After(in.groups, l.dir, h), go2)
              /\ ~Misplaced(in.groups, l.dir) /\ (wrote' # Nothing => ~Misplaced(out.groups, wrote'))
        <4>1. ASSUME NEW go2, go2 = (IF wrote' = Nothing THEN out.groups ELSE After(out.groups, wrote', h))
              PROVE PutCase(stack, in.groups, out.groups, d, h, y, l.dir, wrote', is2, stack', go2)
          BY <1>1, <1>2, <1>7, <2>4, <3>1, <3>2, <4>1 DEF PutCase
        <4>. QED BY <4>1, Puts, Zenon
      <3>4. Top'.is = is2
        <4>1. Entry(is2, y) \in Level0 /\ Entry(is2, y).is = is2 /\ stack \in Stacks
          BY DEF Entry, Level0, Shape, StackOK
        <4>2. Len(stack') = d /\ stack'[d] = Entry(is2, y)
          BY <1>1, <3>1, <4>1, StackOps
        <4>. QED BY <4>1, <4>2 DEF Top
      <3>. QED BY <2>2, <3>1, <3>3, <3>4
    <2>5. CASE PushesBy(is, l, h)
      <3>1. PICK is2 \in Ifstates, y \in BOOLEAN :
              /\ PushOf(is, h, wrote', is2) /\ Side(is, l, wrote', is2)
              /\ stack' = Append(stack, Entry(is2, y))
        BY <2>5 DEF PushesBy
      <3>2. PushOf(stack[d].is, h, wrote', is2) /\ l.dir = "if" /\ (wrote' # Nothing => wrote' = "if")
        BY <1>1, <2>5, <3>1 DEF PushesBy, PushOf
      <3>3. \A go2 : go2 = (IF wrote' = Nothing THEN out.groups ELSE After(out.groups, wrote', h)) =>
              Match(stack', After(in.groups, "if", h), go2)
        BY <1>1, <1>2, <1>7, <3>1, <3>2, Pushes
      <3>4. Top'.is = is2
        <4>1. Entry(is2, y) \in Level0 /\ Entry(is2, y).is = is2 /\ stack \in Stacks
          BY DEF Entry, Level0, Shape, StackOK
        <4>2. Len(stack') = d + 1 /\ stack'[d + 1] = Entry(is2, y)
          BY <1>1, <3>1, <4>1, StackOps
        <4>. QED BY <4>1, <4>2 DEF Top
      <3>5. ~Misplaced(in.groups, l.dir) /\ (wrote' # Nothing => ~Misplaced(out.groups, wrote'))
        BY <3>2 DEF Misplaced
      <3>. QED BY <2>2, <3>1, <3>2, <3>3, <3>4, <3>5
    <2>6. CASE PopsBy(is, l) /\ d >= 2
      <3>1. /\ l.dir = "endif" /\ PopOf(stack[d].is, wrote') /\ stack' = SubSeq(stack, 1, d - 1)
            /\ wrote' # Nothing => is \notin Dropping \/ ~l.closes
            /\ wrote' = Nothing => ~Dodgy(l)
        BY <1>1, <2>6 DEF PopsBy
      <3>2. \A go2 : go2 = (IF wrote' = Nothing THEN out.groups ELSE After(out.groups, wrote', h)) =>
              /\ Match(stack', After(in.groups, "endif", h), go2)
              /\ ~Misplaced(in.groups, "endif") /\ (wrote' # Nothing => ~Misplaced(out.groups, wrote'))
        <4>1. ASSUME NEW go2, go2 = (IF wrote' = Nothing THEN out.groups ELSE After(out.groups, wrote', h))
              PROVE PopCase(stack, in.groups, out.groups, d, h, wrote', stack', go2)
          BY <1>1, <1>2, <1>7, <2>6, <3>1, <4>1 DEF PopCase
        <4>. QED BY <4>1, Pops, Zenon
      <3>3. Top'.is = stack[d - 1].is
        <4>1. Entry("OUTSIDE", FALSE) \in Level0 /\ stack \in Stacks
          BY DEF Entry, Level0, Shape, StackOK, Ifstates
        <4>2. Len(stack') = d - 1 /\ \A j \in 1..(d - 1) : stack'[j] = stack[j]
          <5>1. LET t == SubSeq(stack, 1, Len(stack) - 1)
                IN Len(t) = Len(stack) - 1 /\ \A j \in 1..(Len(stack) - 1) : t[j] = stack[j]
            BY <1>1, <4>1, StackOps, Zenon
          <5>2. stack' = SubSeq(stack, 1, d - 1) /\ d = Len(stack)
            BY <1>1, <3>1
          <5>. QED BY <5>1, <5>2, Zenon
        <4>. QED BY <1>1, <2>6, <4>2 DEF Top
      <3>4. is \in Emits => stack[d - 1].is \notin Dropping
        <4>1. TopOK(is, in.groups[d - 1], out.groups[Pos(stack, d - 1) + 1], InAct(in.groups, d - 1),
                    OutAct(stack, out.groups, d - 1), stack[d - 1].is)
          BY <1>1, <1>7, <2>6, TopFacts
        <4>. QED BY <4>1 DEF TopOK, Emits
      <3>5. Side(is, l, wrote', stack[d - 1].is)
        BY <1>1, <3>1, <3>4 DEF Side, PopOf
      <3>. QED BY <2>2, <3>1, <3>2, <3>3, <3>5
    <2>. QED BY <1>6, <2>3, <2>4, <2>5, <2>6
  <1>. QED BY <1>8, <1>9

-----------------------------------------------------------------------------
(* The theorems.                                                           *)

LEMMA InitOK == CppInit => IInv
  <1>. SUFFICES ASSUME CppInit PROVE IInv
    OBVIOUS
  <1>. DEFINE e == Entry("OUTSIDE", FALSE)
  <1>1. e \in Level0 /\ e.is = "OUTSIDE"
    BY DEF Entry, Level0, Ifstates
  <1>2. stack = <<e>> /\ incomment = FALSE /\ dirty = FALSE /\ status = "run" /\ wrote = Nothing
    BY DEF CppInit, Init, Entry
  <1>. HIDE DEF e
  <1>3. stack \in Seq(Level0) /\ Len(stack) = 1 /\ stack[1] = e
    BY <1>1, <1>2
  <1>4. StackOK(stack)
    BY <1>1, <1>3, OptionsTyped DEF StackOK, Stacks, Level0
  <1>5. << >> \in Groups
    BY DEF Groups
  <1>6. in = Start /\ out = Start /\ Start \in Readers /\ Start.groups = << >> /\ ~Start.comment /\ ~Start.broken
    BY <1>5 DEF CppInit, Start, Readers
  <1>7. Shape
    BY <1>2, <1>4, <1>6 DEF Shape
  <1>8. Match(stack, << >>, << >>)
    <2>1. Levels(stack, << >>, << >>)
      BY <1>3 DEF Levels
    <2>2. Pos(stack, 1) = 0
      BY PosBase
    <2>. QED BY <1>1, <1>3, <1>4, <1>5, <2>1, <2>2 DEF Match, StackOK
  <1>9. Agreement
    <2>1. in.groups = << >> /\ out.groups = << >> /\ ~in.broken /\ ~out.broken
      BY <1>6
    <2>2. in.comment = FALSE /\ out.comment = FALSE
      BY <1>6 DEF Start
    <2>3. in.comment = incomment /\ out.comment = (incomment /\ Top.is \notin Dropping)
      BY <1>2, <2>2
    <2>. QED BY <1>8, <2>1, <2>3 DEF Agreement
  <1>. QED BY <1>2, <1>7, <1>9 DEF IInv

\* What is stuck in a comment stays stuck.
LEMMA StuckStays ==
  ASSUME Shape, NEW l \in LineSpace, CppProcess(l), Stuck, "elif" \notin Leads \/ ~l.closes
  PROVE Error \/ Stuck'
  <1>1. l.dir = "blank" /\ incomment' = incomment
    BY DEF Stuck, CppProcess, Process, Readable
  <1>2. Error \/ Keeps(Top.is, l)
    BY <1>1, Reading DEF CppProcess, PutsBy, PutOf, PushesBy, PopsBy
  <1>. QED BY <1>1, <1>2 DEF Keeps, Stuck, ignoring, Top

LEMMA StepOK ==
  ASSUME SplitConds = FALSE, "elif" \notin Leads
  PROVE IInv /\ [CppNext]_allvars => IInv'
  <1>. SUFFICES ASSUME IInv, [CppNext]_allvars PROVE IInv'
    OBVIOUS
  <1>1. CASE EndOfFile /\ UNCHANGED <<in, out>>
    <2>1. /\ UNCHANGED <<stack, incomment, dirty, in, out>> /\ wrote' = Nothing
          /\ status = "run" /\ status' = IF Top.is = "OUTSIDE" /\ ~incomment THEN "done" ELSE "error"
      BY <1>1 DEF EndOfFile
    <2>2. Shape'
      BY <2>1 DEF IInv, Shape
    <2>3. Top' = Top /\ (Stuck' <=> Stuck) /\ (Agreement' <=> Agreement)
      BY <2>1 DEF Top, Stuck, ignoring, Agreement
    <2>4. Following' => Following
      BY <2>1, <2>3 DEF Following
    <2>. QED BY <2>1, <2>2, <2>3, <2>4 DEF IInv
  <1>2. ASSUME NEW l \in LineSpace, CppProcess(l)
        PROVE IInv'
    <2>1. Shape /\ Shape' /\ status = "run"
      BY <1>2, ShapeKept DEF IInv, CppProcess, Process
    <2>2. ~Error => status' = status
      BY <1>2, <2>1, Reading DEF CppProcess
    <2>3. status' # "done"
      BY <2>1, <2>2 DEF Error
    <2>4. Following' => Agreement'
      <3>. SUFFICES ASSUME Following' PROVE Agreement'
        OBVIOUS
      <3>1. ~Error
        BY DEF Following, Error
      <3>2. ~Stuck
        BY <1>2, <2>1, <3>1, StuckStays DEF Following
      <3>3. Agreement
        BY <2>1, <3>2 DEF IInv, Following
      <3>. QED BY <1>2, <2>1, <3>1, <3>2, <3>3, AgreementKept
    <2>. QED BY <2>1, <2>3, <2>4 DEF IInv
  <1>3. CASE UNCHANGED allvars
    BY <1>3 DEF allvars, vars, IInv, Shape, Following, Stuck, ignoring, Agreement, Top
  <1>. QED BY <1>1, <1>2, <1>3 DEF CppNext

\* As long as no condition is split and no #elif follows a comment on its line,
\* the selection, the form and the end of the output are as they should be.
LEMMA IInvGives ==
  IInv => TypeOK /\ SameSelection /\ OutputWellFormed /\ DoneClosed
  <1>. SUFFICES ASSUME IInv PROVE TypeOK /\ SameSelection /\ OutputWellFormed /\ DoneClosed
    OBVIOUS
  <1>1. TypeOK
    BY DEF IInv, Shape, StackOK, Stacks, TypeOK
  <1>2. SameSelection
    BY Selection DEF IInv, Agreement, SameSelection, Top
  <1>3. OutputWellFormed
    BY DEF IInv, Agreement, OutputWellFormed
  <1>4. DoneClosed
    <2>. SUFFICES ASSUME status = "done" PROVE in = Start /\ out = Start
      BY DEF DoneClosed
    <2>1. Top.is = "OUTSIDE" /\ ~incomment /\ Agreement /\ Shape
      BY DEF IInv, Following, Stuck
    <2>2. Len(stack) = 1
      BY <2>1, TopIs
    <2>3. Len(in.groups) = 0 /\ Len(out.groups) = 0 /\ in.groups \in Groups /\ out.groups \in Groups
      BY <2>1, <2>2, PosBase DEF Agreement, Match
    <2>4. in.groups = << >> /\ out.groups = << >>
      BY <2>3, GroupsLen
    <2>5. in \in Readers /\ out \in Readers
      BY <2>1 DEF Shape
    <2>6. in.comment = FALSE /\ out.comment = FALSE /\ in.broken = FALSE /\ out.broken = FALSE
      BY <2>1, <2>5 DEF Agreement, Readers
    <2>. QED BY <2>4, <2>5, <2>6 DEF Readers, Start
  <1>. QED BY <1>1, <1>2, <1>3, <1>4

\* The type of the state and the shape of the stack (unifdef.c:441-530).
THEOREM UnifdefTypeOK ==
  ASSUME SplitConds = FALSE, "elif" \notin Leads
  PROVE CppSpec => []TypeOK
  <1>1. CppInit => IInv
    BY InitOK
  <1>2. IInv /\ [CppNext]_allvars => IInv'
    BY StepOK
  <1>3. IInv => TypeOK
    BY IInvGives
  <1>. QED BY <1>1, <1>2, <1>3, PTL DEF CppSpec

\* unifdef neither deletes what the preprocessor would select nor keeps what it
\* would not, whatever the symbols turn out to be (trans_table,
\* unifdef.c:441-489).
THEOREM SelectionKept ==
  ASSUME SplitConds = FALSE, "elif" \notin Leads
  PROVE CppSpec => []SameSelection
  <1>1. CppInit => IInv
    BY InitOK
  <1>2. IInv /\ [CppNext]_allvars => IInv'
    BY StepOK
  <1>3. IInv => SameSelection
    BY IInvGives
  <1>. QED BY <1>1, <1>2, <1>3, PTL DEF CppSpec

\* The output has its directives in place and its comments whole (unifdef.c:441-489).
THEOREM OutputKept ==
  ASSUME SplitConds = FALSE, "elif" \notin Leads
  PROVE CppSpec => []OutputWellFormed
  <1>1. CppInit => IInv
    BY InitOK
  <1>2. IInv /\ [CppNext]_allvars => IInv'
    BY StepOK
  <1>3. IInv => OutputWellFormed
    BY IInvGives
  <1>. QED BY <1>1, <1>2, <1>3, PTL DEF CppSpec

\* A run that ends well has closed every group and comment (unifdef.c:609-621).
THEOREM EndsClosed ==
  ASSUME SplitConds = FALSE, "elif" \notin Leads
  PROVE CppSpec => []DoneClosed
  <1>1. CppInit => IInv
    BY InitOK
  <1>2. IInv /\ [CppNext]_allvars => IInv'
    BY StepOK
  <1>3. IInv => DoneClosed
    BY IInvGives
  <1>. QED BY <1>1, <1>2, <1>3, PTL DEF CppSpec

==============================================================================
