------------------------------- MODULE MCMunit -------------------------------
(***************************************************************************)
(* Instances of the munit driver for TLC.                                  *)
(***************************************************************************)
EXTENDS MunitRunInv, TLC

CONSTANTS p1, p2, k1, k2, a1, a2, b1

TwoProcs == {p1, p2}
OneKo    == {k1}
TwoKos   == {k1, k2}

\* One ko with one case; two kos, the first with two cases.
SmallTable == k1 :> <<a1>>
\* A ko with one case beside a ko whose table is empty.
BareTable == k1 :> <<a1>> @@ k2 :> << >>
MixTables == k1 :> <<a1, a2>> @@ k2 :> <<b1>>

SmallTableCases == {a1}
MixTablesCases == {a1, a2, b1}

\* Test functions are named after their own module, init functions after none.
CaseNames == [c \in Cases |-> <<"test", c>>]
InitNames == [k \in Kos |-> <<"init", k>>]
OwnNames  == {<<CaseName[c], KoOf(c)>> : c \in Cases}

Sym == Permutations(Procs)
==============================================================================
