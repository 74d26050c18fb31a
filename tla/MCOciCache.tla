------------------------------ MODULE MCOciCache ------------------------------
(***************************************************************************)
(* Instances of the image cache for TLC.                                   *)
(***************************************************************************)
EXTENDS OciCacheInv, TLC

CONSTANTS n1, n2, p1, p2

On(a, v) == [arch |-> a, variant |-> v]

\* Two names whose contents differ: amd and arm images, two releases of the first name.
PlainPlat == ("a1" :> On("amd64", "")) @@ ("a2" :> On("amd64", "")) @@ ("r1" :> On("arm64", ""))
             @@ ("b1" :> On("amd64", "")) @@ ("x1" :> NoPlat)
DistinctPublished ==
  (n1 :> {IndexOf(<<"a1", "r1">>), IndexOf(<<"a2", "r1">>)})
  @@ (n2 :> {ImageOf("b1"), IndexOf(<<"b1", "x1">>)})
DistinctLoads == (n1 :> {"a2"}) @@ (n2 :> {})

\* Two names that stand for one index: a release and the tag "latest".
SharedPublished ==
  (n1 :> {IndexOf(<<"a1">>), IndexOf(<<"a2">>)}) @@ (n2 :> {IndexOf(<<"a1">>)})
NoLoads == (n1 :> {}) @@ (n2 :> {})

\* The hypotheses of the theorems hold in the run that is to pass.
ASSUME InstanceAssumption ==
  Published = DistinctPublished => OneProcess /\ NamesApart /\ OneVariant
===============================================================================
