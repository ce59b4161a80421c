------------------------------ MODULE MCGroup ------------------------------
(***************************************************************************)
(* Three goals and two objects.  Every goal has one or two inputs, any of  *)
(* the five; a fourth and a fifth line may link a goal again.              *)
(***************************************************************************)
EXTENDS Group

CONSTANTS g1, g2, g3, o1, o2

ThreeGoals == {g1, g2, g3}
TwoObjects == {o1, o2}
Link(g, s) == [goal |-> g, srcs |-> s]
Few == kSubset(1, ThreeGoals \union TwoObjects) \union kSubset(2, ThreeGoals \union TwoObjects)

\* without the links that go back to the goal or an earlier one alone
Trees == {l \in {<<Link(g1, s1), Link(g2, s2), Link(g3, s3)>> : s1, s2, s3 \in Few} :
            g1 \notin l[1].srcs \union l[2].srcs /\ g2 \notin l[2].srcs}
Again(k) == {l \o [i \in 1 .. k |-> Link(g2, {o1})] : l \in {m \in Trees : o2 \notin m[1].srcs}}
Logs == Trees \union Again(1) \union Again(2)

SomeMade == {{o1, o2}, {o1}}
TheOthers == {g2, g3}
IsTop(g) == TRUE
==============================================================================
