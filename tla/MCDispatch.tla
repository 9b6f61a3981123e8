------------------------------- MODULE MCDispatch -------------------------------
(***************************************************************************)
(* Two operations on one target, one per adapter, and two workers.         *)
(***************************************************************************)
EXTENDS Dispatch, TLC

CONSTANTS o1, o2, w1, w2, base, c1, c2, foreign

mc_Operations == {o1, o2}
mc_Workers == {w1, w2}
mc_Commits == {base, c1, c2, foreign}
mc_Mixed == (o1 :> "git") @@ (o2 :> "docker")
mc_Docker == [o \in mc_Operations |-> "docker"]
mc_Base == [o \in mc_Operations |-> base]
mc_Distinct == (o1 :> c1) @@ (o2 :> c2)
\* The same change requested and approved twice.
mc_Repeated == [o \in mc_Operations |-> c1]
mc_Symmetry == Permutations(mc_Workers)

================================================================================
