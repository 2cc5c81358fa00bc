--------------------------- MODULE LineageClosure ---------------------------
(***************************************************************************)
(* What a lineage walk promises, with no queue in it: the objects at each  *)
(* distance from the root are found all at once, nearest first, and the    *)
(* walk stops at the depth limit or when a layer is empty.  An object      *)
(* belongs to the layer of its SHORTEST reference path, so a depth limit   *)
(* cuts the same objects whatever order references are enumerated in.      *)
(***************************************************************************)
EXTENDS Integers

CONSTANTS Ref, NoLimit

VARIABLES
  problem,    \* [root, next, limit]: what to walk, never changes
  reached,    \* objects of the layers already completed
  frontier,   \* the layer being visited
  depth       \* its distance from the root, 0 when it is empty

cvars == <<problem, reached, frontier, depth>>

ProblemType == [root : Ref, next : [Ref -> SUBSET Ref], limit : Int \cup {NoLimit}]

Init ==
  /\ problem \in ProblemType
  /\ reached = {}
  /\ frontier = {}
  /\ depth = 0

Start ==
  /\ reached = {}
  /\ frontier = {}
  /\ frontier' = {problem.root}
  /\ UNCHANGED <<problem, reached, depth>>

Cut == problem.limit # NoLimit /\ depth >= problem.limit

NextLayer ==
  /\ frontier # {}
  /\ reached' = reached \cup frontier
  /\ frontier' = IF Cut THEN {}
                 ELSE (UNION {problem.next[r] : r \in frontier}) \ reached'
  /\ depth' = IF frontier' = {} THEN 0 ELSE depth + 1
  /\ UNCHANGED problem

Next == Start \/ NextLayer

Spec == Init /\ [][Next]_cvars
=============================================================================
