------------------------- MODULE BuildLineageProofs -------------------------
(***************************************************************************)
(* The safety of the lineage build, for every object model, every command  *)
(* line and every order in which references are enumerated.  The second    *)
(* half is about what the walk finds: exactly the objects in reach, layer  *)
(* by layer, which is ExactClosure and the refinement of LineageClosure.   *)
(***************************************************************************)
EXTENDS BuildLineage, FiniteSetTheorems, WellFoundedInduction, TLAPS

(* What a step does to the sequences, stated once. *)

\* Appending a node adds its key and nothing else.
LEMMA NodesAppend ==
  ASSUME nodes \in Seq(Entry), NEW e \in Entry, nodes' = Append(nodes, e)
  PROVE  Nodes' = Nodes \cup {e.ref}
<1>1. \A i \in DOMAIN nodes : i \in DOMAIN nodes' /\ nodes'[i] = nodes[i]
  OBVIOUS
<1>2. Len(nodes) + 1 \in DOMAIN nodes' /\ nodes'[Len(nodes) + 1] = e
  OBVIOUS
<1>3. \A i \in DOMAIN nodes' : i \in DOMAIN nodes \/ i = Len(nodes) + 1
  OBVIOUS
<1> QED
  BY <1>1, <1>2, <1>3 DEF Nodes

\* The head of a queue is an entry, and the tail is the queue shifted by one.
LEMMA QueueTail ==
  ASSUME NEW q \in Seq(Entry), q # << >>
  PROVE  /\ Head(q) \in Entry
         /\ Head(q) = q[1]
         /\ 1 \in DOMAIN q
         /\ Tail(q) \in Seq(Entry)
         /\ \A i \in DOMAIN Tail(q) : i + 1 \in DOMAIN q /\ Tail(q)[i] = q[i+1]
         /\ \A i \in DOMAIN q : i = 1 \/ (i - 1 \in DOMAIN Tail(q) /\ Tail(q)[i-1] = q[i])
  OBVIOUS

\* A non-empty set of positions of a sequence has a last one.
LEMMA LastHit ==
  ASSUME NEW S, NEW s \in Seq(S), NEW hits \in SUBSET (DOMAIN s), hits # {}
  PROVE  (CHOOSE i \in hits : \A j \in hits : j <= i) \in hits
<1> DEFINE below == {Len(s) - i : i \in hits}
<1>1. below \subseteq Nat /\ below # {}
  OBVIOUS
<1>2. PICK m \in below : \A k \in below : <<k, m>> \notin OpToRel(<, Nat)
  BY <1>1, NatLessThanWellFounded, WFMin
<1>3. \A k \in below : ~ (k < m)
  BY <1>1, <1>2 DEF OpToRel
<1>4. PICK i \in hits : m = Len(s) - i
  OBVIOUS
<1>5. ASSUME NEW j \in hits PROVE j <= i
  <2>1. Len(s) - j \in below
    OBVIOUS
  <2>2. ~ (Len(s) - j < m)
    BY <1>3, <2>1
  <2> QED
    BY ONLY <2>2, <1>4, hits \subseteq DOMAIN s, s \in Seq(S)
<1> QED
  BY <1>4, <1>5

LEMMA ParseWarningsType ==
  ASSUME NEW r \in Ref
  PROVE  ParseWarnings(r) \subseteq WarningKinds \X Ref
<1>1. <<"parse errors", r>> \in WarningKinds \X Ref
  BY DEF WarningKinds
<1> QED
  BY <1>1 DEF ParseWarnings

\* The specs left on the nodes after a body's CTAS statements are specs.
LEMMA CtasAppliedType ==
  ASSUME NEW specs \in Seq(CtasSpec), NEW syn \in [Ref -> Specs \cup {NoSpec}]
  PROVE  CtasApplied(specs, syn) \in [Ref -> Specs \cup {NoSpec}]
<1>1. ASSUME NEW i \in DOMAIN specs PROVE specs[i].spec \in Specs
  <2>1. specs[i] \in CtasSpec
    OBVIOUS
  <2> QED
    BY <2>1 DEF CtasSpec
<1>2. ASSUME NEW r \in Ref
      PROVE  CtasApplied(specs, syn)[r] \in Specs \cup {NoSpec}
  <2> DEFINE hits == {i \in DOMAIN specs : specs[i].target = r}
  <2>1. CtasApplied(specs, syn)[r] =
          IF r \in Nodes /\ hits # {}
          THEN specs[CHOOSE i \in hits : \A j \in hits : j <= i].spec ELSE syn[r]
    BY DEF CtasApplied
  <2>2. hits \subseteq DOMAIN specs
    OBVIOUS
  <2> HIDE DEF hits
  <2>3. CASE r \in Nodes /\ hits # {}
    <3>1. (CHOOSE i \in hits : \A j \in hits : j <= i) \in DOMAIN specs
      BY <2>2, <2>3, LastHit
    <3> QED
      BY <1>1, <2>1, <2>3, <3>1
  <2>4. CASE ~ (r \in Nodes /\ hits # {})
    BY <2>1, <2>4
  <2> QED
    BY <2>3, <2>4
<1> QED
  BY <1>2 DEF CtasApplied

-----------------------------------------------------------------------------
(* Type correctness. *)

LEMMA InitTypeOK == Init => TypeOK
<1> SUFFICES ASSUME Init PROVE TypeOK
  OBVIOUS
<1>1. model \in ModelType /\ request \in RequestType
  BY InputsAssumption DEF Init
<1>2. RootRef \in Ref
  BY <1>1 DEF RootRef, Ref, RequestType
<1>3. Nodes = {}
  BY DEF Init, Nodes
<1> QED
  BY <1>1, <1>2, <1>3 DEF Init, TypeOK, Entry, NotExited

\* The name a reference resolves to is a node key.
LEMMA RefToType ==
  ASSUME TypeOK, NEW o \in Objects
  PROVE  RefTo(o) \in Ref /\ RootRef \in Ref
  BY DEF TypeOK, RefTo, RootRef, Ref, ModelType, RequestType

LEMMA NextTypeOK == TypeOK /\ [Next]_vars => TypeOK'
<1> SUFFICES ASSUME TypeOK, [Next]_vars PROVE TypeOK'
  OBVIOUS
<1>a. queue \in Seq(Entry) /\ nodes \in Seq(Entry) /\ cur \in Entry /\ todo \in 0..Len(nodes)
  BY DEF TypeOK
<1>b. model \in ModelType /\ request \in RequestType
  BY DEF TypeOK
<1> USE DEF TypeOK, inputs, walk, pass, NotExited
<1>1. CASE RejectArguments
  BY <1>1 DEF RejectArguments, Exit, Nodes
<1>2. CASE InitialiseClr
  BY <1>2 DEF InitialiseClr, Exit, Nodes
<1>3. CASE RootMissing
  BY <1>3 DEF RootMissing, Exit, Nodes
<1>4. CASE StartWalk
  <2>1. RootRef \in Ref
    BY DEF RootRef, Ref, RequestType
  <2>2. [ref |-> RootRef, depth |-> 0] \in Entry
    BY ONLY <2>1 DEF Entry
  <2>3. queue' = << [ref |-> RootRef, depth |-> 0] >>
    BY ONLY <1>4 DEF StartWalk
  <2>4. queue' \in Seq(Entry)
    BY ONLY <2>2, <2>3
  <2>5. Nodes' = Nodes
    BY ONLY <1>4 DEF StartWalk, Nodes
  <2> QED
    BY <1>4, <2>4, <2>5 DEF StartWalk
<1>5. CASE SkipVisited
  BY <1>5 DEF SkipVisited, Nodes
<1>6. ASSUME Visit PROVE /\ Front \in Entry
                         /\ queue' \in Seq(Entry)
                         /\ nodes' \in Seq(Entry)
                         /\ todo \in 0..Len(nodes')
                         /\ Nodes \subseteq Nodes'
  <2>1. Front \in Entry /\ queue' \in Seq(Entry)
    BY ONLY <1>6, <1>a, QueueTail DEF Visit, Front
  <2>2. nodes' \in Seq(Entry) /\ Len(nodes') = Len(nodes) + 1
    BY ONLY <1>6, <1>a, <2>1 DEF Visit
  <2>3. Nodes \subseteq Nodes'
    BY ONLY <1>6, <1>a, <2>1, NodesAppend DEF Visit
  <2> QED
    BY ONLY <1>a, <2>1, <2>2, <2>3
<1>7. CASE VisitLeaf
  BY <1>6, <1>7 DEF VisitLeaf, Visit
<1>8. CASE VisitSynonym
  <2>1. edges' \subseteq Ref \X Ref
    <3>1. Front.ref \in Ref
      BY <1>6, <1>8 DEF VisitSynonym, Entry
    <3>2. model.refs[Front.ref.obj] \subseteq Objects
      BY ONLY <1>b, <3>1 DEF ModelType, Ref
    <3>3. \A o \in Objects : RefTo(o) \in Ref
      BY RefToType
    <3>4. edges \subseteq Ref \X Ref
      OBVIOUS
    <3>5. CASE edges' = edges
      BY ONLY <3>4, <3>5
    <3>6. ASSUME NEW o \in Objects, edges' = edges \cup {<<Front.ref, RefTo(o)>>}
          PROVE  edges' \subseteq Ref \X Ref
      BY ONLY <3>1, <3>3, <3>4, <3>6
    <3> QED
      BY ONLY <1>8, <3>2, <3>5, <3>6 DEF VisitSynonym
  <2> QED
    BY <1>6, <1>8, <2>1 DEF VisitSynonym, Visit
<1>9. CASE VisitAtLimit
  BY <1>6, <1>9 DEF VisitAtLimit, Visit
<1>10. CASE VisitAndExpand
  <2>1. model.refs[Front.ref.obj] \subseteq Objects
    BY <1>6, <1>10 DEF VisitAndExpand, Entry, Ref, ModelType
  <2> QED
    BY <1>6, <1>10, <2>1 DEF VisitAndExpand, Visit
<1>11. CASE PassOverReference
  BY <1>11 DEF PassOverReference, Nodes
<1>12. CASE EnqueueReference
  <2>1. PICK o \in pending :
          /\ edges' = edges \cup {<<cur.ref, RefTo(o)>>}
          /\ pending' = pending \ {o}
          /\ queue' = Append(queue, [ref |-> RefTo(o), depth |-> cur.depth + 1])
    BY <1>12 DEF EnqueueReference, Enqueued
  <2>2. RefTo(o) \in Ref
    BY RefToType
  <2>3. [ref |-> RefTo(o), depth |-> cur.depth + 1] \in Entry
    BY ONLY <1>a, <2>2 DEF Entry
  <2>4. queue' \in Seq(Entry)
    BY ONLY <1>a, <2>1, <2>3
  <2>5. edges \subseteq Ref \X Ref /\ cur.ref \in Ref
    BY <1>a DEF Entry
  <2>6. edges' \subseteq Ref \X Ref
    BY ONLY <2>1, <2>2, <2>5
  <2> QED
    BY <1>12, <2>1, <2>4, <2>6 DEF EnqueueReference, Nodes
<1>13. CASE FinishScan
  BY <1>13 DEF FinishScan, Nodes
<1>14. CASE FinishWalk
  <2>1. todo' \in 0..Len(nodes') /\ nodes' = nodes
    BY ONLY <1>14, <1>a DEF FinishWalk, walk
  <2>2. Nodes' = Nodes
    BY ONLY <2>1 DEF Nodes
  <2> QED
    BY <1>14, <2>1, <2>2 DEF FinishWalk
<1>15. ASSUME Consider PROVE /\ todo' \in 0..Len(nodes')
                             /\ Candidate \in Ref \cap Nodes
                             /\ Nodes' = Nodes
  <2>1. todo \in DOMAIN nodes
    BY ONLY <1>15, <1>a DEF Consider
  <2>2. nodes[todo] \in Entry
    BY ONLY <1>a, <2>1
  <2>3. Candidate \in Ref \cap Nodes
    BY ONLY <2>1, <2>2 DEF Candidate, Nodes, Entry
  <2>4. nodes' = nodes /\ todo' = todo - 1 /\ todo > 0
    BY ONLY <1>15 DEF Consider, walk
  <2> QED
    BY ONLY <1>a, <2>3, <2>4 DEF Nodes
<1>16. CASE PassOverBodiless
  BY <1>15, <1>16 DEF PassOverBodiless, Consider
<1>17. ASSUME Consider PROVE /\ ParseWarnings(Candidate) \subseteq WarningKinds \X Ref
                             /\ \A kind \in WarningKinds : <<kind, Candidate>> \in WarningKinds \X Ref
  BY ONLY <1>15, <1>17, ParseWarningsType
<1>18. CASE WarnNoScript
  <2>1. warnings' \subseteq WarningKinds \X Ref
    BY <1>17, <1>18 DEF WarnNoScript, WarningKinds
  <2> QED
    BY <1>15, <1>18, <2>1 DEF WarnNoScript, Consider
<1>19. CASE WarnMappingFailed
  <2>1. warnings' \subseteq WarningKinds \X Ref
    BY <1>17, <1>19 DEF WarnMappingFailed, WarningKinds
  <2> QED
    BY <1>15, <1>19, <2>1 DEF WarnMappingFailed, Consider
<1>20. CASE MapNode
  <2>1. synapse' \in [Ref -> Specs \cup {NoSpec}]
    <3>1. Candidate \in Ref
      BY <1>15, <1>20 DEF MapNode
    <3>2. model.ctas[Candidate.obj] \in Seq(CtasSpec)
      BY ONLY <1>b, <3>1 DEF ModelType, Ref
    <3>3. synapse' = CtasApplied(model.ctas[Candidate.obj], synapse)
      BY ONLY <1>20 DEF MapNode, Remapped
    <3>4. synapse \in [Ref -> Specs \cup {NoSpec}]
      OBVIOUS
    <3> QED
      BY ONLY <3>2, <3>3, <3>4, CtasAppliedType
  <2>2. warnings' \subseteq WarningKinds \X Ref
    BY <1>17, <1>20 DEF MapNode
  <2>3. mapped' \subseteq Nodes'
    BY <1>15, <1>20 DEF MapNode
  <2> QED
    BY <1>15, <1>20, <2>1, <2>2, <2>3 DEF MapNode, Consider
<1>21. CASE FinishPass
  BY <1>21 DEF FinishPass, Nodes
<1>22. CASE WriteJson
  BY <1>22 DEF WriteJson, Nodes, Formats
<1>23. CASE WriteHtml
  BY <1>23 DEF WriteHtml, Nodes, Formats
<1>24. CASE Succeed
  BY <1>24 DEF Succeed, Exit, Nodes
<1>25. CASE Abort
  BY <1>25 DEF Abort, Exit, Nodes
<1>26. CASE UNCHANGED vars
  BY <1>26 DEF vars, Nodes
<1> QED
  BY <1>1, <1>2, <1>3, <1>4, <1>5, <1>7, <1>8, <1>9, <1>10, <1>11, <1>12, <1>13,
     <1>14, <1>16, <1>18, <1>19, <1>20, <1>21, <1>22, <1>23, <1>24, <1>25, <1>26
     DEF Next, Progress, Walk, Map

\* Every variable keeps its type, whatever the model and the command line.
THEOREM TypeCorrect == Spec => []TypeOK
  BY InitTypeOK, NextTypeOK, PTL DEF Spec

-----------------------------------------------------------------------------
(***************************************************************************)
(* The walk.  The properties are consequences of how the queue relates to  *)
(* the nodes: it is sorted by depth, it spans two layers at most, nothing  *)
(* visited is deeper than anything queued, and the target of every edge is *)
(* a node at most one layer below the source or is queued there.           *)
(***************************************************************************)

Sorted ==
  \A i, j \in DOMAIN queue :
    /\ i <= j => queue[i].depth <= queue[j].depth
    /\ queue[j].depth <= queue[i].depth + 1

NodesAbove ==
  \A i \in DOMAIN nodes, j \in DOMAIN queue : nodes[i].depth <= queue[j].depth

\* While references are enumerated, cur is the node visited last.
Scanning ==
  pc = "scan" =>
    /\ Len(nodes) \in DOMAIN nodes
    /\ nodes[Len(nodes)] = cur
    /\ Type(cur.ref) # "SYNONYM"
    /\ \A i \in DOMAIN nodes : nodes[i].depth <= cur.depth
    /\ \A j \in DOMAIN queue : cur.depth <= queue[j].depth /\ queue[j].depth <= cur.depth + 1

FoundBelow(ref, depth) ==
  \/ \E j \in DOMAIN nodes : nodes[j].ref = ref /\ nodes[j].depth <= depth + 1
  \/ \E j \in DOMAIN queue : queue[j].ref = ref /\ queue[j].depth = depth + 1

EdgeTracked(e) ==
  /\ e[1] \in Nodes
  /\ Type(e[1]) # "SYNONYM" =>
       \A i \in DOMAIN nodes : nodes[i].ref = e[1] => FoundBelow(e[2], nodes[i].depth)

Tracked == \A e \in edges : EdgeTracked(e)

RootTracked ==
  pc \notin {"cli", "find"} =>
    RootRef \in Nodes \/ \E j \in DOMAIN queue : queue[j].ref = RootRef

Phases ==
  /\ pc \in {"cli", "find", "map", "write"} => queue = << >>
  /\ pc \in {"cli", "find"} => nodes = << >> /\ edges = {}

WalkInv ==
  /\ Sorted /\ NodesAbove /\ Scanning
  /\ VisitedOnce /\ Tracked /\ RootTracked /\ Phases

\* A step that leaves the walk's state alone, and does not start or end a
\* phase of it, keeps the invariant.
LEMMA WalkInvFrame ==
  ASSUME WalkInv, UNCHANGED <<model, request, queue, cur, nodes, edges>>,
         \/ pc' = pc
         \/ pc = "cli" /\ pc' = "find"
         \/ pc = "scan" /\ pc' = "bfs"
         \/ pc = "bfs" /\ pc' = "map" /\ queue = << >>
         \/ pc = "map" /\ pc' = "write"
  PROVE  WalkInv'
<1>1. Nodes' = Nodes /\ RootRef' = RootRef
  BY DEF Nodes, RootRef
<1>2. Sorted' /\ NodesAbove' /\ VisitedOnce'
  BY DEF WalkInv, Sorted, NodesAbove, VisitedOnce
<1>3. Scanning'
  BY DEF WalkInv, Scanning, Type
<1>4. Tracked'
  BY <1>1 DEF WalkInv, Tracked, EdgeTracked, FoundBelow, Type
<1>5. RootTracked' /\ Phases'
  BY <1>1 DEF WalkInv, RootTracked, Phases
<1> QED
  BY <1>2, <1>3, <1>4, <1>5 DEF WalkInv

\* What the entry types say of depths and of the ends of the sequences.
LEMMA EntryFacts ==
  ASSUME TypeOK
  PROVE  /\ \A i \in DOMAIN queue : queue[i] \in Entry /\ queue[i].depth \in Nat
         /\ \A i \in DOMAIN nodes : nodes[i] \in Entry /\ nodes[i].depth \in Nat
         /\ cur.depth \in Nat
<1>1. queue \in Seq(Entry) /\ nodes \in Seq(Entry) /\ cur \in Entry
  BY DEF TypeOK
<1>2. \A i \in DOMAIN queue : queue[i] \in Entry
  BY ONLY <1>1
<1>3. \A i \in DOMAIN nodes : nodes[i] \in Entry
  BY ONLY <1>1
<1> QED
  BY ONLY <1>1, <1>2, <1>3 DEF Entry

\* A skipped entry was found no deeper than it was queued.
LEMMA SkipKeepsWalkInv ==
  ASSUME TypeOK, WalkInv, SkipVisited PROVE WalkInv'
<1>1. /\ pc = "bfs" /\ pc' = "bfs" /\ queue # << >> /\ queue \in Seq(Entry)
      /\ queue[1].ref \in Nodes /\ queue' = Tail(queue)
      /\ UNCHANGED <<model, request, cur, nodes, edges>>
  BY QueueTail DEF SkipVisited, Front, TypeOK, inputs
<1>2. Nodes' = Nodes /\ RootRef' = RootRef
  BY ONLY <1>1 DEF Nodes, RootRef
<1>3. /\ \A i \in DOMAIN queue' : i + 1 \in DOMAIN queue /\ queue'[i] = queue[i+1]
      /\ \A i \in DOMAIN queue : i = 1 \/ (i - 1 \in DOMAIN queue' /\ queue'[i-1] = queue[i])
      /\ 1 \in DOMAIN queue
      /\ \A i \in DOMAIN queue' : i \in Nat
  BY ONLY <1>1, QueueTail
<1>4. Sorted'
  BY <1>3 DEF WalkInv, Sorted
<1>5. NodesAbove' /\ VisitedOnce' /\ Scanning' /\ Phases'
  BY <1>1, <1>3 DEF WalkInv, NodesAbove, VisitedOnce, Scanning, Phases
<1>6. Tracked'
  <2> SUFFICES ASSUME NEW e \in edges PROVE EdgeTracked(e)'
    BY <1>1 DEF Tracked
  <2>1. EdgeTracked(e)
    BY DEF WalkInv, Tracked
  <2>2. ASSUME NEW i \in DOMAIN nodes, FoundBelow(e[2], nodes[i].depth)
        PROVE  FoundBelow(e[2], nodes[i].depth)'
    <3>1. CASE \E j \in DOMAIN nodes : nodes[j].ref = e[2] /\ nodes[j].depth <= nodes[i].depth + 1
      BY <3>1, <1>1 DEF FoundBelow
    <3>2. CASE \E j \in DOMAIN queue : queue[j].ref = e[2] /\ queue[j].depth = nodes[i].depth + 1
      <4>1. PICK j \in DOMAIN queue : queue[j].ref = e[2] /\ queue[j].depth = nodes[i].depth + 1
        BY <3>2
      <4>2. CASE j = 1
        <5>1. PICK k \in DOMAIN nodes : nodes[k].ref = e[2]
          BY <1>1, <4>1, <4>2 DEF Nodes
        <5>2. nodes[k].depth <= nodes[i].depth + 1
          BY <4>1 DEF WalkInv, NodesAbove
        <5> QED
          BY <5>1, <5>2, <1>1 DEF FoundBelow
      <4>3. CASE j # 1
        BY <4>1, <4>3, <1>1, <1>3 DEF FoundBelow
      <4> QED
        BY <4>2, <4>3
    <3> QED
      BY <2>2, <3>1, <3>2 DEF FoundBelow
  <2>3. nodes' = nodes /\ model' = model
    BY <1>1
  <2> QED
    BY <1>2, <2>1, <2>2, <2>3 DEF EdgeTracked, Type
<1>7. RootTracked'
  <2>1. CASE RootRef \in Nodes
    BY <2>1, <1>2 DEF RootTracked
  <2>2. CASE \E j \in DOMAIN queue : queue[j].ref = RootRef
    <3>1. PICK j \in DOMAIN queue : queue[j].ref = RootRef
      BY <2>2
    <3> QED
      BY <3>1, <1>1, <1>2, <1>3 DEF RootTracked
  <2> QED
    BY <1>1, <2>1, <2>2 DEF WalkInv, RootTracked
<1> QED
  BY <1>4, <1>5, <1>6, <1>7 DEF WalkInv

\* A visit moves the head of the queue to the end of the nodes.
LEMMA VisitKeeps ==
  ASSUME TypeOK, WalkInv, Visit,
         \A e \in edges' :
           e \in edges \/ (e[1] = Front.ref /\ Type(e[1]) = "SYNONYM"),
         \/ pc' = "bfs" /\ cur' = cur
         \/ pc' = "scan" /\ cur' = Front /\ Type(Front.ref) # "SYNONYM"
  PROVE  WalkInv'
<1>1. /\ pc = "bfs" /\ queue # << >> /\ queue \in Seq(Entry) /\ nodes \in Seq(Entry)
      /\ Front \in Entry /\ Front = queue[1] /\ queue' = Tail(queue)
      /\ nodes' = Append(nodes, Front) /\ Front.ref \notin Nodes
      /\ model' = model /\ request' = request
  BY QueueTail DEF Visit, Front, TypeOK, inputs
<1>2. Nodes' = Nodes \cup {Front.ref} /\ RootRef' = RootRef
  BY ONLY <1>1, NodesAppend DEF RootRef
<1>3. /\ \A i \in DOMAIN queue' : i + 1 \in DOMAIN queue /\ queue'[i] = queue[i+1]
      /\ \A i \in DOMAIN queue : i = 1 \/ (i - 1 \in DOMAIN queue' /\ queue'[i-1] = queue[i])
      /\ 1 \in DOMAIN queue
      /\ \A i \in DOMAIN queue : i \in Nat /\ 1 <= i
      /\ \A i \in DOMAIN queue' : i \in Nat
  BY ONLY <1>1, QueueTail
<1>4. /\ \A i \in DOMAIN nodes : i \in DOMAIN nodes' /\ nodes'[i] = nodes[i]
      /\ \A i \in DOMAIN nodes' : i \in DOMAIN nodes \/ i = Len(nodes')
      /\ Len(nodes') \in DOMAIN nodes' /\ nodes'[Len(nodes')] = Front
      /\ Len(nodes') \notin DOMAIN nodes
  BY ONLY <1>1
<1>5. /\ \A i \in DOMAIN nodes' : nodes'[i].depth <= Front.depth
      /\ \A j \in DOMAIN queue' : /\ Front.depth <= queue'[j].depth
                                  /\ queue'[j].depth <= Front.depth + 1
  <2>1. ASSUME NEW i \in DOMAIN nodes' PROVE nodes'[i].depth <= Front.depth
    <3>1. CASE i \in DOMAIN nodes
      BY <1>1, <1>3, <1>4, <3>1 DEF WalkInv, NodesAbove
    <3>2. CASE i = Len(nodes')
      <4>1. Front.depth \in Nat
        BY ONLY <1>1 DEF Entry
      <4> QED
        BY ONLY <4>1, <3>2, <1>4
    <3> QED
      BY <1>4, <3>1, <3>2
  <2>2. ASSUME NEW j \in DOMAIN queue'
        PROVE  Front.depth <= queue'[j].depth /\ queue'[j].depth <= Front.depth + 1
    BY <1>1, <1>3 DEF WalkInv, Sorted
  <2> QED
    BY <2>1, <2>2
<1>6. Sorted'
  BY <1>3 DEF WalkInv, Sorted
<1>7. NodesAbove'
  <2> SUFFICES ASSUME NEW i \in DOMAIN nodes', NEW j \in DOMAIN queue'
               PROVE  nodes'[i].depth <= queue'[j].depth
    BY DEF NodesAbove
  <2>1. nodes'[i].depth \in Nat
    <3>1. nodes' \in Seq(Entry)
      BY ONLY <1>1
    <3>2. nodes'[i] \in Entry
      BY ONLY <3>1
    <3> QED
      BY ONLY <3>2 DEF Entry
  <2>2. queue'[j].depth \in Nat /\ Front.depth \in Nat
    BY ONLY <1>1, <1>3, EntryFacts, TypeOK DEF Entry
  <2> QED
    BY ONLY <1>5, <2>1, <2>2
<1>8. Scanning'
  <2>1. CASE pc' = "bfs"
    BY <2>1 DEF Scanning
  <2>2. CASE pc' = "scan" /\ cur' = Front /\ Type(Front.ref) # "SYNONYM"
    BY <1>1, <1>4, <1>5, <2>2 DEF Scanning, Type
  <2> QED
    BY <2>1, <2>2
<1>9. VisitedOnce'
  <2> SUFFICES ASSUME NEW i \in DOMAIN nodes', NEW j \in DOMAIN nodes',
                      nodes'[i].ref = nodes'[j].ref
               PROVE  i = j
    BY DEF VisitedOnce
  <2>1. \A k \in DOMAIN nodes : nodes'[k].ref # Front.ref
    BY <1>1, <1>4 DEF Nodes
  <2> QED
    BY <1>4, <2>1 DEF WalkInv, VisitedOnce
<1>10. Tracked'
  <2> SUFFICES ASSUME NEW e \in edges' PROVE EdgeTracked(e)'
    BY DEF Tracked
  <2>1. CASE e[1] = Front.ref /\ Type(e[1]) = "SYNONYM"
    BY <1>1, <1>2, <2>1 DEF EdgeTracked, Type
  <2>2. CASE e \in edges
    <3>1. EdgeTracked(e)
      BY <2>2 DEF WalkInv, Tracked
    <3>2. ASSUME NEW i \in DOMAIN nodes', nodes'[i].ref = e[1] PROVE i \in DOMAIN nodes
      BY <1>1, <1>4, <3>1, <3>2 DEF EdgeTracked
    <3>3. ASSUME NEW i \in DOMAIN nodes, FoundBelow(e[2], nodes[i].depth)
          PROVE  FoundBelow(e[2], nodes[i].depth)'
      <4>1. CASE \E j \in DOMAIN nodes : nodes[j].ref = e[2] /\ nodes[j].depth <= nodes[i].depth + 1
        BY <4>1, <1>4 DEF FoundBelow
      <4>2. CASE \E j \in DOMAIN queue : queue[j].ref = e[2] /\ queue[j].depth = nodes[i].depth + 1
        <5>1. PICK j \in DOMAIN queue : queue[j].ref = e[2] /\ queue[j].depth = nodes[i].depth + 1
          BY <4>2
        <5>2. CASE j = 1
          <6>1. nodes'[Len(nodes')].ref = e[2] /\ nodes'[Len(nodes')].depth = nodes'[i].depth + 1
            BY <1>1, <1>4, <5>1, <5>2
          <6>2. nodes'[i].depth + 1 <= nodes'[i].depth + 1
            BY <1>4, EntryFacts
          <6> QED
            BY <6>1, <6>2, <1>4 DEF FoundBelow
        <5>3. CASE j # 1
          <6>1. j - 1 \in DOMAIN queue' /\ queue'[j-1] = queue[j]
            BY <1>3, <5>3
          <6>2. nodes'[i] = nodes[i]
            BY <1>4
          <6> QED
            BY <5>1, <6>1, <6>2 DEF FoundBelow
        <5> QED
          BY <5>2, <5>3
      <4> QED
        BY <3>3, <4>1, <4>2 DEF FoundBelow
    <3>4. e[1] \in Nodes' /\ Type(e[1])' = Type(e[1])
      BY <1>1, <1>2, <3>1 DEF EdgeTracked, Type
    <3>5. ASSUME Type(e[1]) # "SYNONYM", NEW i \in DOMAIN nodes', nodes'[i].ref = e[1]
          PROVE  FoundBelow(e[2], nodes[i].depth)'
      <4>1. i \in DOMAIN nodes /\ nodes[i].ref = e[1]
        BY <3>2, <3>5, <1>4
      <4> QED
        BY <3>1, <3>3, <3>5, <4>1 DEF EdgeTracked
    <3> QED
      BY <3>4, <3>5 DEF EdgeTracked
  <2> QED
    BY <2>1, <2>2
<1>11. RootTracked'
  <2>1. CASE RootRef \in Nodes
    BY <2>1, <1>2 DEF RootTracked
  <2>2. CASE \E j \in DOMAIN queue : queue[j].ref = RootRef
    <3>1. PICK j \in DOMAIN queue : queue[j].ref = RootRef
      BY <2>2
    <3> QED
      BY <3>1, <1>1, <1>2, <1>3 DEF RootTracked
  <2> QED
    BY <1>1, <2>1, <2>2 DEF WalkInv, RootTracked
<1>12. Phases'
  BY DEF Phases
<1> QED
  BY <1>6, <1>7, <1>8, <1>9, <1>10, <1>11, <1>12 DEF WalkInv

\* A reference is queued exactly one layer below the object that holds it.
LEMMA EnqueueKeepsWalkInv ==
  ASSUME TypeOK, WalkInv, EnqueueReference PROVE WalkInv'
<1>1. PICK o \in pending :
        /\ edges' = edges \cup {<<cur.ref, RefTo(o)>>}
        /\ queue' = Append(queue, [ref |-> RefTo(o), depth |-> cur.depth + 1])
  BY DEF EnqueueReference, Enqueued
<1> DEFINE entry == [ref |-> RefTo(o), depth |-> cur.depth + 1]
<1>2. /\ pc = "scan" /\ pc' = "scan" /\ queue \in Seq(Entry) /\ nodes \in Seq(Entry)
      /\ UNCHANGED <<model, request, cur, nodes>>
  BY DEF EnqueueReference, TypeOK, inputs
<1>3. Nodes' = Nodes /\ RootRef' = RootRef
  BY ONLY <1>2 DEF Nodes, RootRef
<1>4. entry \in Entry
  <2>1. RefTo(o) \in Ref
    BY RefToType DEF TypeOK
  <2> QED
    BY <2>1, EntryFacts DEF Entry
<1>5. /\ \A i \in DOMAIN queue : i \in DOMAIN queue' /\ queue'[i] = queue[i]
      /\ \A i \in DOMAIN queue' : i \in DOMAIN queue \/ i = Len(queue')
      /\ Len(queue') \in DOMAIN queue' /\ queue'[Len(queue')] = entry
      /\ \A i \in DOMAIN queue : i < Len(queue')
      /\ Len(queue') \in Nat
  BY ONLY <1>1, <1>2, <1>4
<1>6. entry.depth = cur.depth + 1 /\ entry.ref = RefTo(o)
  OBVIOUS
<1> HIDE DEF entry
<1>7. \A j \in DOMAIN queue' : /\ cur.depth <= queue'[j].depth
                               /\ queue'[j].depth <= cur.depth + 1
                               /\ queue'[j].depth \in Nat
  BY <1>2, <1>5, <1>6, EntryFacts DEF WalkInv, Scanning
<1>8. Sorted'
  <2> SUFFICES ASSUME NEW i \in DOMAIN queue', NEW j \in DOMAIN queue'
               PROVE  /\ i <= j => queue'[i].depth <= queue'[j].depth
                      /\ queue'[j].depth <= queue'[i].depth + 1
    BY DEF Sorted
  <2>1. queue'[j].depth <= queue'[i].depth + 1
    BY <1>7, EntryFacts
  <2>2. CASE i \in DOMAIN queue /\ j \in DOMAIN queue
    BY <2>1, <2>2, <1>5 DEF WalkInv, Sorted
  <2>3. CASE j = Len(queue')
    BY <2>1, <2>3, <1>5, <1>6, <1>7
  <2>4. CASE i = Len(queue') /\ j # Len(queue')
    BY <2>1, <2>4, <1>5
  <2> QED
    BY <2>2, <2>3, <2>4, <1>5
<1>9. NodesAbove'
  BY <1>2, <1>7, EntryFacts DEF WalkInv, NodesAbove, Scanning
<1>10. Scanning' /\ VisitedOnce' /\ Phases'
  BY <1>2, <1>7 DEF WalkInv, Scanning, VisitedOnce, Phases, Type
<1>11. Tracked'
  <2> SUFFICES ASSUME NEW e \in edges' PROVE EdgeTracked(e)'
    BY DEF Tracked
  <2>1. CASE e \in edges
    <3>1. EdgeTracked(e)
      BY <2>1 DEF WalkInv, Tracked
    <3>2. ASSUME NEW i \in DOMAIN nodes, FoundBelow(e[2], nodes[i].depth)
          PROVE  FoundBelow(e[2], nodes[i].depth)'
      BY <3>2, <1>2, <1>5 DEF FoundBelow
    <3> QED
      BY <3>1, <3>2, <1>2, <1>3 DEF EdgeTracked, Type
  <2>2. CASE e = <<cur.ref, RefTo(o)>>
    <3>1. cur.ref \in Nodes /\ nodes[Len(nodes)] = cur /\ Len(nodes) \in DOMAIN nodes
      BY <1>2 DEF WalkInv, Scanning, Nodes
    <3>2. ASSUME NEW i \in DOMAIN nodes, nodes[i].ref = cur.ref PROVE nodes[i].depth = cur.depth
      BY <3>1, <3>2 DEF WalkInv, VisitedOnce
    <3>3. \E j \in DOMAIN queue' : queue'[j].ref = RefTo(o) /\ queue'[j].depth = cur.depth + 1
      BY <1>5, <1>6
    <3>4. e[1] = cur.ref /\ e[2] = RefTo(o) /\ RefTo(o)' = RefTo(o)
      BY <2>2, <1>2 DEF RefTo
    <3>5. ASSUME NEW i \in DOMAIN nodes, nodes[i].ref = e[1] PROVE FoundBelow(e[2], nodes[i].depth)'
      BY <3>2, <3>3, <3>4, <3>5, <1>2 DEF FoundBelow
    <3> QED
      BY <3>1, <3>4, <3>5, <1>2, <1>3 DEF EdgeTracked
  <2> QED
    BY <1>1, <2>1, <2>2
<1>12. RootTracked'
  BY <1>2, <1>3, <1>5 DEF WalkInv, RootTracked
<1> QED
  BY <1>8, <1>9, <1>10, <1>11, <1>12 DEF WalkInv

\* The root is queued at depth 0, before anything is a node.
LEMMA StartKeepsWalkInv ==
  ASSUME WalkInv, StartWalk PROVE WalkInv'
<1>1. /\ pc = "find" /\ pc' = "bfs" /\ nodes = << >> /\ edges = {}
      /\ queue' = << [ref |-> RootRef, depth |-> 0] >>
      /\ UNCHANGED <<model, request, nodes, edges>>
  BY DEF StartWalk, WalkInv, Phases, inputs
<1>2. /\ DOMAIN queue' = {1} /\ queue'[1].depth = 0 /\ queue'[1].ref = RootRef
      /\ DOMAIN nodes' = {} /\ edges' = {} /\ RootRef' = RootRef
  BY <1>1 DEF RootRef
<1>3. Sorted' /\ NodesAbove' /\ Scanning' /\ VisitedOnce' /\ Tracked' /\ Phases'
  BY <1>1, <1>2 DEF Sorted, NodesAbove, Scanning, VisitedOnce, Tracked, Phases
<1>4. RootTracked'
  BY <1>2 DEF RootTracked
<1> QED
  BY <1>3, <1>4 DEF WalkInv

LEMMA InitWalkInv ==
  ASSUME Init PROVE WalkInv
BY DEF Init, WalkInv, Sorted, NodesAbove, Scanning, VisitedOnce, Tracked, RootTracked, Phases

LEMMA VisitsKeepWalkInv ==
  ASSUME TypeOK, WalkInv, VisitLeaf \/ VisitSynonym \/ VisitAtLimit \/ VisitAndExpand
  PROVE  WalkInv'
<1>1. Visit /\ pc = "bfs"
  BY DEF VisitLeaf, VisitSynonym, VisitAtLimit, VisitAndExpand, Visit
<1>2. CASE VisitLeaf \/ VisitAtLimit
  <2>1. edges' = edges /\ pc' = "bfs" /\ cur' = cur
    BY <1>1, <1>2 DEF VisitLeaf, VisitAtLimit
  <2> QED
    BY <1>1, <2>1, VisitKeeps
<1>3. CASE VisitSynonym
  <2>1. /\ Type(Front.ref) = "SYNONYM" /\ pc' = "bfs" /\ cur' = cur
        /\ \/ \E o \in Objects : edges' = edges \cup {<<Front.ref, RefTo(o)>>}
           \/ edges' = edges
    <3>1. model.refs[Front.ref.obj] \subseteq Objects
      <4>1. model \in ModelType /\ Front.ref.obj \in Objects
        BY <1>1, QueueTail DEF Visit, Front, TypeOK, Entry, Ref
      <4> QED
        BY <4>1 DEF ModelType
    <3> QED
      BY <1>1, <1>3, <3>1 DEF VisitSynonym
  <2>2. CASE edges' = edges
    BY <1>1, <2>1, <2>2, VisitKeeps
  <2>3. CASE \E o \in Objects : edges' = edges \cup {<<Front.ref, RefTo(o)>>}
    <3>1. PICK o \in Objects : edges' = edges \cup {<<Front.ref, RefTo(o)>>}
      BY <2>3
    <3>2. \A e \in edges' : e \in edges \/ (e[1] = Front.ref /\ Type(e[1]) = "SYNONYM")
      BY <2>1, <3>1
    <3> QED
      BY <1>1, <2>1, <3>1, <3>2, VisitKeeps
  <2> QED
    BY <2>1, <2>2, <2>3
<1>4. CASE VisitAndExpand
  <2>1. /\ edges' = edges /\ pc' = "scan" /\ cur' = Front
        /\ Type(Front.ref) # "SYNONYM"
    BY <1>4 DEF VisitAndExpand
  <2> QED
    BY <1>1, <2>1, VisitKeeps
<1> QED
  BY <1>2, <1>3, <1>4

LEMMA NextWalkInv ==
  ASSUME TypeOK, WalkInv, [Next]_vars PROVE WalkInv'
<1>1. CASE SkipVisited
  BY <1>1, SkipKeepsWalkInv
<1>2. CASE VisitLeaf \/ VisitSynonym \/ VisitAtLimit \/ VisitAndExpand
  BY <1>2, VisitsKeepWalkInv
<1>3. CASE EnqueueReference
  BY <1>3, EnqueueKeepsWalkInv
<1>4. CASE StartWalk
  BY <1>4, StartKeepsWalkInv
<1>5. CASE RejectArguments \/ InitialiseClr \/ RootMissing \/ Abort \/ Succeed
           \/ WriteJson \/ WriteHtml
  BY <1>5, WalkInvFrame
     DEF RejectArguments, InitialiseClr, RootMissing, Abort, Succeed, WriteJson, WriteHtml,
         Exit, inputs, walk
<1>6. CASE PassOverReference \/ FinishScan \/ FinishWalk
  BY <1>6, WalkInvFrame DEF PassOverReference, FinishScan, FinishWalk, inputs, walk
<1>7. CASE Map
  BY <1>7, WalkInvFrame
     DEF Map, PassOverBodiless, WarnNoScript, WarnMappingFailed, MapNode, FinishPass,
         Consider, inputs, walk
<1>8. CASE UNCHANGED vars
  BY <1>8, WalkInvFrame DEF vars, inputs, walk
<1> QED
  BY <1>1, <1>2, <1>3, <1>4, <1>5, <1>6, <1>7, <1>8 DEF Next, Progress, Walk

\* What the walk keeps true of its queue, its nodes and its edges.
THEOREM WalkInvariant == Spec => []WalkInv
<1>1. Init => WalkInv
  BY InitWalkInv
<1>2. TypeOK /\ WalkInv /\ [Next]_vars => WalkInv'
  BY NextWalkInv
<1> QED
  BY <1>1, <1>2, TypeCorrect, PTL DEF Spec

\* Once the walk is over the root is a node, so the writer's assertion "graph
\* missing root node" cannot fail: it stays in the queue until it is visited.
THEOREM RootAlwaysPresent == Spec => []RootPresent
<1>1. WalkInv => RootPresent
  BY DEF WalkInv, RootTracked, Phases, RootPresent, WalkOver
<1> QED
  BY <1>1, WalkInvariant, PTL

\* `if key in nodes: continue` suffices for one visit of each object.
THEOREM EachVisitedOnce == Spec => []VisitedOnce
<1>1. WalkInv => VisitedOnce
  BY DEF WalkInv
<1> QED
  BY <1>1, WalkInvariant, PTL

\* No edge of a finished graph dangles, synonyms excepted: the target of every
\* edge is tracked in the queue until it is a node.
THEOREM EdgesAlwaysClosed == Spec => []EdgesClosed
<1>1. WalkInv => EdgesClosed
  <2> SUFFICES ASSUME WalkInv, WalkOver, NEW e \in edges
               PROVE  e[1] \in Nodes /\ (Type(e[1]) # "SYNONYM" => e[2] \in Nodes)
    BY DEF EdgesClosed
  <2>1. EdgeTracked(e) /\ DOMAIN queue = {}
    BY DEF WalkInv, Tracked, Phases, WalkOver
  <2>2. ASSUME Type(e[1]) # "SYNONYM" PROVE e[2] \in Nodes
    <3>1. PICK i \in DOMAIN nodes : nodes[i].ref = e[1]
      BY <2>1 DEF EdgeTracked, Nodes
    <3>2. FoundBelow(e[2], nodes[i].depth)
      BY <2>1, <2>2, <3>1 DEF EdgeTracked
    <3> QED
      BY <2>1, <3>2 DEF FoundBelow, Nodes
  <2> QED
    BY <2>1, <2>2 DEF EdgeTracked
<1> QED
  BY <1>1, WalkInvariant, PTL

\* Breadth first means shortest path: a node is at most one layer below every
\* object that references it, for every graph and every order of references.
THEOREM AlwaysShallowest == Spec => []ShallowestVisit
<1>1. TypeOK /\ WalkInv => ShallowestVisit
  <2> SUFFICES ASSUME TypeOK, WalkInv, NEW i \in DOMAIN nodes, NEW j \in DOMAIN nodes,
                      Type(nodes[i].ref) # "SYNONYM",
                      <<nodes[i].ref, nodes[j].ref>> \in edges
               PROVE  nodes[j].depth <= nodes[i].depth + 1
    BY DEF ShallowestVisit
  <2>1. FoundBelow(nodes[j].ref, nodes[i].depth)
    BY DEF WalkInv, Tracked, EdgeTracked
  <2>2. CASE \E k \in DOMAIN nodes :
               nodes[k].ref = nodes[j].ref /\ nodes[k].depth <= nodes[i].depth + 1
    BY <2>2 DEF WalkInv, VisitedOnce
  <2>3. CASE \E k \in DOMAIN queue :
               queue[k].ref = nodes[j].ref /\ queue[k].depth = nodes[i].depth + 1
    BY <2>3 DEF WalkInv, NodesAbove
  <2> QED
    BY <2>1, <2>2, <2>3 DEF FoundBelow
<1> QED
  BY <1>1, WalkInvariant, TypeCorrect, PTL
-----------------------------------------------------------------------------
(* The mapping pass: every node it has passed is accounted for, and every   *)
(* node carries the spec the pass has taken for it last.                    *)

Handled(ref) ==
  \/ ref \in mapped
  \/ <<"no script", ref>> \in warnings
  \/ <<"column mapping failed", ref>> \in warnings

AllHandled ==
  WalkOver => \A i \in DOMAIN nodes : i > todo /\ HasBody(nodes[i].ref) => Handled(nodes[i].ref)

\* The pass has been at every node it has mapped.
MappedPassed == \A i \in DOMAIN nodes : nodes[i].ref \in mapped => i > todo

UnstatedBare ==
  \A target \in Nodes :
    (\A ref \in mapped : Stated(ref, target) = {}) => synapse[target] = NoSpec

LastKept ==
  \A target \in Nodes, i \in DOMAIN nodes :
    \A k \in Stated(nodes[i].ref, target) :
      LastGiven(i, k, target) => synapse[target] = model.ctas[nodes[i].ref.obj][k].spec

SpecsKept == MappedPassed /\ UnstatedBare /\ LastKept

PassPhases ==
  /\ ~ WalkOver => mapped = {} /\ synapse = [r \in Ref |-> NoSpec]
  /\ Completed => todo = 0

PassInv == AllHandled /\ SpecsKept /\ PassPhases

\* Before the pass nothing is mapped and no node has a spec.
LEMMA NothingMappedYet ==
  ASSUME mapped = {}, synapse = [r \in Ref |-> NoSpec], Nodes \subseteq Ref
  PROVE  SpecsKept
  BY DEF SpecsKept, MappedPassed, UnstatedBare, LastKept, LastGiven

LEMMA NodesAreRefs == TypeOK => Nodes \subseteq Ref
<1> SUFFICES ASSUME TypeOK, NEW i \in DOMAIN nodes PROVE nodes[i].ref \in Ref
  BY DEF Nodes
<1>1. nodes[i] \in Entry
  BY DEF TypeOK
<1> QED
  BY <1>1 DEF Entry

LEMMA NodesAreRefsNext == TypeOK' => (Nodes \subseteq Ref)'
  BY NodesAreRefs, PTL

\* What the bookkeeping of the specs depends on.
LEMMA SpecsKeptFrame ==
  ASSUME SpecsKept, UNCHANGED <<model, nodes, mapped, synapse>>, todo' <= todo,
         todo \in Int, todo' \in Int, DOMAIN nodes \subseteq Int
  PROVE  SpecsKept'
<1>1. MappedPassed'
  BY DEF SpecsKept, MappedPassed
<1>2. UnstatedBare'
  BY DEF SpecsKept, UnstatedBare, Stated, Nodes
<1>3. LastKept'
  BY DEF SpecsKept, LastKept, LastGiven, Stated, Nodes
<1> QED
  BY <1>1, <1>2, <1>3 DEF SpecsKept

\* A step that leaves the pass alone keeps its invariant; the nodes may grow as
\* long as nothing is mapped.
LEMMA PassInvFrame ==
  ASSUME TypeOK, TypeOK', PassInv, UNCHANGED <<model, todo, mapped, synapse, warnings>>,
         \/ ~ WalkOver /\ ~ WalkOver'
         \/ nodes' = nodes /\ (pc' = pc \/ (pc = "map" /\ pc' = "write" /\ todo = 0))
  PROVE  PassInv'
<1>1. CASE ~ WalkOver /\ ~ WalkOver'
  <2>1. mapped' = {} /\ synapse' = [r \in Ref |-> NoSpec]
    BY <1>1 DEF PassInv, PassPhases
  <2>2. (Nodes \subseteq Ref)'
    BY NodesAreRefsNext
  <2>3. SpecsKept'
    BY ONLY <2>1, <2>2 DEF SpecsKept, MappedPassed, UnstatedBare, LastKept, LastGiven
  <2> QED
    BY <1>1, <2>1, <2>3 DEF PassInv, AllHandled, PassPhases, WalkOver, Completed
<1>2. CASE nodes' = nodes /\ (pc' = pc \/ (pc = "map" /\ pc' = "write" /\ todo = 0))
  <2>1. Nodes' = Nodes
    BY <1>2 DEF Nodes
  <2>2. AllHandled'
    BY <1>2 DEF PassInv, AllHandled, Handled, HasBody, Type, WalkOver
  <2>3. SpecsKept'
    BY <1>2, SpecsKeptFrame DEF PassInv, TypeOK
  <2>4. PassPhases'
    BY <1>2 DEF PassInv, PassPhases, WalkOver, Completed
  <2> QED
    BY <2>2, <2>3, <2>4 DEF PassInv
<1> QED
  BY <1>1, <1>2

\* Applying the specs of a body puts on each target that is a node the last one
\* stated for it, and leaves every other node as it was.
LEMMA CtasAppliedLast ==
  ASSUME NEW specs \in Seq(CtasSpec), NEW syn, NEW r \in Ref, r \in Nodes
  PROVE  /\ {i \in DOMAIN specs : specs[i].target = r} = {} => CtasApplied(specs, syn)[r] = syn[r]
         /\ \A k \in {i \in DOMAIN specs : specs[i].target = r} :
              (\A l \in {i \in DOMAIN specs : specs[i].target = r} : l <= k)
                => CtasApplied(specs, syn)[r] = specs[k].spec
<1> DEFINE hits == {i \in DOMAIN specs : specs[i].target = r}
<1>1. CtasApplied(specs, syn)[r] =
        IF hits # {} THEN specs[CHOOSE i \in hits : \A j \in hits : j <= i].spec ELSE syn[r]
  BY DEF CtasApplied
<1>2. hits \subseteq Nat
  OBVIOUS
<1> HIDE DEF hits
<1>3. ASSUME NEW k \in hits, \A l \in hits : l <= k
      PROVE  CtasApplied(specs, syn)[r] = specs[k].spec
  <2> DEFINE last == CHOOSE i \in hits : \A j \in hits : j <= i
  <2>1. last \in hits /\ \A j \in hits : j <= last
    BY <1>3
  <2>2. last = k
    <3> HIDE DEF last
    <3> QED
      BY <1>2, <1>3, <2>1
  <2> QED
    BY <1>1, <2>1, <2>2
<1> QED
  BY <1>1, <1>3 DEF hits

\* A step of the pass accounts for the node it is at.
LEMMA ConsiderKeeps ==
  ASSUME TypeOK, AllHandled, Consider, NEW at, at = Candidate,
         mapped \subseteq mapped', warnings \subseteq warnings',
         HasBody(at) => Handled(at)'
  PROVE  AllHandled'
<1>1. /\ pc = "map" /\ pc' = "map" /\ nodes' = nodes /\ model' = model /\ todo' = todo - 1
      /\ todo \in Nat /\ todo > 0
  BY DEF Consider, TypeOK, inputs, walk
<1> SUFFICES ASSUME NEW i \in DOMAIN nodes, i > todo', HasBody(nodes[i].ref)
             PROVE  Handled(nodes[i].ref)'
  BY <1>1 DEF AllHandled, HasBody, Type
<1>2. i \in Nat
  BY DEF TypeOK
<1>3. CASE i = todo
  <2>1. nodes[i].ref = at /\ HasBody(at)
    BY <1>3 DEF Candidate
  <2> QED
    BY <1>1, <2>1 DEF Handled
<1>4. CASE i > todo
  BY <1>1, <1>4 DEF AllHandled, Handled, WalkOver
<1> QED
  BY <1>1, <1>2, <1>3, <1>4

LEMMA NextPassInv ==
  ASSUME TypeOK, WalkInv, PassInv, [Next]_vars PROVE PassInv'
<1>0. TypeOK'
  BY NextTypeOK
<1>1. CASE PassOverBodiless \/ WarnNoScript \/ WarnMappingFailed
  <2>0. PICK at : at = Candidate
    OBVIOUS
  <2>1. /\ Consider /\ mapped' = mapped /\ synapse' = synapse /\ warnings \subseteq warnings'
        /\ HasBody(at) => Handled(at)'
    BY <1>1, <2>0 DEF PassOverBodiless, WarnNoScript, WarnMappingFailed, Handled
  <2>2. AllHandled'
    BY <2>0, <2>1, ConsiderKeeps DEF PassInv
  <2> QED
    <3>1. SpecsKept'
      BY <1>0, <2>1, SpecsKeptFrame DEF PassInv, Consider, inputs, walk, TypeOK
    <3> QED
      BY <2>1, <2>2, <3>1 DEF PassInv, PassPhases, WalkOver, Completed, Consider
<1>2. CASE MapNode
  <2>1. /\ Consider /\ mapped' = mapped \cup {Candidate} /\ warnings \subseteq warnings'
        /\ synapse' = CtasApplied(model.ctas[Candidate.obj], synapse)
        /\ pc = "map" /\ pc' = "map" /\ model' = model /\ nodes' = nodes /\ Nodes' = Nodes
    BY <1>2 DEF MapNode, Remapped, Consider, inputs, walk, Nodes
  <2>2. AllHandled'
    <3>0. PICK at : at = Candidate
      OBVIOUS
    <3>1. Handled(at)'
      BY <2>1, <3>0 DEF Handled
    <3> QED
      BY <2>1, <3>0, <3>1, ConsiderKeeps DEF PassInv
  <2>3. \A ref \in Nodes : model.ctas[ref.obj] \in Seq(CtasSpec)
    BY NodesAreRefs DEF TypeOK, ModelType, Ref
  <2>4. /\ todo \in DOMAIN nodes /\ Candidate \in Nodes /\ todo' = todo - 1
        /\ nodes[todo].ref = Candidate
        /\ \A j \in DOMAIN nodes : nodes[j].ref = Candidate => j = todo
        /\ \A i \in DOMAIN nodes : i \in Nat
    BY <2>1 DEF Consider, TypeOK, Candidate, Nodes, WalkInv, VisitedOnce
  <2>6. SpecsKept'
    <3>0. PICK at : at = Candidate
      OBVIOUS
    <3>1. MappedPassed'
      BY <2>1, <2>4 DEF PassInv, SpecsKept, MappedPassed
    <3>2. ASSUME NEW target \in Nodes
          PROVE  /\ Stated(at, target) = {} => synapse'[target] = synapse[target]
                 /\ \A k \in Stated(at, target) :
                      (\A l \in Stated(at, target) : l <= k)
                        => synapse'[target] = model.ctas[at.obj][k].spec
      <4>1. at \in Nodes /\ target \in Ref /\ model.ctas[at.obj] \in Seq(CtasSpec)
        BY <2>3, <2>4, <3>0, NodesAreRefs
      <4>2. synapse' = CtasApplied(model.ctas[at.obj], synapse)
        BY <2>1, <3>0
      <4> QED
        BY ONLY <4>1, <4>2, CtasAppliedLast DEF Stated
    <3>3. \A ref, target : Stated(ref, target)' = Stated(ref, target)
      BY <2>1 DEF Stated
    <3>4. UnstatedBare'
      <4> SUFFICES ASSUME NEW target \in Nodes, \A ref \in mapped' : Stated(ref, target) = {}
                   PROVE  synapse'[target] = NoSpec
        BY <2>1, <3>3 DEF UnstatedBare
      <4>1. Stated(at, target) = {} /\ \A ref \in mapped : Stated(ref, target) = {}
        BY <2>1, <3>0
      <4> QED
        BY <3>2, <4>1 DEF PassInv, SpecsKept, UnstatedBare
    <3>5. LastKept'
      <4> SUFFICES ASSUME NEW target \in Nodes, NEW i \in DOMAIN nodes,
                          NEW k \in Stated(nodes[i].ref, target), LastGiven(i, k, target)'
                   PROVE  synapse'[target] = model.ctas[nodes[i].ref.obj][k].spec
        BY <2>1, <3>3 DEF LastKept
      <4>1. /\ nodes[i].ref \in mapped \cup {at}
            /\ \A j \in DOMAIN nodes :
                 nodes[j].ref \in mapped \cup {at} =>
                   \A l \in Stated(nodes[j].ref, target) : i < j \/ (i = j /\ l <= k)
        BY <2>1, <3>0, <3>3 DEF LastGiven
      <4>2. CASE nodes[i].ref = at
        <5>1. \A l \in Stated(at, target) : l <= k
          BY <2>4, <3>0, <4>1, <4>2
        <5> QED
          BY <3>2, <4>2, <5>1
      <4>3. CASE nodes[i].ref \in mapped /\ nodes[i].ref # at
        <5>1. i > todo
          BY <4>3 DEF PassInv, SpecsKept, MappedPassed
        <5>2. Stated(at, target) = {}
          BY <2>4, <3>0, <4>1, <5>1
        <5>3. LastGiven(i, k, target)
          BY <4>1, <4>3 DEF LastGiven
        <5> QED
          BY <3>2, <5>2, <5>3 DEF PassInv, SpecsKept, LastKept
      <4> QED
        BY <4>1, <4>2, <4>3
    <3> QED
      BY <3>1, <3>4, <3>5 DEF SpecsKept
  <2>7. PassPhases'
    BY <2>1 DEF PassPhases, WalkOver, Completed
  <2> QED
    BY <2>2, <2>6, <2>7 DEF PassInv
<1>3. CASE FinishWalk
  <2>1. /\ nodes' = nodes /\ todo' = Len(nodes) /\ mapped' = {} /\ pc' = "map"
        /\ synapse' = [r \in Ref |-> NoSpec] /\ nodes \in Seq(Entry)
    BY <1>3 DEF FinishWalk, PassInv, PassPhases, WalkOver, TypeOK, walk
  <2>2. (Nodes \subseteq Ref)'
    BY <2>1, NodesAreRefs DEF Nodes
  <2>3. SpecsKept'
    BY ONLY <2>1, <2>2 DEF SpecsKept, MappedPassed, UnstatedBare, LastKept, LastGiven
  <2> QED
    BY <2>1, <2>3 DEF PassInv, AllHandled, PassPhases, WalkOver, Completed
<1>4. CASE FinishPass
  BY <1>0, <1>4, PassInvFrame DEF FinishPass, inputs, walk, pass
<1>5. CASE StartWalk \/ (Walk /\ ~ FinishWalk)
  <2>1. UNCHANGED <<model, pass>> /\ ~ WalkOver /\ ~ WalkOver'
    BY <1>5 DEF StartWalk, Walk, SkipVisited, VisitLeaf, VisitSynonym, VisitAtLimit,
                VisitAndExpand, Visit, PassOverReference, EnqueueReference, FinishScan,
                inputs, WalkOver
  <2> QED
    BY <1>0, <2>1, PassInvFrame DEF pass
<1>6. CASE RejectArguments \/ InitialiseClr \/ RootMissing \/ Abort \/ Succeed
           \/ WriteJson \/ WriteHtml
  <2>1. UNCHANGED <<model, pass, nodes>> /\ (pc' = pc \/ (~ WalkOver /\ ~ WalkOver'))
    BY <1>6 DEF RejectArguments, InitialiseClr, RootMissing, Abort, Succeed, WriteJson,
                WriteHtml, Exit, inputs, walk, WalkOver
  <2> QED
    BY <1>0, <2>1, PassInvFrame DEF pass
<1>7. CASE UNCHANGED vars
  BY <1>0, <1>7, PassInvFrame DEF vars, inputs, walk, pass
<1> QED
  BY <1>1, <1>2, <1>3, <1>4, <1>5, <1>6, <1>7 DEF Next, Progress, Map, Walk

LEMMA PassInvariant == Spec => []PassInv
<1>1. Init => PassInv
  <2> SUFFICES ASSUME Init PROVE PassInv
    OBVIOUS
  <2>1. SpecsKept
    BY NothingMappedYet, InitTypeOK, NodesAreRefs DEF Init
  <2> QED
    BY <2>1 DEF Init, PassInv, AllHandled, PassPhases, WalkOver, Completed
<1>2. TypeOK /\ WalkInv /\ PassInv /\ [Next]_vars => PassInv'
  BY NextPassInv
<1> QED
  BY <1>1, <1>2, WalkInvariant, TypeCorrect, PTL DEF Spec

\* Every view, procedure and function of a finished graph is mapped or named
\* in a warning, however its parse and its extraction went.
THEOREM GapsAreWarned == Spec => []NoSilentGap
<1>1. TypeOK /\ PassInv => NoSilentGap
  <2> SUFFICES ASSUME TypeOK, PassInv, Completed, NEW i \in DOMAIN nodes, HasBody(nodes[i].ref)
               PROVE  Handled(nodes[i].ref)
    BY DEF NoSilentGap, Handled, Nodes
  <2>1. WalkOver /\ todo = 0 /\ i \in Nat /\ i > 0
    BY DEF Completed, WalkOver, PassInv, PassPhases, TypeOK
  <2> QED
    BY <2>1 DEF PassInv, AllHandled
<1> QED
  BY <1>1, PassInvariant, TypeCorrect, PTL

\* In a completed graph every node carries the table specification the pass took
\* for it last, and no node carries one that no mapped body stated: the node
\* replacements before and after lose none and move none.
THEOREM SpecsAreRecorded == Spec => []CtasRecorded
<1>1. PassInv => CtasRecorded
  BY DEF PassInv, SpecsKept, UnstatedBare, LastKept, CtasRecorded
<1> QED
  BY <1>1, PassInvariant, PTL

-----------------------------------------------------------------------------
(* The exit code.                                                           *)

ExitInv ==
  /\ artifacts \subseteq request.formats
  /\ exit = 0 => request.formats \subseteq artifacts
  /\ exit \in {2, 3, 4} => pc \in {"cli", "find"}
  /\ pc # "write" => artifacts = {}
  /\ pc \in {"cli", "find"} => nodes = << >>

LEMMA NextExitInv ==
  ASSUME ExitInv, [Next]_vars PROVE ExitInv'
<1>1. CASE Running /\ (RejectArguments \/ InitialiseClr \/ RootMissing \/ Succeed \/ Abort)
  BY <1>1 DEF ExitInv, Running, NotExited, RejectArguments, InitialiseClr, RootMissing,
              Succeed, Abort, Exit, inputs, walk
<1>2. CASE Running /\ (StartWalk \/ Walk \/ Map)
  <2>1. CASE StartWalk \/ Walk
    <3>1. UNCHANGED <<exit, artifacts, request>> /\ pc # "write" /\ pc' \in {"bfs", "scan", "map"}
      BY <2>1 DEF StartWalk, Walk, SkipVisited, VisitLeaf, VisitSynonym, VisitAtLimit,
                  VisitAndExpand, Visit, PassOverReference, EnqueueReference, FinishScan,
                  FinishWalk, inputs
    <3> QED
      BY <1>2, <3>1 DEF ExitInv, Running, NotExited
  <2>2. CASE Map
    <3>1. UNCHANGED <<exit, artifacts, request>> /\ pc = "map" /\ pc' \in {"map", "write"}
      BY <2>2 DEF Map, PassOverBodiless, WarnNoScript, WarnMappingFailed, MapNode,
                  FinishPass, Consider, inputs
    <3> QED
      BY <1>2, <3>1 DEF ExitInv, Running, NotExited
  <2> QED
    BY <1>2, <2>1, <2>2
<1>3. CASE Running /\ (WriteJson \/ WriteHtml)
  BY <1>3 DEF ExitInv, Running, NotExited, WriteJson, WriteHtml, inputs, walk
<1>4. CASE UNCHANGED vars
  BY <1>4 DEF ExitInv, vars, inputs, walk
<1> QED
  BY <1>1, <1>2, <1>3, <1>4 DEF Next, Progress

\* Exit code 0 is reported only over complete artifacts; 2, 3 and 4 only when
\* nothing was written.
THEOREM ExitCodeIsTruthful == Spec => []ExitCodeTruthful
<1>1. Init => ExitInv
  BY DEF Init, ExitInv, NotExited
<1>2. ExitInv /\ [Next]_vars => ExitInv'
  BY NextExitInv
<1>3. ExitInv => ExitCodeTruthful
  BY DEF ExitInv, ExitCodeTruthful
<1> QED
  BY <1>1, <1>2, <1>3, PTL DEF Spec

\* The graph handed to the writers has its root, each object once, no dangling edge but
\* a synonym's, and every node at its shortest distance.
THEOREM WalkAlwaysSound == Spec => []WalkIsSound
<1>1. RootPresent /\ VisitedOnce /\ EdgesClosed /\ ShallowestVisit => WalkIsSound
  BY DEF WalkIsSound
<1> QED
  BY <1>1, RootAlwaysPresent, EachVisitedOnce, EdgesAlwaysClosed, AlwaysShallowest, PTL

-----------------------------------------------------------------------------
(* What holds of the walk beyond WalkInv.                                  *)

\* Where an entry comes from: it is the root, or one layer below a node that refers to it.
Below(e) ==
  \/ e.ref = RootRef /\ e.depth = 0
  \/ \E p \in DOMAIN nodes : /\ e.depth = nodes[p].depth + 1
                             /\ e.ref \in Followed(nodes[p].ref)

WithinLimit(e) == e.depth = 0 \/ request.max_depth = NoLimit \/ e.depth <= request.max_depth

\* What is queued was referred to, and nothing is queued below the limit.
QueueFounded == \A j \in DOMAIN queue : Below(queue[j]) /\ WithinLimit(queue[j])

\* A node is found at its distance, and there is one more node at each step of it.
NodesFounded ==
  \A i \in DOMAIN nodes :
    /\ nodes[i].depth < i
    /\ nodes[i].ref \in Ball[nodes[i].depth]
    /\ WithinLimit(nodes[i])

NodesSorted == \A i, j \in DOMAIN nodes : i <= j => nodes[i].depth <= nodes[j].depth

\* While references are enumerated, they are those of an object that may be expanded.
ScanFounded ==
  pc = "scan" =>
    /\ ~ IsLeaf(cur.ref) /\ ~ AtDepthLimit(cur.depth)
    /\ pending \subseteq model.refs[cur.ref.obj]

\* A node above the limit has an edge to all it refers to, but for what is still pending.
Expanded ==
  \A i \in DOMAIN nodes : \A o \in model.refs[nodes[i].ref.obj] :
    /\ ~ IsLeaf(nodes[i].ref) /\ Type(nodes[i].ref) # "SYNONYM"
    /\ ~ AtDepthLimit(nodes[i].depth) /\ Included(o)
    => \/ <<nodes[i].ref, RefTo(o)>> \in edges
       \/ pc = "scan" /\ i = Len(nodes) /\ o \in pending

ClosureInv == QueueFounded /\ NodesFounded /\ NodesSorted /\ ScanFounded /\ Expanded

-----------------------------------------------------------------------------
(* The reference definition.                                               *)

RefCount == Cardinality(Ref)
Wider(objects) == objects \cup UNION {Followed(r) : r \in objects}

LEMMA RefFinite == IsFiniteSet(Ref) /\ RefCount \in Nat
<1>1. IsFiniteSet(Databases \X Objects)
  BY FiniteAssumption, FS_Product
<1> DEFINE f == [p \in Databases \X Objects |-> [db |-> p[1], obj |-> p[2]]]
<1>2. f \in Surjection(Databases \X Objects, Ref)
  <2>1. ASSUME NEW r \in Ref PROVE <<r.db, r.obj>> \in Databases \X Objects /\ f[<<r.db, r.obj>>] = r
    BY DEF Ref
  <2>2. \A p \in Databases \X Objects : f[p] \in Ref
    BY DEF Ref
  <2> QED
    BY <2>1, <2>2 DEF Surjection
<1> QED
  BY <1>1, <1>2, FS_Surjection, FS_CardinalityType DEF RefCount

LEMMA FollowedType ==
  ASSUME TypeOK, NEW r \in Ref
  PROVE  Followed(r) \subseteq Ref
<1>1. r.obj \in Objects /\ model.refs[r.obj] \subseteq Objects
  BY DEF Ref, TypeOK, ModelType
<1> QED
  BY <1>1, RefToType DEF Followed

\* Ball is a choice of a function with its recursive equation; the ends of the walks of
\* each length make one.
LEMMA BallEquation ==
  ASSUME TypeOK
  PROVE  Ball = [k \in 0..RefCount |-> IF k = 0 THEN {RootRef} ELSE Wider(Ball[k-1])]
<1> DEFINE Step(g) == [k \in 0..RefCount |-> IF k = 0 THEN {RootRef} ELSE Wider(g[k-1])]
           Walks(k) == {f \in [0..k -> Ref] :
                          f[0] = RootRef /\ \A i \in 1..k : f[i] = f[i-1] \/ f[i] \in Followed(f[i-1])}
           ends == [k \in 0..RefCount |-> {f[k] : f \in Walks(k)}]
<1>1. Ball = CHOOSE g : g = Step(g)
  BY DEF Ball, Wider, RefCount
<1>2. RefCount \in Nat /\ RootRef \in Ref
  BY RefFinite DEF TypeOK, RootRef, Ref, RequestType
<1>3. ends[0] = {RootRef}
  <2>1. [i \in 0..0 |-> RootRef] \in Walks(0) /\ [i \in 0..0 |-> RootRef][0] = RootRef
    BY <1>2
  <2>2. \A f \in Walks(0) : f[0] = RootRef
    OBVIOUS
  <2>3. ends[0] = {f[0] : f \in Walks(0)}
    BY <1>2
  <2> QED
    BY <2>1, <2>2, <2>3
<1>4. ASSUME NEW k \in 0..RefCount, k # 0 PROVE ends[k] = Wider(ends[k-1])
  <2>1. k - 1 \in 0..RefCount /\ k \in Nat /\ k - 1 \in Nat
    BY <1>2, <1>4
  <2>2. /\ ends[k] = {f[k] : f \in Walks(k)}
        /\ ends[k-1] = {f[k-1] : f \in Walks(k-1)}
    BY <2>1
  <2>3. ASSUME NEW r \in ends[k] PROVE r \in Wider(ends[k-1])
    <3>1. PICK f \in Walks(k) : r = f[k]
      BY <2>2
    <3> DEFINE g == [i \in 0..(k-1) |-> f[i]]
    <3>2. g \in Walks(k-1) /\ g[k-1] = f[k-1]
      BY <2>1, <3>1
    <3>3. f[k] = f[k-1] \/ f[k] \in Followed(f[k-1])
      BY <1>4, <2>1, <3>1
    <3>4. f[k-1] \in ends[k-1]
      BY <2>2, <3>2
    <3> QED
      BY <3>1, <3>3, <3>4 DEF Wider
  <2>4. ASSUME NEW r \in Wider(ends[k-1]) PROVE r \in ends[k]
    <3>1. PICK s \in ends[k-1] : r = s \/ r \in Followed(s)
      BY DEF Wider
    <3>2. PICK f \in Walks(k-1) : s = f[k-1]
      BY <2>2
    <3>3. s \in Ref /\ r \in Ref
      BY <2>1, <3>1, <3>2, FollowedType
    <3> DEFINE g == [i \in 0..k |-> IF i = k THEN r ELSE f[i]]
    <3>4. g \in [0..k -> Ref] /\ g[0] = RootRef /\ g[k] = r
      BY <1>4, <2>1, <3>2, <3>3
    <3>5. ASSUME NEW i \in 1..k PROVE g[i] = g[i-1] \/ g[i] \in Followed(g[i-1])
      <4>1. CASE i = k
        BY <2>1, <3>1, <3>2, <4>1
      <4>2. CASE i # k
        <5>1. i \in 1..(k-1) /\ g[i] = f[i] /\ g[i-1] = f[i-1]
          BY <2>1, <4>2
        <5> QED
          BY <3>2, <5>1
      <4> QED
        BY <4>1, <4>2
    <3>6. g \in Walks(k)
      BY <3>4, <3>5
    <3> QED
      BY <2>2, <3>4, <3>6
  <2> QED
    BY <2>3, <2>4
<1> HIDE DEF ends
<1>5. ends = Step(ends)
  <2>1. ends = [k \in 0..RefCount |-> ends[k]]
    BY DEF ends
  <2> QED
    BY <1>3, <1>4, <2>1
<1> HIDE DEF Step
<1>6. Ball = Step(Ball)
  BY <1>1, <1>5
<1> QED
  BY <1>6 DEF Step

LEMMA BallSteps ==
  ASSUME TypeOK
  PROVE  /\ Ball[0] = {RootRef}
         /\ \A k \in 0..RefCount : k # 0 => Ball[k] = Wider(Ball[k-1])
<1>1. RefCount \in Nat
  BY RefFinite
<1> QED
  BY <1>1, BallEquation

LEMMA LeastOf ==
  ASSUME NEW S \in SUBSET Nat, S # {}
  PROVE  \E n \in S : \A m \in S : n <= m
<1>1. PICK n \in S : \A m \in S : <<m, n>> \notin OpToRel(<, Nat)
  BY NatLessThanWellFounded, WFMin
<1>2. \A m \in S : m \in Nat /\ n \in Nat
  OBVIOUS
<1>3. \A m \in S : ~ (m < n)
  BY <1>1, <1>2 DEF OpToRel
<1> QED
  BY <1>2, <1>3

\* Farther means no less.
LEMMA BallGrows ==
  ASSUME TypeOK, NEW k \in 0..RefCount, NEW m \in 0..k
  PROVE  Ball[m] \subseteq Ball[k]
<1> DEFINE bad == {n \in m..k : ~ (Ball[m] \subseteq Ball[n])}
<1>1. RefCount \in Nat
  BY RefFinite
<1>2. SUFFICES ASSUME bad # {} PROVE FALSE
  BY <1>1
<1>3. PICK n \in bad : \A i \in bad : n <= i
  <2>1. bad \in SUBSET Nat
    BY <1>1
  <2> HIDE DEF bad
  <2> QED
    BY <1>2, <2>1, LeastOf
<1>4. n # m /\ n - 1 \in m..k /\ n \in 0..RefCount /\ n # 0 /\ ~ (n <= n - 1)
  BY <1>1, <1>3
<1>5. Ball[m] \subseteq Ball[n-1]
  BY <1>3, <1>4
<1>6. Ball[n-1] \subseteq Ball[n]
  BY <1>4, BallSteps DEF Wider
<1> QED
  BY <1>3, <1>5, <1>6

\* The problem never changes.
LEMMA InputsKept ==
  ASSUME UNCHANGED inputs
  PROVE  /\ RootRef' = RootRef /\ Ball' = Ball
         /\ \A r : Followed(r)' = Followed(r)
<1>1. model' = model /\ request' = request
  BY DEF inputs
<1>2. RootRef' = RootRef
  BY <1>1 DEF RootRef
<1>3. ASSUME NEW r PROVE Followed(r)' = Followed(r)
  BY <1>1 DEF Followed, IsLeaf, Type, RefTo, Included
<1>4. Ball' = Ball
  BY <1>1, <1>2 DEF Ball, Followed, IsLeaf, Type, RefTo, Included
<1> QED
  BY <1>2, <1>3, <1>4

-----------------------------------------------------------------------------
(* ClosureInv is inductive relative to TypeOK and WalkInv.                  *)

\* A step that leaves queue, nodes and edges alone, and enumerates nothing.
LEMMA ClosureInvFrame ==
  ASSUME ClosureInv, UNCHANGED <<inputs, queue, cur, nodes, edges>>,
         \/ pc' = pc /\ pending' = pending
         \/ pc # "scan" /\ pc' # "scan"
         \/ pc = "scan" /\ pending = {} /\ pc' = "bfs"
  PROVE  ClosureInv'
<1>1. model' = model /\ request' = request
  BY DEF inputs
<1>2. QueueFounded'
  BY InputsKept DEF ClosureInv, QueueFounded, Below, WithinLimit, inputs
<1>3. NodesFounded' /\ NodesSorted'
  BY InputsKept DEF ClosureInv, NodesFounded, NodesSorted, WithinLimit, inputs
<1>4. ScanFounded'
  BY <1>1 DEF ClosureInv, ScanFounded, IsLeaf, Type, AtDepthLimit
<1>5. Expanded'
  BY <1>1 DEF ClosureInv, Expanded, IsLeaf, Type, AtDepthLimit, Included, RefTo
<1> QED
  BY <1>2, <1>3, <1>4, <1>5 DEF ClosureInv

LEMMA PassOverKeepsClosureInv ==
  ASSUME ClosureInv, PassOverReference PROVE ClosureInv'
<1>1. PICK o \in pending : ~ Included(o) /\ pending' = pending \ {o}
  BY DEF PassOverReference
<1>2. /\ pc = "scan" /\ pc' = "scan" /\ model' = model /\ request' = request
      /\ UNCHANGED <<inputs, queue, cur, nodes, edges>>
  BY DEF PassOverReference, inputs
<1>3. QueueFounded'
  BY <1>2, InputsKept DEF ClosureInv, QueueFounded, Below, WithinLimit
<1>4. NodesFounded' /\ NodesSorted'
  BY <1>2, InputsKept DEF ClosureInv, NodesFounded, NodesSorted, WithinLimit
<1>5. ScanFounded'
  BY <1>1, <1>2 DEF ClosureInv, ScanFounded, IsLeaf, Type, AtDepthLimit
<1>6. Expanded'
  BY <1>1, <1>2 DEF ClosureInv, Expanded, IsLeaf, Type, AtDepthLimit, Included, RefTo
<1> QED
  BY <1>3, <1>4, <1>5, <1>6 DEF ClosureInv

LEMMA EnqueueKeepsClosureInv ==
  ASSUME TypeOK, WalkInv, ClosureInv, EnqueueReference PROVE ClosureInv'
<1>1. PICK o \in pending :
        /\ Included(o) /\ pending' = pending \ {o}
        /\ edges' = edges \cup {<<cur.ref, RefTo(o)>>}
        /\ queue' = Append(queue, [ref |-> RefTo(o), depth |-> cur.depth + 1])
  BY DEF EnqueueReference, Enqueued
<1>2. /\ pc = "scan" /\ pc' = "scan" /\ model' = model /\ request' = request
      /\ UNCHANGED <<inputs, cur, nodes>>
  BY DEF EnqueueReference, inputs
<1>a. PICK entry : entry = [ref |-> RefTo(o), depth |-> cur.depth + 1]
  BY Zenon
<1>3. /\ entry = [ref |-> RefTo(o), depth |-> cur.depth + 1]
      /\ entry.ref = RefTo(o) /\ entry.depth = cur.depth + 1
  BY <1>a
<1>4. /\ Len(nodes) \in DOMAIN nodes /\ nodes[Len(nodes)] = cur
      /\ ~ IsLeaf(cur.ref) /\ Type(cur.ref) # "SYNONYM" /\ ~ AtDepthLimit(cur.depth)
      /\ o \in model.refs[cur.ref.obj]
  BY <1>1, <1>2 DEF WalkInv, Scanning, ClosureInv, ScanFounded
<1>5. \A j \in DOMAIN queue' : (j \in DOMAIN queue /\ queue'[j] = queue[j]) \/ queue'[j] = entry
  <2>1. queue \in Seq(Entry) /\ queue' = Append(queue, entry)
    BY <1>1, <1>3 DEF TypeOK
  <2> QED
    BY ONLY <2>1
<1>6. Below(entry) /\ WithinLimit(entry)
  <2>1. entry.ref \in Followed(nodes[Len(nodes)].ref)
    BY <1>1, <1>3, <1>4 DEF Followed
  <2>2. cur.depth \in Nat /\ request.max_depth \in Int \cup {NoLimit}
    BY EntryFacts DEF TypeOK, RequestType
  <2>3. WithinLimit(entry)
    BY <1>3, <1>4, <2>2 DEF WithinLimit, AtDepthLimit
  <2>4. Below(entry)
    BY <1>3, <1>4, <2>1 DEF Below
  <2> QED
    BY <2>3, <2>4
<1>7. QueueFounded'
  <2>1. ASSUME NEW j \in DOMAIN queue' PROVE Below(queue'[j]) /\ WithinLimit(queue'[j])
    BY <1>5, <1>6 DEF ClosureInv, QueueFounded
  <2> QED
    BY <2>1, <1>2, InputsKept DEF QueueFounded, Below, WithinLimit
<1>8. NodesFounded' /\ NodesSorted'
  BY <1>2, InputsKept DEF ClosureInv, NodesFounded, NodesSorted, WithinLimit
<1>9. ScanFounded'
  BY <1>1, <1>2 DEF ClosureInv, ScanFounded, IsLeaf, Type, AtDepthLimit
<1>10. Expanded'
  BY <1>1, <1>2, <1>4 DEF ClosureInv, Expanded, IsLeaf, Type, AtDepthLimit, Included, RefTo
<1> QED
  BY <1>7, <1>8, <1>9, <1>10 DEF ClosureInv

\* There are no more nodes than keys.
LEMMA NodesCount ==
  ASSUME TypeOK, VisitedOnce
  PROVE  Len(nodes) \in Nat /\ Len(nodes) <= RefCount
<1>1. nodes \in Seq(Entry)
  BY DEF TypeOK
<1>2. Len(nodes) \in Nat /\ DOMAIN nodes = 1..Len(nodes)
  BY ONLY <1>1
<1> DEFINE key == [i \in 1..Len(nodes) |-> nodes[i].ref]
<1>3. \A i \in 1..Len(nodes) : nodes[i].ref \in Ref
  <2>1. \A i \in 1..Len(nodes) : nodes[i] \in Entry
    BY ONLY <1>1
  <2> QED
    BY ONLY <2>1 DEF Entry
<1>4. key \in Injection(1..Len(nodes), Ref)
  BY <1>2, <1>3 DEF Injection, IsInjective, VisitedOnce
<1>5. Cardinality(1..Len(nodes)) <= RefCount
  BY <1>4, RefFinite, FS_Injection DEF RefCount
<1>6. Cardinality(1..Len(nodes)) = Len(nodes)
  <2>1. 1 \in Int /\ Len(nodes) \in Int
    BY <1>2
  <2>2. Cardinality(1..Len(nodes)) = IF 1 > Len(nodes) THEN 0 ELSE Len(nodes) - 1 + 1
    BY ONLY <2>1, FS_Interval
  <2> QED
    BY <1>2, <2>2
<1> QED
  BY <1>2, <1>5, <1>6

\* The head of the queue stands within the reference definition, at its own depth.
LEMMA FrontFounded ==
  ASSUME TypeOK, WalkInv, ClosureInv, queue # << >>
  PROVE  /\ Front \in Entry /\ Front.depth \in Nat /\ Front.depth <= Len(nodes)
         /\ Front.ref \in Ball[Front.depth] /\ WithinLimit(Front) /\ Below(Front)
<1>1. Front \in Entry /\ Front = queue[1] /\ 1 \in DOMAIN queue
  BY QueueTail DEF Front, TypeOK
<1>2. Below(Front) /\ WithinLimit(Front)
  BY <1>1 DEF ClosureInv, QueueFounded
<1>3. Len(nodes) \in Nat /\ Len(nodes) <= RefCount /\ RefCount \in Nat
  BY NodesCount, RefFinite DEF WalkInv
<1>4. CASE Front.ref = RootRef /\ Front.depth = 0
  BY <1>1, <1>2, <1>3, <1>4, BallSteps
<1>5. CASE \E p \in DOMAIN nodes : /\ Front.depth = nodes[p].depth + 1
                                   /\ Front.ref \in Followed(nodes[p].ref)
  <2>1. PICK p \in DOMAIN nodes : /\ Front.depth = nodes[p].depth + 1
                                  /\ Front.ref \in Followed(nodes[p].ref)
    BY <1>5
  <2>2. nodes[p].depth < p /\ nodes[p].ref \in Ball[nodes[p].depth] /\ nodes[p].depth \in Nat
    BY EntryFacts DEF ClosureInv, NodesFounded
  <2>3. p \in Nat /\ p <= Len(nodes)
    <3>1. nodes \in Seq(Entry)
      BY DEF TypeOK
    <3> QED
      BY ONLY <3>1, p \in DOMAIN nodes
  <2>4. /\ Front.depth \in 0..RefCount /\ Front.depth # 0 /\ Front.depth - 1 = nodes[p].depth
        /\ Front.depth <= Len(nodes)
    BY <1>3, <2>1, <2>2, <2>3
  <2>5. Front.ref \in Wider(Ball[Front.depth - 1])
    BY <2>1, <2>2, <2>4 DEF Wider
  <2>6. Front.ref \in Ball[Front.depth]
    BY <2>4, <2>5, BallSteps
  <2> QED
    BY <1>1, <1>2, <2>4, <2>6
<1> QED
  BY <1>2, <1>4, <1>5 DEF Below

\* Popping the head leaves what the other entries stand on.
LEMMA TailFounded ==
  ASSUME TypeOK, ClosureInv, queue # << >>, queue' = Tail(queue), UNCHANGED inputs,
         DOMAIN nodes \subseteq DOMAIN nodes',
         \A i \in DOMAIN nodes : nodes'[i] = nodes[i]
  PROVE  QueueFounded'
<1>1. queue \in Seq(Entry)
  BY DEF TypeOK
<1>2. \A j \in DOMAIN queue' : j + 1 \in DOMAIN queue /\ queue'[j] = queue[j+1]
  BY <1>1, QueueTail
<1>3. ASSUME NEW j \in DOMAIN queue' PROVE Below(queue'[j]) /\ WithinLimit(queue'[j])
  BY <1>2 DEF ClosureInv, QueueFounded
<1>4. request' = request
  BY DEF inputs
<1>5. ASSUME NEW j \in DOMAIN queue' PROVE Below(queue[j])'
  <2>1. CASE queue'[j].ref = RootRef /\ queue'[j].depth = 0
    BY <2>1, InputsKept DEF Below
  <2>2. CASE \E p \in DOMAIN nodes : /\ queue'[j].depth = nodes[p].depth + 1
                                     /\ queue'[j].ref \in Followed(nodes[p].ref)
    <3>1. PICK p \in DOMAIN nodes : /\ queue'[j].depth = nodes[p].depth + 1
                                    /\ queue'[j].ref \in Followed(nodes[p].ref)
      BY <2>2
    <3>2. p \in DOMAIN nodes' /\ nodes'[p] = nodes[p]
      OBVIOUS
    <3>3. Followed(nodes[p].ref)' = Followed(nodes[p].ref)
      BY <3>2, InputsKept
    <3> QED
      BY <3>1, <3>2, <3>3 DEF Below
  <2> QED
    BY <1>3, <2>1, <2>2 DEF Below
<1> QED
  BY <1>3, <1>4, <1>5 DEF QueueFounded, WithinLimit

\* What every visit does, whether the object is then expanded or not.
LEMMA VisitKeepsClosureInv ==
  ASSUME TypeOK, WalkInv, ClosureInv, Visit,
         \/ /\ pc' = "bfs" /\ edges \subseteq edges'
            /\ IsLeaf(Front.ref) \/ Type(Front.ref) = "SYNONYM" \/ AtDepthLimit(Front.depth)
         \/ /\ pc' = "scan" /\ cur' = Front /\ pending' = model.refs[Front.ref.obj]
            /\ ~ IsLeaf(Front.ref) /\ ~ AtDepthLimit(Front.depth) /\ edges' = edges
  PROVE  ClosureInv'
<1>1. /\ pc = "bfs" /\ queue # << >> /\ queue' = Tail(queue) /\ nodes' = Append(nodes, Front)
      /\ model' = model /\ request' = request /\ UNCHANGED inputs
  BY DEF Visit, inputs
<1>2. PICK entry : entry = Front
  OBVIOUS
<1>3. /\ entry \in Entry /\ entry.depth \in Nat /\ entry.depth <= Len(nodes)
      /\ entry.ref \in Ball[entry.depth] /\ WithinLimit(entry)
  BY <1>1, <1>2, FrontFounded
<1>4. /\ Len(nodes) \in Nat /\ DOMAIN nodes = 1..Len(nodes)
      /\ Len(nodes') = Len(nodes) + 1 /\ DOMAIN nodes' = 1..(Len(nodes) + 1)
      /\ \A i \in DOMAIN nodes : nodes'[i] = nodes[i]
      /\ nodes'[Len(nodes) + 1] = entry
  <2>1. nodes \in Seq(Entry) /\ nodes' = Append(nodes, entry)
    BY <1>1, <1>2 DEF TypeOK
  <2> QED
    BY ONLY <2>1, <1>3
<1>5. QueueFounded'
  BY <1>1, <1>4, TailFounded
<1>6. \A i \in DOMAIN nodes' : i \in DOMAIN nodes \/ i = Len(nodes')
  BY <1>4
<1>7. NodesFounded'
  <2>1. ASSUME NEW i \in DOMAIN nodes'
        PROVE  nodes'[i].depth < i /\ nodes'[i].ref \in Ball[nodes'[i].depth] /\ WithinLimit(nodes'[i])
    <3>1. CASE i \in DOMAIN nodes
      BY <1>4, <3>1 DEF ClosureInv, NodesFounded
    <3>2. CASE i = Len(nodes')
      BY <1>3, <1>4, <3>2
    <3> QED
      BY <1>6, <3>1, <3>2
  <2> QED
    BY <1>1, <2>1, InputsKept DEF NodesFounded, WithinLimit
<1>8. NodesSorted'
  <2>1. \A i \in DOMAIN nodes : nodes[i].depth <= entry.depth
    BY <1>1, <1>2, QueueTail DEF WalkInv, NodesAbove, Front, TypeOK
  <2>2. ASSUME NEW i \in DOMAIN nodes', NEW j \in DOMAIN nodes', i <= j
        PROVE  nodes'[i].depth <= nodes'[j].depth
    <3>1. CASE j = Len(nodes')
      BY <1>3, <1>4, <1>6, <2>1, <3>1
    <3>2. CASE j \in DOMAIN nodes
      <4>1. i \in DOMAIN nodes
        BY <1>4, <2>2, <3>2
      <4> QED
        BY <1>4, <2>2, <3>2, <4>1 DEF ClosureInv, NodesSorted
    <3> QED
      BY <1>6, <3>1, <3>2
  <2> QED
    BY <2>2 DEF NodesSorted
<1>9. ScanFounded'
  BY <1>1 DEF ScanFounded, IsLeaf, Type, AtDepthLimit
<1>10. Expanded'
  <2>1. ASSUME NEW i \in DOMAIN nodes', NEW o \in model.refs[nodes'[i].ref.obj],
               ~ IsLeaf(nodes'[i].ref), Type(nodes'[i].ref) # "SYNONYM",
               ~ AtDepthLimit(nodes'[i].depth), Included(o)
        PROVE  \/ <<nodes'[i].ref, RefTo(o)>> \in edges'
               \/ pc' = "scan" /\ i = Len(nodes') /\ o \in pending'
    <3>1. CASE i \in DOMAIN nodes
      <4>1. <<nodes[i].ref, RefTo(o)>> \in edges
        BY <1>1, <1>4, <2>1, <3>1 DEF ClosureInv, Expanded
      <4>2. edges \subseteq edges' /\ nodes'[i] = nodes[i]
        BY <1>4, <3>1
      <4> QED
        BY <4>1, <4>2
    <3>2. CASE i = Len(nodes')
      <4>1. nodes'[i] = Front
        BY <1>2, <1>4, <3>2
      <4>2. ~ IsLeaf(Front.ref) /\ Type(Front.ref) # "SYNONYM" /\ ~ AtDepthLimit(Front.depth)
            /\ o \in model.refs[Front.ref.obj]
        BY <2>1, <4>1
      <4>3. pc' = "scan" /\ pending' = model.refs[Front.ref.obj]
        BY <4>2
      <4> QED
        BY <3>2, <4>2, <4>3
    <3> QED
      BY <1>6, <3>1, <3>2
  <2> QED
    BY <1>1, <2>1 DEF Expanded, IsLeaf, Type, AtDepthLimit, Included, RefTo
<1> QED
  BY <1>5, <1>7, <1>8, <1>9, <1>10 DEF ClosureInv

LEMMA SkipKeepsClosureInv ==
  ASSUME TypeOK, ClosureInv, SkipVisited PROVE ClosureInv'
<1>1. /\ pc = "bfs" /\ pc' = "bfs" /\ queue # << >> /\ queue' = Tail(queue)
      /\ model' = model /\ request' = request /\ UNCHANGED <<inputs, cur, pending, nodes, edges>>
  BY DEF SkipVisited, inputs
<1>2. QueueFounded'
  BY <1>1, TailFounded
<1>3. NodesFounded' /\ NodesSorted'
  BY <1>1, InputsKept DEF ClosureInv, NodesFounded, NodesSorted, WithinLimit
<1>4. ScanFounded'
  BY <1>1 DEF ScanFounded
<1>5. Expanded'
  BY <1>1 DEF ClosureInv, Expanded, IsLeaf, Type, AtDepthLimit, Included, RefTo
<1> QED
  BY <1>2, <1>3, <1>4, <1>5 DEF ClosureInv

\* No node and no edge yet, and nothing queued but the root.
LEMMA StartKeepsClosureInv ==
  ASSUME WalkInv, StartWalk PROVE ClosureInv'
<1>1. /\ pc' = "bfs" /\ queue' = << [ref |-> RootRef, depth |-> 0] >> /\ nodes' = << >>
      /\ UNCHANGED inputs
  BY DEF StartWalk, WalkInv, Phases
<1>2. \A j \in DOMAIN queue' : queue'[j].ref = RootRef /\ queue'[j].depth = 0
  BY <1>1
<1>3. QueueFounded'
  BY <1>1, <1>2, InputsKept DEF QueueFounded, Below, WithinLimit
<1>4. DOMAIN nodes' = {}
  BY <1>1
<1> QED
  BY <1>1, <1>3, <1>4 DEF ClosureInv, NodesFounded, NodesSorted, ScanFounded, Expanded

LEMMA NextClosureInv ==
  ASSUME TypeOK, WalkInv, ClosureInv, [Next]_vars PROVE ClosureInv'
<1>1. CASE SkipVisited
  BY <1>1, SkipKeepsClosureInv
<1>2. CASE VisitLeaf \/ VisitSynonym \/ VisitAtLimit \/ VisitAndExpand
  BY <1>2, VisitKeepsClosureInv DEF VisitLeaf, VisitSynonym, VisitAtLimit, VisitAndExpand, Visit
<1>3. CASE EnqueueReference
  BY <1>3, EnqueueKeepsClosureInv
<1>4. CASE StartWalk
  BY <1>4, StartKeepsClosureInv
<1>5. CASE RejectArguments \/ InitialiseClr \/ RootMissing \/ Abort \/ Succeed
           \/ WriteJson \/ WriteHtml
  BY <1>5, ClosureInvFrame
     DEF RejectArguments, InitialiseClr, RootMissing, Abort, Succeed, WriteJson, WriteHtml,
         Exit, inputs, walk
<1>6. CASE PassOverReference
  BY <1>6, PassOverKeepsClosureInv
<1>7. CASE FinishScan \/ FinishWalk
  BY <1>7, ClosureInvFrame DEF FinishScan, FinishWalk, inputs, walk
<1>8. CASE Map
  BY <1>8, ClosureInvFrame
     DEF Map, PassOverBodiless, WarnNoScript, WarnMappingFailed, MapNode, FinishPass,
         Consider, inputs, walk
<1>9. CASE UNCHANGED vars
  BY <1>9, ClosureInvFrame DEF vars, inputs, walk
<1> QED
  BY <1>1, <1>2, <1>3, <1>4, <1>5, <1>6, <1>7, <1>8, <1>9 DEF Next, Progress, Walk

\* Every queued entry was referred to from the layer above it, every node stands at a
\* distance the reference definition gives it, and what may be expanded has been.
THEOREM ClosureInvariant == Spec => []ClosureInv
<1>1. Init => ClosureInv
  <2> SUFFICES ASSUME Init PROVE ClosureInv
    OBVIOUS
  <2>1. DOMAIN queue = {} /\ DOMAIN nodes = {} /\ pc = "cli"
    BY DEF Init
  <2> QED
    BY <2>1 DEF ClosureInv, QueueFounded, NodesFounded, NodesSorted, ScanFounded, Expanded
<1>2. TypeOK /\ WalkInv /\ ClosureInv /\ [Next]_vars => ClosureInv'
  BY NextClosureInv
<1> QED
  BY <1>1, <1>2, TypeCorrect, WalkInvariant, PTL DEF Spec

-----------------------------------------------------------------------------
(* The nodes of a finished graph are the objects in reach.                  *)

LEMMA RadiusBounds ==
  ASSUME TypeOK
  PROVE  /\ Radius \in 0..RefCount
         /\ \A d \in Nat : d < Radius => ~ AtDepthLimit(d)
         /\ \A e \in Entry : e.depth <= RefCount /\ WithinLimit(e) => e.depth \in 0..Radius
<1>1. RefCount \in Nat /\ request.max_depth \in Int \cup {NoLimit} /\ NoLimit \notin Int
  BY RefFinite, InputsAssumption DEF TypeOK, RequestType
<1>2. CASE request.max_depth = NoLimit
  <2>1. Radius = RefCount
    BY <1>2 DEF Radius, RefCount
  <2> QED
    BY <1>1, <1>2, <2>1 DEF AtDepthLimit, Entry
<1>3. CASE request.max_depth # NoLimit
  <2>1. PICK d : d = request.max_depth
    OBVIOUS
  <2>2. Radius = IF d < 0 THEN 0 ELSE IF d > RefCount THEN RefCount ELSE d
    BY <1>3, <2>1 DEF Radius, RefCount
  <2>3. d \in Int
    BY <1>1, <1>3, <2>1
  <2>4. \A e \in Entry : e.depth \in Nat
    BY DEF Entry
  <2> QED
    BY <1>1, <1>3, <2>1, <2>2, <2>3, <2>4 DEF AtDepthLimit, WithinLimit
<1> QED
  BY <1>2, <1>3

LEMMA NodesInReach ==
  ASSUME TypeOK, WalkInv, ClosureInv
  PROVE  Nodes \subseteq Ball[Radius]
<1>1. SUFFICES ASSUME NEW i \in DOMAIN nodes PROVE nodes[i].ref \in Ball[Radius]
  BY DEF Nodes
<1>2. nodes[i] \in Entry /\ nodes[i].depth \in Nat
  BY EntryFacts
<1>3. nodes[i].depth < i /\ nodes[i].ref \in Ball[nodes[i].depth] /\ WithinLimit(nodes[i])
  BY DEF ClosureInv, NodesFounded
<1>4. i \in Nat /\ i <= RefCount /\ RefCount \in Nat
  <2>1. nodes \in Seq(Entry)
    BY DEF TypeOK
  <2>2. i \in Nat /\ i <= Len(nodes)
    BY ONLY <2>1, i \in DOMAIN nodes
  <2> QED
    BY <2>2, NodesCount, RefFinite DEF WalkInv
<1>5. nodes[i].depth <= RefCount
  BY <1>2, <1>3, <1>4
<1>6. nodes[i].depth \in 0..Radius /\ Radius \in 0..RefCount
  BY <1>2, <1>3, <1>5, RadiusBounds
<1> QED
  BY <1>3, <1>6, BallGrows

\* By the least distance at which an object would be missed: its parent was not, stood
\* above the limit, and an expanded node's references were queued and visited.
LEMMA ReachInNodes ==
  ASSUME TypeOK, WalkInv, ClosureInv, WalkOver
  PROVE  Ball[Radius] \subseteq Nodes
<1> DEFINE Seen(r, k) == \E i \in DOMAIN nodes : nodes[i].ref = r /\ nodes[i].depth <= k
           bad == {k \in 0..Radius : \E r \in Ball[k] : ~ Seen(r, k)}
<1>1. Radius \in 0..RefCount /\ RefCount \in Nat /\ Radius \in Nat
  BY RadiusBounds, RefFinite
<1>2. SUFFICES ASSUME bad # {} PROVE FALSE
  BY <1>1 DEF Nodes
<1>3. PICK k \in bad : \A m \in bad : k <= m
  <2>1. bad \in SUBSET Nat
    BY <1>1
  <2> HIDE DEF bad
  <2> QED
    BY <1>2, <2>1, LeastOf
<1>4. k \in 0..Radius /\ k \in Nat
  BY <1>1
<1>5. PICK r \in Ball[k] : ~ Seen(r, k)
  BY <1>3
<1>6. CASE k = 0
  <2>1. r = RootRef
    BY <1>5, <1>6, BallSteps
  <2>2. DOMAIN nodes # {}
    BY DEF WalkInv, RootTracked, Phases, WalkOver, Nodes
  <2>3. 1 \in DOMAIN nodes
    <3>1. nodes \in Seq(Entry)
      BY DEF TypeOK
    <3> QED
      BY ONLY <2>2, <3>1
  <2>4. nodes[1].depth < 1 /\ nodes[1].ref \in Ball[nodes[1].depth] /\ nodes[1].depth \in Nat
    BY <2>3, EntryFacts DEF ClosureInv, NodesFounded
  <2>5. nodes[1].depth = 0
    BY <2>4
  <2>6. nodes[1].ref = RootRef
    BY <2>4, <2>5, BallSteps
  <2> QED
    BY <1>5, <1>6, <2>1, <2>3, <2>5, <2>6
<1>7. CASE k # 0
  <2>1. k - 1 \in 0..Radius /\ ~ (k <= k - 1) /\ k \in 0..RefCount /\ k - 1 \in Nat /\ k - 1 < Radius
    BY <1>1, <1>4, <1>7
  <2>2. k - 1 \notin bad
    BY <1>3, <2>1
  <2>3. \A s \in Ball[k-1] : Seen(s, k - 1)
    BY <2>1, <2>2
  <2>4. PICK s \in Ball[k-1] : r = s \/ r \in Followed(s)
    BY <1>5, <1>7, <2>1, BallSteps DEF Wider
  <2>5. PICK i \in DOMAIN nodes : nodes[i].ref = s /\ nodes[i].depth <= k - 1
    BY <2>3, <2>4
  <2>6. nodes[i].depth \in Nat
    BY EntryFacts
  <2>7. CASE r = s
    BY <1>4, <1>5, <2>5, <2>6, <2>7
  <2>8. CASE r \in Followed(s)
    <3>1. nodes[i].depth < Radius
      BY <1>1, <2>1, <2>5, <2>6
    <3>2. ~ AtDepthLimit(nodes[i].depth)
      BY <2>6, <3>1, RadiusBounds
    <3>3. /\ ~ IsLeaf(s) /\ Type(s) # "SYNONYM"
          /\ r \in {RefTo(o) : o \in {p \in model.refs[s.obj] : Included(p)}}
      BY <2>8 DEF Followed
    <3>4. PICK o \in model.refs[s.obj] : Included(o) /\ r = RefTo(o)
      BY <3>3
    <3>5. <<s, r>> \in edges
      BY <2>5, <3>2, <3>3, <3>4 DEF ClosureInv, Expanded, WalkOver
    <3>6. EdgeTracked(<<s, r>>)
      BY <3>5 DEF WalkInv, Tracked
    <3>7. FoundBelow(r, nodes[i].depth)
      BY <2>5, <3>3, <3>6 DEF EdgeTracked
    <3>8. DOMAIN queue = {}
      BY DEF WalkInv, Phases, WalkOver
    <3>9. PICK j \in DOMAIN nodes : nodes[j].ref = r /\ nodes[j].depth <= nodes[i].depth + 1
      BY <3>7, <3>8 DEF FoundBelow
    <3>10. nodes[j].depth \in Nat
      BY EntryFacts
    <3>11. nodes[j].depth <= k
      BY <1>4, <2>5, <2>6, <3>9, <3>10
    <3> QED
      BY <1>5, <3>9, <3>11
  <2> QED
    BY <2>4, <2>7, <2>8
<1> QED
  BY <1>6, <1>7

\* The finished graph holds the objects within max_depth reference steps of the root
\* through included objects, and no other, for every model, every depth limit and
\* every order in which DacFx enumerates the references.
THEOREM AlwaysExactClosure == Spec => []ExactClosure
<1>1. TypeOK /\ WalkInv /\ ClosureInv => ExactClosure
  BY NodesInReach, ReachInNodes DEF ExactClosure
<1> QED
  BY <1>1, TypeCorrect, WalkInvariant, ClosureInvariant, PTL

-----------------------------------------------------------------------------
(***************************************************************************)
(* The walk implements LineageClosure.  The layer it is at is that of the  *)
(* last node or the one after it, and once it is the one after, the queue  *)
(* holds what the last layer refers to and is not a node yet.              *)
(***************************************************************************)

LastDepth == nodes[Len(nodes)].depth
LastLayer == {nodes[i].ref : i \in {j \in DOMAIN nodes : nodes[j].depth = LastDepth}}
Following ==
  (IF AtDepthLimit(LastDepth) THEN {} ELSE UNION {Followed(r) : r \in LastLayer}) \ Nodes

Layered ==
  nodes # << >> =>
    /\ LastDepth \in Nat /\ Len(nodes) \in DOMAIN nodes
    /\ Layer = LastDepth \/ Layer = LastDepth + 1
    /\ \A i \in DOMAIN nodes : nodes[i].depth \in Nat /\ nodes[i].depth <= LastDepth
    /\ Layer = LastDepth + 1 => /\ LayerFrontier = Following
                                /\ \A j \in DOMAIN queue : queue[j].depth = LastDepth + 1
    /\ pc = "scan" => Layer = LastDepth

LEMMA LayeredHolds == TypeOK /\ WalkInv /\ ClosureInv => Layered
<1> SUFFICES ASSUME TypeOK, WalkInv, ClosureInv, nodes # << >> PROVE
      /\ LastDepth \in Nat /\ Len(nodes) \in DOMAIN nodes
      /\ Layer = LastDepth \/ Layer = LastDepth + 1
      /\ \A i \in DOMAIN nodes : nodes[i].depth \in Nat /\ nodes[i].depth <= LastDepth
      /\ Layer = LastDepth + 1 => /\ LayerFrontier = Following
                                  /\ \A j \in DOMAIN queue : queue[j].depth = LastDepth + 1
      /\ pc = "scan" => Layer = LastDepth
  BY DEF Layered
<1>1. Len(nodes) \in DOMAIN nodes /\ \A i \in DOMAIN nodes : i <= Len(nodes)
  <2>1. nodes \in Seq(Entry)
    BY DEF TypeOK
  <2> QED
    BY ONLY <2>1, nodes # << >>
<1>2. PICK last : last = LastDepth
  OBVIOUS
<1>3. last \in Nat /\ \A i \in DOMAIN nodes : nodes[i].depth \in Nat /\ nodes[i].depth <= last
  BY <1>1, <1>2, EntryFacts DEF LastDepth, ClosureInv, NodesSorted
<1>4. \A j \in DOMAIN queue : queue[j].depth \in Nat /\ last <= queue[j].depth
  BY <1>1, <1>2, EntryFacts DEF LastDepth, WalkInv, NodesAbove
<1>5. ASSUME NEW j \in DOMAIN queue PROVE queue[j].depth = last \/ queue[j].depth = last + 1
  <2>1. Below(queue[j])
    BY DEF ClosureInv, QueueFounded
  <2> QED
    BY <1>3, <1>4, <2>1 DEF Below
<1>6. queue # << >> => 1 \in DOMAIN queue /\ Front = queue[1]
  BY QueueTail DEF Front, TypeOK
<1>7. Layer = last \/ Layer = last + 1
  BY <1>1, <1>2, <1>5, <1>6 DEF Layer, LastDepth, WalkInv, Scanning
<1>8. pc = "scan" => Layer = last
  BY <1>1, <1>2 DEF Layer, LastDepth, WalkInv, Scanning
<1>9. ASSUME Layer = last + 1
      PROVE  /\ LayerFrontier = Following
             /\ \A j \in DOMAIN queue : queue[j].depth = last + 1
  <2>1. pc # "scan" /\ last # last + 1
    BY <1>3, <1>8, <1>9
  <2>2. \A j \in DOMAIN queue : queue[j].depth = last + 1
    <3>1. SUFFICES ASSUME NEW j \in DOMAIN queue PROVE queue[j].depth = last + 1
      OBVIOUS
    <3>2. queue # << >>
      BY <3>1
    <3>3. queue[1].depth = last + 1 /\ 1 \in DOMAIN queue
      BY <1>6, <1>9, <2>1, <3>2 DEF Layer
    <3>4. 1 <= j
      <4>1. queue \in Seq(Entry)
        BY DEF TypeOK
      <4> QED
        BY ONLY <3>1, <4>1
    <3>5. queue[1].depth <= queue[j].depth
      BY <3>3, <3>4 DEF WalkInv, Sorted
    <3> QED
      BY <1>3, <1>5, <3>3, <3>5
  <2>3. LayerFrontier = {queue[j].ref : j \in DOMAIN queue} \ Nodes
    BY <1>3, <1>9, <2>2 DEF LayerFrontier
  <2>4. ASSUME NEW j \in DOMAIN queue, queue[j].ref \notin Nodes
        PROVE  queue[j].ref \in Following
    <3>1. Below(queue[j]) /\ WithinLimit(queue[j])
      BY DEF ClosureInv, QueueFounded
    <3>2. PICK p \in DOMAIN nodes : /\ queue[j].depth = nodes[p].depth + 1
                                    /\ queue[j].ref \in Followed(nodes[p].ref)
      BY <1>3, <2>2, <3>1 DEF Below
    <3>3. nodes[p].depth = last
      BY <1>3, <2>2, <3>2
    <3>4. nodes[p].ref \in LastLayer
      BY <1>2, <3>3 DEF LastLayer
    <3>5. ~ AtDepthLimit(last)
      <4>1. request.max_depth \in Int \cup {NoLimit}
        BY DEF TypeOK, RequestType
      <4> QED
        BY <1>3, <2>2, <3>1, <4>1 DEF AtDepthLimit, WithinLimit
    <3> QED
      BY <1>2, <2>4, <3>2, <3>4, <3>5 DEF Following
  <2>5. ASSUME NEW r \in Following PROVE \E j \in DOMAIN queue : queue[j].ref = r
    <3>1. ~ AtDepthLimit(last) /\ r \notin Nodes /\ r \in UNION {Followed(s) : s \in LastLayer}
      BY <1>2 DEF Following
    <3>2. PICK i \in DOMAIN nodes : nodes[i].depth = last /\ r \in Followed(nodes[i].ref)
      BY <1>2, <3>1 DEF LastLayer
    <3>3. /\ ~ IsLeaf(nodes[i].ref) /\ Type(nodes[i].ref) # "SYNONYM"
          /\ r \in {RefTo(o) : o \in {p \in model.refs[nodes[i].ref.obj] : Included(p)}}
      BY <3>2 DEF Followed
    <3>4. PICK o \in model.refs[nodes[i].ref.obj] : Included(o) /\ r = RefTo(o)
      BY <3>3
    <3>5. <<nodes[i].ref, r>> \in edges
      BY <2>1, <3>1, <3>2, <3>3, <3>4 DEF ClosureInv, Expanded
    <3>6. FoundBelow(r, nodes[i].depth)
      BY <3>3, <3>5 DEF WalkInv, Tracked, EdgeTracked
    <3> QED
      BY <3>1, <3>6 DEF FoundBelow, Nodes
  <2>6. Following \cap Nodes = {}
    BY DEF Following
  <2> QED
    BY <2>2, <2>3, <2>4, <2>5, <2>6
<1> QED
  BY <1>1, <1>2, <1>3, <1>7, <1>8, <1>9

\* What is to be walked is given once.
LEMMA ProblemKept ==
  ASSUME UNCHANGED inputs
  PROVE  /\ [r \in Ref |-> Followed(r)]' = [r \in Ref |-> Followed(r)]
         /\ RootRef' = RootRef /\ request' = request
<1>1. model' = model /\ request' = request
  BY DEF inputs
<1> QED
  BY <1>1 DEF RootRef, Followed, IsLeaf, Type, RefTo, Included

LEMMA ClosureStutters ==
  ASSUME UNCHANGED inputs, Layer' = Layer, LayerReached' = LayerReached,
         LayerFrontier' = LayerFrontier
  PROVE  UNCHANGED Closure!cvars
  BY ProblemKept DEF Closure!cvars

\* The last entry of a layer is done with: what it, and the layer with it, refers to is
\* the next one.
LEMMA LayerDone ==
  ASSUME TypeOK, Layered', UNCHANGED inputs, nodes' # << >>,
         Layer' = LastDepth' + 1, Layer = LastDepth',
         LayerFrontier = LastLayer', LayerReached \cup LayerFrontier = Nodes'
  PROVE  Closure!NextLayer
<1>1. PICK d : d = Layer
  OBVIOUS
<1>2. /\ d \in Nat /\ LastDepth' = d /\ Layer' = d + 1 /\ LayerFrontier' = Following'
      /\ Len(nodes') \in DOMAIN nodes'
      /\ \A i \in DOMAIN nodes' : nodes'[i].depth \in Nat /\ nodes'[i].depth <= d
  BY <1>1 DEF Layered
<1>3. LayerFrontier # {}
  BY <1>2 DEF LastLayer, LastDepth
<1>4. LayerReached' = Nodes'
  BY <1>2 DEF LayerReached, Nodes
<1>5. request' = request
  BY DEF inputs
<1>6. LayerFrontier' = (IF AtDepthLimit(d) THEN {} ELSE UNION {Followed(r) : r \in LayerFrontier})
                          \ (LayerReached \cup LayerFrontier)
  <2>1. \A r : Followed(r)' = Followed(r)
    BY InputsKept
  <2>2. AtDepthLimit(LastDepth)' <=> AtDepthLimit(d)
    BY <1>2, <1>5 DEF AtDepthLimit
  <2> QED
    BY <1>2, <2>1, <2>2 DEF Following
<1>7. LayerFrontier \subseteq Ref
  <2>1. nodes \in Seq(Entry) /\ queue \in Seq(Entry)
    BY DEF TypeOK
  <2>2. \A i \in DOMAIN nodes : nodes[i] \in Entry
    BY ONLY <2>1
  <2>3. \A i \in DOMAIN queue : queue[i] \in Entry
    BY ONLY <2>1
  <2> QED
    BY <2>2, <2>3 DEF LayerFrontier, Entry
<1>8. UNION {[r \in Ref |-> Followed(r)][s] : s \in LayerFrontier}
        = UNION {Followed(r) : r \in LayerFrontier}
  BY <1>7
<1>9. Closure!Cut <=> AtDepthLimit(d)
  BY <1>1, <1>3 DEF Closure!Cut, AtDepthLimit
<1>10. LayerFrontier' =
         IF Closure!Cut THEN {}
         ELSE (UNION {[r \in Ref |-> Followed(r)][s] : s \in LayerFrontier}) \ LayerReached'
  BY <1>2, <1>4, <1>6, <1>8, <1>9
<1>11. LayerReached' = LayerReached \cup LayerFrontier
  BY <1>4
<1>12. (IF LayerFrontier' = {} THEN 0 ELSE Layer') =
         IF LayerFrontier' = {} THEN 0 ELSE (IF LayerFrontier = {} THEN 0 ELSE Layer) + 1
  BY <1>1, <1>2, <1>3
<1>13. UNCHANGED [root |-> RootRef, next |-> [r \in Ref |-> Followed(r)], limit |-> request.max_depth]
  BY ProblemKept
<1> QED
  BY <1>3, <1>10, <1>11, <1>12, <1>13 DEF Closure!NextLayer

LayerStep == Closure!Next \/ UNCHANGED Closure!cvars

\* The walk has not moved.
LEMMA WalkStands ==
  ASSUME UNCHANGED <<inputs, queue, nodes, cur>>, pc = "scan" <=> pc' = "scan"
  PROVE  LayerStep
<1>1. Nodes' = Nodes
  BY DEF Nodes
<1>2. Layer' = Layer
  BY DEF Layer, Front
<1>3. LayerReached' = LayerReached /\ LayerFrontier' = LayerFrontier
  BY <1>1, <1>2 DEF LayerReached, LayerFrontier
<1> QED
  BY <1>2, <1>3, ClosureStutters DEF LayerStep

LEMMA StartIsStart ==
  ASSUME WalkInv, StartWalk PROVE LayerStep
<1>1. /\ nodes = << >> /\ queue = << >> /\ pc = "find"
      /\ pc' = "bfs" /\ nodes' = << >> /\ queue' = << [ref |-> RootRef, depth |-> 0] >>
      /\ UNCHANGED inputs
  BY DEF StartWalk, WalkInv, Phases
<1>2. Layer = 0 /\ LayerReached = {} /\ LayerFrontier = {}
  BY <1>1 DEF Layer, LayerReached, LayerFrontier
<1>3. Layer' = 0
  BY <1>1 DEF Layer, Front
<1>4. LayerReached' = {} /\ LayerFrontier' = {RootRef}
  BY <1>1, <1>3 DEF LayerReached, LayerFrontier, Nodes
<1> QED
  BY <1>1, <1>2, <1>3, <1>4, ProblemKept DEF LayerStep, Closure!Next, Closure!Start

\* What is queued belongs to the layer after the one that is visited.
LEMMA EnqueueStutters ==
  ASSUME TypeOK, WalkInv, EnqueueReference PROVE LayerStep
<1>1. PICK o \in pending : queue' = Append(queue, [ref |-> RefTo(o), depth |-> cur.depth + 1])
  BY DEF EnqueueReference, Enqueued
<1>2. pc = "scan" /\ pc' = "scan" /\ UNCHANGED <<inputs, cur, nodes>>
  BY DEF EnqueueReference
<1>a. PICK entry : entry = [ref |-> RefTo(o), depth |-> cur.depth + 1]
  BY Zenon
<1>3. /\ \A j \in DOMAIN queue : j \in DOMAIN queue' /\ queue'[j] = queue[j]
      /\ \A j \in DOMAIN queue' : (j \in DOMAIN queue /\ queue'[j] = queue[j]) \/ queue'[j] = entry
  <2>1. queue \in Seq(Entry) /\ queue' = Append(queue, entry)
    BY <1>1, <1>a DEF TypeOK
  <2> QED
    BY ONLY <2>1
<1>4. entry.depth # cur.depth
  BY <1>a, EntryFacts
<1>5. Nodes' = Nodes /\ Layer = cur.depth /\ Layer' = cur.depth
  BY <1>2 DEF Nodes, Layer
<1>6. LayerReached' = LayerReached
  BY <1>2, <1>5 DEF LayerReached
<1>7. LayerFrontier' = LayerFrontier
  BY <1>2, <1>3, <1>4, <1>5 DEF LayerFrontier
<1> QED
  BY <1>2, <1>5, <1>6, <1>7, ClosureStutters DEF LayerStep

LEMMA FinishScanSteps ==
  ASSUME TypeOK, WalkInv, Layered, Layered', FinishScan PROVE LayerStep
<1>1. pc = "scan" /\ UNCHANGED <<inputs, queue, nodes>>
  BY DEF FinishScan, walk
<1>2. nodes # << >> /\ Nodes' = Nodes /\ LastDepth' = LastDepth
  BY <1>1 DEF WalkInv, Scanning, Nodes, LastDepth
<1>3. Layer = LastDepth
  BY <1>1, <1>2 DEF Layered
<1>4. CASE Layer' = LastDepth'
  <2>1. Layer' = Layer
    BY <1>2, <1>3, <1>4
  <2>2. LayerReached' = LayerReached /\ LayerFrontier' = LayerFrontier
    BY <1>1, <1>2, <2>1 DEF LayerReached, LayerFrontier
  <2> QED
    BY <1>1, <2>1, <2>2, ClosureStutters DEF LayerStep
<1>5. CASE Layer' = LastDepth' + 1
  <2>1. \A j \in DOMAIN queue : queue[j].depth = LastDepth + 1
    BY <1>1, <1>2, <1>5 DEF Layered
  <2>2. /\ LastDepth \in Nat
        /\ \A i \in DOMAIN nodes : nodes[i].depth \in Nat /\ nodes[i].depth <= LastDepth
    BY <1>2 DEF Layered
  <2>3. LastLayer' = LastLayer
    BY <1>1, <1>2 DEF LastLayer
  <2>4. LayerFrontier = LastLayer
    BY <1>3, <2>1, <2>2 DEF LayerFrontier, LastLayer
  <2>5. LayerReached \cup LayerFrontier = Nodes
    BY <1>3, <2>2, <2>4 DEF LayerReached, LastLayer, Nodes
  <2> QED
    BY <1>1, <1>2, <1>3, <1>5, <2>3, <2>4, <2>5, LayerDone DEF LayerStep, Closure!Next
<1> QED
  BY <1>1, <1>2, <1>4, <1>5 DEF Layered

\* An entry that is a node already adds nothing to its layer.
LEMMA SkipSteps ==
  ASSUME TypeOK, WalkInv, Layered, Layered', SkipVisited PROVE LayerStep
<1>1. /\ pc = "bfs" /\ pc' = "bfs" /\ queue # << >> /\ queue' = Tail(queue)
      /\ queue \in Seq(Entry) /\ UNCHANGED <<inputs, nodes>>
      /\ Front = queue[1] /\ queue[1].ref \in Nodes
  BY QueueTail DEF SkipVisited, Front, TypeOK
<1>2. /\ \A j \in DOMAIN queue' : j + 1 \in DOMAIN queue /\ queue'[j] = queue[j+1]
      /\ \A j \in DOMAIN queue : j = 1 \/ \E k \in DOMAIN queue' : queue'[k] = queue[j]
      /\ queue' # << >> => 1 \in DOMAIN queue' /\ Head(queue') = queue'[1]
  <2>1. queue' \in Seq(Entry)
    BY <1>1, QueueTail
  <2> QED
    BY <1>1, <2>1, QueueTail
<1>3. nodes # << >> /\ Nodes' = Nodes /\ LastDepth' = LastDepth
  BY <1>1 DEF Nodes, LastDepth
<1>4. /\ LastDepth \in Nat
      /\ \A i \in DOMAIN nodes : nodes[i].depth \in Nat /\ nodes[i].depth <= LastDepth
  BY <1>3 DEF Layered
<1>5. CASE Layer' = Layer
  <2>1. LayerReached' = LayerReached
    BY <1>1, <1>5 DEF LayerReached
  <2>2. LayerFrontier' = LayerFrontier
    <3> DEFINE New(q) == {q[i].ref : i \in {j \in DOMAIN q : q[j].depth = Layer /\ q[j].ref \notin Nodes}}
    <3>1. \A r \in New(queue') : r \in New(queue)
      BY <1>2
    <3>2. ASSUME NEW j \in DOMAIN queue, queue[j].depth = Layer, queue[j].ref \notin Nodes
          PROVE  queue[j].ref \in New(queue')
      BY <1>1, <1>2, <3>2
    <3>3. New(queue) = New(queue')
      BY <3>1, <3>2
    <3> QED
      BY <1>1, <1>3, <1>5, <3>3 DEF LayerFrontier
  <2> QED
    BY <1>1, <1>5, <2>1, <2>2, ClosureStutters DEF LayerStep
<1>6. CASE Layer = LastDepth /\ Layer' = LastDepth + 1
  <2>1. \A j \in DOMAIN queue' : queue'[j].depth = LastDepth + 1
    BY <1>1, <1>3, <1>6 DEF Layered
  <2>2. \A j \in DOMAIN queue : queue[j].ref \in Nodes \/ queue[j].depth # LastDepth
    BY <1>1, <1>2, <1>4, <2>1
  <2>3. LastLayer' = LastLayer
    BY <1>1, <1>3 DEF LastLayer
  <2>4. LayerFrontier = LastLayer
    BY <1>6, <2>2 DEF LayerFrontier, LastLayer
  <2>5. LayerReached \cup LayerFrontier = Nodes
    BY <1>4, <1>6, <2>4 DEF LayerReached, LastLayer, Nodes
  <2> QED
    BY <1>1, <1>3, <1>6, <2>3, <2>4, <2>5, LayerDone DEF LayerStep, Closure!Next
<1>7. CASE Layer = LastDepth + 1 /\ Layer' = LastDepth
  <2>1. \A j \in DOMAIN queue : queue[j].depth = LastDepth + 1
    BY <1>3, <1>7 DEF Layered
  <2>2. Layer' = LastDepth + 1
    BY <1>1, <1>2, <1>3, <2>1 DEF Layer, Front, LastDepth
  <2> QED
    BY <1>4, <1>7, <2>2
<1> QED
  BY <1>1, <1>3, <1>5, <1>6, <1>7 DEF Layered

\* A visited entry stays in its layer, which is over when nothing else of it is queued.
LEMMA VisitSteps ==
  ASSUME TypeOK, WalkInv, Layered', Visit, pc' = "bfs" \/ pc' = "scan"
  PROVE  LayerStep
<1>1. /\ pc = "bfs" /\ queue # << >> /\ queue' = Tail(queue) /\ nodes' = Append(nodes, Front)
      /\ queue \in Seq(Entry) /\ nodes \in Seq(Entry) /\ UNCHANGED inputs
      /\ Front = queue[1] /\ queue[1].ref \notin Nodes /\ 1 \in DOMAIN queue
  BY QueueTail DEF Visit, Front, TypeOK
<1>2. /\ \A j \in DOMAIN queue' : j + 1 \in DOMAIN queue /\ queue'[j] = queue[j+1]
      /\ \A j \in DOMAIN queue : j = 1 \/ \E k \in DOMAIN queue' : queue'[k] = queue[j]
  BY <1>1, QueueTail
<1>3. PICK entry : entry = Front
  OBVIOUS
<1>4. /\ \A i \in DOMAIN nodes : i \in DOMAIN nodes' /\ nodes'[i] = nodes[i]
      /\ \A i \in DOMAIN nodes' : i \in DOMAIN nodes \/ nodes'[i] = entry
      /\ Len(nodes') \in DOMAIN nodes' /\ nodes'[Len(nodes')] = entry /\ nodes' # << >>
  <2>1. nodes' = Append(nodes, entry) /\ entry \in Entry
    BY <1>1, <1>3, QueueTail DEF Front
  <2> QED
    BY ONLY <1>1, <2>1
<1>5. Nodes' = Nodes \cup {entry.ref}
  BY <1>4 DEF Nodes
<1>6. Layer = entry.depth /\ LastDepth' = entry.depth /\ entry = queue[1]
  BY <1>1, <1>3, <1>4 DEF Layer, LastDepth
<1>7. /\ entry.depth \in Nat
      /\ \A i \in DOMAIN nodes : nodes[i].depth \in Nat /\ nodes[i].depth <= entry.depth
  BY <1>1, <1>6, EntryFacts DEF WalkInv, NodesAbove
<1>8. CASE Layer' = entry.depth
  <2>1. LayerReached' = LayerReached
    BY <1>4, <1>6, <1>7, <1>8 DEF LayerReached
  <2>2. LayerFrontier' = LayerFrontier
    <3>1. \A r \in LayerFrontier' : r \in LayerFrontier
      BY <1>1, <1>2, <1>4, <1>5, <1>6, <1>8 DEF LayerFrontier
    <3>2. \A i \in DOMAIN nodes : nodes[i].depth = Layer => nodes[i].ref \in LayerFrontier'
      BY <1>4, <1>6, <1>8 DEF LayerFrontier
    <3>3. entry.ref \in LayerFrontier'
      BY <1>4, <1>8 DEF LayerFrontier
    <3>4. ASSUME NEW j \in DOMAIN queue, j # 1, queue[j].depth = Layer, queue[j].ref \notin Nodes
          PROVE  queue[j].ref \in LayerFrontier'
      <4>1. PICK k \in DOMAIN queue' : queue'[k] = queue[j]
        BY <1>2, <3>4
      <4>2. CASE queue[j].ref = entry.ref
        BY <3>3, <4>2
      <4>3. CASE queue[j].ref # entry.ref
        BY <1>5, <1>6, <1>8, <3>4, <4>1, <4>3 DEF LayerFrontier
      <4> QED
        BY <4>2, <4>3
    <3>5. \A r \in LayerFrontier : r \in LayerFrontier'
      BY <1>6, <3>2, <3>3, <3>4 DEF LayerFrontier
    <3> QED
      BY <3>1, <3>5
  <2> QED
    BY <1>1, <1>6, <1>8, <2>1, <2>2, ClosureStutters DEF LayerStep
<1>9. CASE Layer' = entry.depth + 1
  <2>1. \A j \in DOMAIN queue' : queue'[j].depth = entry.depth + 1
    BY <1>4, <1>6, <1>9 DEF Layered
  <2>2. \A j \in DOMAIN queue : j = 1 \/ queue[j].depth # entry.depth
    BY <1>2, <1>7, <2>1
  <2>3. LayerFrontier = LastLayer'
    <3>1. \A r \in LastLayer' : r \in LayerFrontier
      BY <1>1, <1>4, <1>6 DEF LayerFrontier, LastLayer
    <3>2. \A r \in LayerFrontier : r \in LastLayer'
      BY <1>4, <1>6, <2>2 DEF LayerFrontier, LastLayer
    <3> QED
      BY <3>1, <3>2
  <2>4. LayerReached \cup LayerFrontier = Nodes'
    <3>1. \A r \in LayerReached : r \in Nodes'
      BY <1>4 DEF LayerReached, Nodes
    <3>2. \A r \in LastLayer' : r \in Nodes'
      BY DEF LastLayer, Nodes
    <3>3. \A r \in Nodes' : r \in LayerReached \/ r \in LastLayer'
      BY <1>4, <1>6, <1>7 DEF LayerReached, LastLayer, Nodes
    <3> QED
      BY <2>3, <3>1, <3>2, <3>3
  <2> QED
    BY <1>1, <1>4, <1>6, <1>9, <2>3, <2>4, LayerDone DEF LayerStep, Closure!Next
<1> QED
  BY <1>4, <1>6, <1>8, <1>9 DEF Layered

LEMMA InitIsInit == Init => Closure!Init
<1> SUFFICES ASSUME Init PROVE Closure!Init
  OBVIOUS
<1>1. TypeOK /\ DOMAIN queue = {} /\ DOMAIN nodes = {} /\ queue = << >> /\ nodes = << >> /\ pc = "cli"
  BY InitTypeOK DEF Init
<1>2. Layer = 0 /\ LayerReached = {} /\ LayerFrontier = {}
  BY <1>1 DEF Layer, LayerReached, LayerFrontier
<1>3. /\ RootRef \in Ref /\ request.max_depth \in Int \cup {NoLimit}
      /\ [r \in Ref |-> Followed(r)] \in [Ref -> SUBSET Ref]
  BY <1>1, FollowedType DEF TypeOK, RequestType, RootRef, Ref
<1>4. [root |-> RootRef, next |-> [r \in Ref |-> Followed(r)], limit |-> request.max_depth]
        \in Closure!ProblemType
  BY <1>3 DEF Closure!ProblemType
<1> QED
  BY <1>2, <1>4 DEF Closure!Init

LEMMA EveryStepIsLayerStep ==
  TypeOK /\ WalkInv /\ Layered /\ Layered' /\ [Next]_vars => LayerStep
<1> SUFFICES ASSUME TypeOK, WalkInv, Layered, Layered', [Next]_vars PROVE LayerStep
  OBVIOUS
<1>1. CASE SkipVisited
  BY <1>1, SkipSteps
<1>2. CASE VisitLeaf \/ VisitSynonym \/ VisitAtLimit \/ VisitAndExpand
  BY <1>2, VisitSteps DEF VisitLeaf, VisitSynonym, VisitAtLimit, VisitAndExpand, Visit
<1>3. CASE EnqueueReference
  BY <1>3, EnqueueStutters
<1>4. CASE StartWalk
  BY <1>4, StartIsStart
<1>5. CASE RejectArguments \/ InitialiseClr \/ RootMissing \/ Abort \/ Succeed
           \/ WriteJson \/ WriteHtml
  BY <1>5, WalkStands
     DEF RejectArguments, InitialiseClr, RootMissing, Abort, Succeed, WriteJson, WriteHtml,
         Exit, inputs, walk
<1>6. CASE PassOverReference \/ FinishWalk
  BY <1>6, WalkStands DEF PassOverReference, FinishWalk, inputs, walk
<1>7. CASE FinishScan
  BY <1>7, FinishScanSteps
<1>8. CASE Map
  BY <1>8, WalkStands
     DEF Map, PassOverBodiless, WarnNoScript, WarnMappingFailed, MapNode, FinishPass,
         Consider, inputs, walk
<1>9. CASE UNCHANGED vars
  BY <1>9, WalkStands DEF vars, inputs, walk
<1> QED
  BY <1>1, <1>2, <1>3, <1>4, <1>5, <1>6, <1>7, <1>8, <1>9 DEF Next, Progress, Walk

\* The queue-driven walk implements the layered one: objects are found nearest first, a
\* layer at a time, and the walk stops at the depth limit or at an empty layer, for every
\* model, every request and every order of the references.
THEOREM AlwaysWalksInLayers == Spec => WalksInLayers
<1>1. Spec => []Layered
  BY LayeredHolds, TypeCorrect, WalkInvariant, ClosureInvariant, PTL
<1>2. TypeOK /\ WalkInv /\ Layered /\ Layered' /\ [Next]_vars => [Closure!Next]_Closure!cvars
  BY EveryStepIsLayerStep DEF LayerStep
<1> QED
  BY <1>1, <1>2, InitIsInit, TypeCorrect, WalkInvariant, PTL
     DEF Spec, WalksInLayers, Closure!Spec
=============================================================================
