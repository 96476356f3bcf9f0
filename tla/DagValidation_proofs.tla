------------------------ MODULE DagValidation_proofs ------------------------
(***************************************************************************)
(* Theorems about DagValidation, for any number of jobs, any finite set of *)
(* ids and any definitions: the types, and that Kahn's algorithm accepts   *)
(* exactly the acyclic graphs, visits after needs, and in the order it     *)
(* claims.                                                                 *)
(*                                                                         *)
(* The inductive invariant says what the counters count: the edges into an *)
(* id that were not followed yet, repeated ones included.  Whatever was    *)
(* visited is closed under needs and acyclic, so no induction over the     *)
(* graph is needed.                                                        *)
(***************************************************************************)
EXTENDS DagValidation, FiniteSetTheorems, TLAPS

(* The edges into n that are still to be followed. *)
Remaining(n) == {e \in Into(def, n) : e.from \notin Visited \/ e \in work}

CountersCount ==
    \A n \in Names :
        IsFiniteSet(Remaining(n)) /\ indegree[n] = Cardinality(Remaining(n))

(* An edge is followed from an id that was visited. *)
WorkIsOfVisited == \A e \in work : e.from \in Visited

(* Ready are the ids with nothing left to wait for that were not visited,  *)
(* and nothing visited waits.                                              *)
ReadyIsExact ==
    /\ \A n \in Ids(def) : n \in ready <=> indegree[n] = 0 /\ n \notin Visited
    /\ \A n \in Visited : indegree[n] = 0

VisitsAreCounted ==
    IsFiniteSet(Visited) /\ Cardinality(Visited) = Len(visited)

(* What was visited is closed under needs, and acyclic. *)
VisitedIsAcyclic ==
    /\ \A n \in Visited : needsOf(def)[n] \subseteq Visited
    /\ Acyclic(needsOf(def), Visited)

IInv ==
    /\ TypeOK
    /\ CountersCount
    /\ WorkIsOfVisited
    /\ ReadyIsExact
    /\ VisitsAreCounted
    /\ VisitedIsAcyclic
    /\ VisitedAfterNeeds
    /\ FirstDefinedFirst

-----------------------------------------------------------------------------
(* The graph of a definition.                                              *)

AllEdges == [from: Names, to: Names, job: Jobs, copy: 1..Copies]

LEMMA EdgeShape ==
    ASSUME NEW d \in Definition
    PROVE  /\ Ids(d) \subseteq Names
           /\ Edges(d) \subseteq AllEdges
           /\ \A e \in Edges(d) : e.from \in Ids(d) /\ e.to \in Ids(d)
           /\ \A n : Into(d, n) \subseteq Edges(d) /\ OutOf(d, n) \subseteq Edges(d)
<1>1. d.id \in [Jobs -> Names] /\ d.needs \in [Jobs -> SUBSET Entry]
  BY DEF Definition
<1>2. Ids(d) \subseteq Names
  BY <1>1 DEF Ids
<1>3. ASSUME NEW e \in Edges(d)
      PROVE  e \in AllEdges /\ e.from \in Ids(d) /\ e.to \in Ids(d)
  <2>0. PICK j \in Jobs : \E x \in d.needs[j] :
            x.name \in Ids(d) /\ e = [from |-> x.name, to |-> d.id[j], job |-> j, copy |-> x.copy]
    BY <1>3 DEF Edges
  <2>1. PICK x \in d.needs[j] :
            x.name \in Ids(d) /\ e = [from |-> x.name, to |-> d.id[j], job |-> j, copy |-> x.copy]
    BY <2>0
  <2>2. x.name \in Names /\ x.copy \in 1..Copies
    BY <1>1 DEF Entry
  <2>3. d.id[j] \in Ids(d) /\ d.id[j] \in Names
    BY <1>1 DEF Ids
  <2> QED
    BY <2>1, <2>2, <2>3 DEF AllEdges
<1> QED
  BY <1>2, <1>3 DEF Into, OutOf

(* There are finitely many edges, since there are finitely many ids. *)
LEMMA EdgesAreFinite == IsFiniteSet(AllEdges)
<1> DEFINE P == (Names \X Names) \X (Jobs \X (1..Copies))
           f == [p \in P |-> [from |-> p[1][1], to |-> p[1][2], job |-> p[2][1], copy |-> p[2][2]]]
<1>1. IsFiniteSet(Jobs) /\ IsFiniteSet(1..Copies)
  BY FS_Interval, NAssumption, CopiesAssumption DEF Jobs
<1>2. IsFiniteSet(Names \X Names) /\ IsFiniteSet(Jobs \X (1..Copies))
  BY <1>1, NamesAssumption, FS_Product
<1>3. IsFiniteSet(P)
  BY <1>2, FS_Product
<1>4. f \in Surjection(P, AllEdges)
  <2>1. f \in [P -> AllEdges]
    BY DEF AllEdges
  <2>2. ASSUME NEW e \in AllEdges PROVE \E p \in P : f[p] = e
    <3>1. <<<<e.from, e.to>>, <<e.job, e.copy>>>> \in P
      BY DEF AllEdges
    <3>2. f[<<<<e.from, e.to>>, <<e.job, e.copy>>>>] = e
      BY <3>1 DEF AllEdges
    <3> QED
      BY <3>1, <3>2
  <2> QED
    BY <2>1, <2>2 DEF Surjection
<1> HIDE DEF P, f
<1> QED
  BY <1>3, <1>4, FS_Surjection

(* With unique ids there are as many as jobs. *)
LEMMA UniqueIds ==
    ASSUME NEW d \in Definition, ~DuplicateIds(d)
    PROVE  IsFiniteSet(Ids(d)) /\ Cardinality(Ids(d)) = N
<1> DEFINE f == [j \in Jobs |-> d.id[j]]
<1>1. f \in [Jobs -> Ids(d)] /\ \A n \in Ids(d) : \E j \in Jobs : f[j] = n
  BY DEF Ids
<1>2. \A i, j \in Jobs : f[i] = f[j] => i = j
  BY DEF DuplicateIds
<1> HIDE DEF f
<1>3. f \in Bijection(Jobs, Ids(d))
  BY <1>1, <1>2 DEF Bijection, Injection, Surjection, IsInjective
<1>4. ExistsBijection(1..N, Ids(d))
  BY <1>3 DEF ExistsBijection, Jobs
<1>5. Cardinality(Ids(d)) = N
  BY <1>4, FS_CountingElements, NAssumption
<1>6. IsFiniteSet(Ids(d))
  BY <1>4, FS_NatBijection, NAssumption
<1> QED
  BY <1>5, <1>6

LEMMA NeedsAreIds ==
    ASSUME NEW d \in Definition, NEW n \in Names
    PROVE  /\ needsOf(d)[n] = {e.from : e \in Into(d, n)}
           /\ needsOf(d)[n] \subseteq Ids(d)
BY EdgeShape DEF needsOf

LEMMA RemainingIsFinite ==
    ASSUME TypeOK, NEW n \in Names
    PROVE  /\ Remaining(n) \subseteq Into(def, n)
           /\ IsFiniteSet(Into(def, n)) /\ IsFiniteSet(Remaining(n))
<1>1. Into(def, n) \subseteq AllEdges /\ Remaining(n) \subseteq Into(def, n)
  BY EdgeShape DEF TypeOK, Remaining
<1> QED
  BY <1>1, EdgesAreFinite, FS_Subset

-----------------------------------------------------------------------------
(* Taking an id.                                                           *)

LEMMA VisitedShape ==
    ASSUME TypeOK, NEW n \in Ids(def), visited' = Append(visited, n)
    PROVE  /\ visited' \in Seq(Ids(def))
           /\ Len(visited) \in Nat /\ Len(visited') = Len(visited) + 1
           /\ DOMAIN visited = 1..Len(visited) /\ DOMAIN visited' = 1..(Len(visited) + 1)
           /\ \A k \in 1..Len(visited) : visited'[k] = visited[k]
           /\ visited'[Len(visited) + 1] = n
           /\ Visited' = Visited \cup {n}
<1>1. visited \in Seq(Ids(def))
  BY DEF TypeOK
<1>2. /\ visited' \in Seq(Ids(def))
      /\ Len(visited) \in Nat /\ Len(visited') = Len(visited) + 1
      /\ DOMAIN visited = 1..Len(visited) /\ DOMAIN visited' = 1..Len(visited')
  BY <1>1
<1>3. /\ \A k \in 1..Len(visited) : visited'[k] = visited[k]
      /\ visited'[Len(visited) + 1] = n
  BY <1>1
<1>4. \A k \in 1..(Len(visited) + 1) : k \in 1..Len(visited) \/ k = Len(visited) + 1
  BY <1>2
<1>5. Visited' = Visited \cup {n}
  <2>1. Visited' \subseteq Visited \cup {n}
    BY <1>2, <1>3, <1>4 DEF Visited
  <2>2. Visited \cup {n} \subseteq Visited'
    <3>1. \A k \in 1..Len(visited) : k \in 1..Len(visited')
      BY <1>2
    <3>2. Len(visited) + 1 \in 1..Len(visited')
      BY <1>2
    <3> QED
      BY <1>2, <1>3, <3>1, <3>2 DEF Visited
  <2> QED
    BY <2>1, <2>2
<1> QED
  BY <1>2, <1>3, <1>5

(* What comes before a position. *)
Before(k) == {visited[i] : i \in 1..(k - 1)}

LEMMA BeforeShape ==
    ASSUME TypeOK, NEW n \in Ids(def), visited' = Append(visited, n)
    PROVE  /\ \A k \in 1..Len(visited) : Before(k)' = Before(k)
           /\ \A k \in Nat : k = Len(visited) + 1 => Before(k)' = Visited
<1>1. /\ Len(visited) \in Nat
      /\ DOMAIN visited = 1..Len(visited)
      /\ \A k \in 1..Len(visited) : visited'[k] = visited[k]
  BY VisitedShape
<1>2. \A k \in 1..(Len(visited) + 1) : \A i \in 1..(k - 1) : i \in 1..Len(visited)
  BY <1>1
<1>3. \A k \in 1..Len(visited) : Before(k)' = Before(k)
  <2> SUFFICES ASSUME NEW k \in 1..Len(visited)
               PROVE  {visited'[i] : i \in 1..(k - 1)} = {visited[i] : i \in 1..(k - 1)}
    BY DEF Before
  <2>1. \A i \in 1..(k - 1) : visited'[i] = visited[i]
    BY <1>1
  <2> QED
    BY <2>1
<1>4. ASSUME NEW k \in Nat, k = Len(visited) + 1 PROVE Before(k)' = Visited
  <2>1. 1..(k - 1) = 1..Len(visited)
    BY <1>1, <1>4
  <2> QED
    BY <1>1, <2>1 DEF Before, Visited
<1> QED
  BY <1>3, <1>4

(* The properties of one position, and of one more. *)
VisitedAfter(k) ==
    /\ needsOf(def)[visited[k]] \subseteq Before(k) \ {visited[k]}
    /\ visited[k] \notin Before(k)

DefinedFirst(k) ==
    \A n \in Ids(def) : n \notin Before(k) /\ needsOf(def)[n] \subseteq Before(k)
        => Position(def, visited[k]) <= Position(def, n)

(* While no edge is being followed, an id that does not wait is one whose  *)
(* needs were all visited.                                                 *)
LEMMA NotWaiting ==
    ASSUME IInv, work = {}, NEW n \in Names
    PROVE  indegree[n] = 0 <=> needsOf(def)[n] \subseteq Visited
<1>1. indegree[n] = 0 <=> Remaining(n) = {}
  BY FS_EmptySet DEF IInv, CountersCount
<1>2. Remaining(n) = {} <=> \A e \in Into(def, n) : e.from \in Visited
  BY DEF Remaining
<1>3. needsOf(def)[n] = {e.from : e \in Into(def, n)}
  BY DEF needsOf
<1> QED
  BY <1>1, <1>2, <1>3

LEMMA TakeKeeps ==
    ASSUME IInv, NEW n \in ready, Take(n)
    PROVE  IInv'
<1> USE DEF IInv
<1>1. /\ work = {} /\ ready' = ready \ {n} /\ visited' = Append(visited, n)
      /\ work' = OutOf(def, n) /\ UNCHANGED <<def, goal, indegree>>
  BY DEF Take
<1>2. /\ n \in Ids(def) /\ n \in Names /\ def \in Definition /\ Ids(def) \subseteq Names
      /\ indegree[n] = 0 /\ n \notin Visited
  BY EdgeShape DEF TypeOK, ReadyIsExact
<1>3. Visited' = Visited \cup {n}
  BY <1>1, <1>2, VisitedShape
<1>4. needsOf(def)[n] \subseteq Visited
  BY <1>1, <1>2, NotWaiting
<1>5. TypeOK'
  BY <1>1, <1>2, VisitedShape, EdgeShape DEF TypeOK
<1>6. CountersCount' /\ WorkIsOfVisited'
  <2>1. ASSUME NEW m \in Names PROVE Remaining(m)' = Remaining(m)
    BY <1>1, <1>2, <1>3 DEF Remaining, Into, OutOf
  <2>2. CountersCount'
    BY <1>1, <2>1 DEF CountersCount
  <2> QED
    BY <1>1, <1>3, <2>2 DEF WorkIsOfVisited, OutOf
<1>7. ReadyIsExact'
  <2>1. \A m \in Ids(def) : m \in ready' <=> indegree'[m] = 0 /\ m \notin Visited'
    BY <1>1, <1>3 DEF ReadyIsExact
  <2>2. \A m \in Visited' : indegree'[m] = 0
    BY <1>1, <1>2, <1>3 DEF ReadyIsExact
  <2> QED
    BY <1>1, <2>1, <2>2 DEF ReadyIsExact
<1>8. VisitsAreCounted'
  <2>1. IsFiniteSet(Visited \cup {n}) /\ Cardinality(Visited \cup {n}) = Cardinality(Visited) + 1
    BY <1>2, FS_AddElement DEF VisitsAreCounted
  <2>2. Len(visited') = Len(visited) + 1
    BY <1>1, <1>2, VisitedShape
  <2> QED
    BY <1>3, <2>1, <2>2 DEF VisitsAreCounted
<1>9. VisitedIsAcyclic'
  <2>1. \A m \in Visited' : needsOf(def)[m] \subseteq Visited'
    BY <1>3, <1>4 DEF VisitedIsAcyclic
  <2>2. Acyclic(needsOf(def), Visited')
    <3> SUFFICES ASSUME NEW S \in SUBSET Visited', S # {}
                 PROVE  \E j \in S : needsOf(def)[j] \cap S = {}
      BY DEF Acyclic
    <3>1. CASE S = {n}
      BY <1>2, <1>4, <3>1
    <3>2. CASE S # {n}
      <4>1. PICK j \in S \ {n} : needsOf(def)[j] \cap (S \ {n}) = {}
        <5>1. S \ {n} \in SUBSET Visited /\ S \ {n} # {}
          BY <1>3, <3>2
        <5> QED
          BY <5>1 DEF VisitedIsAcyclic, Acyclic
      <4>2. n \notin needsOf(def)[j]
        BY <1>2, <1>3, <4>1 DEF VisitedIsAcyclic
      <4> QED
        BY <4>1, <4>2
    <3> QED
      BY <3>1, <3>2
  <2> QED
    BY <1>1, <2>1, <2>2 DEF VisitedIsAcyclic
<1>10. /\ DOMAIN visited' = 1..(Len(visited) + 1) /\ DOMAIN visited = 1..Len(visited)
       /\ \A k \in 1..Len(visited) : visited'[k] = visited[k] /\ Before(k)' = Before(k)
       /\ visited'[Len(visited) + 1] = n
       /\ Len(visited) \in Nat
       /\ \A k \in Nat : k = Len(visited) + 1 => Before(k)' = Visited
  BY <1>1, <1>2, VisitedShape, BeforeShape
<1>11. \A k \in DOMAIN visited' : k \in DOMAIN visited \/ (k = Len(visited) + 1 /\ k \in Nat)
  BY <1>10
<1>12. VisitedAfterNeeds'
  <2>0. \A k \in DOMAIN visited : VisitedAfter(k)
    BY DEF VisitedAfterNeeds, VisitedAfter, Before
  <2>1. ASSUME NEW k \in DOMAIN visited' PROVE VisitedAfter(k)'
    <3>1. CASE k \in DOMAIN visited
      <4>1. VisitedAfter(k)
        BY <2>0, <3>1
      <4> QED
        BY <1>1, <1>10, <3>1, <4>1 DEF VisitedAfter
    <3>2. CASE k = Len(visited) + 1 /\ k \in Nat
      BY <1>1, <1>2, <1>4, <1>10, <3>2 DEF VisitedAfter
    <3> QED
      BY <1>11, <2>1, <3>1, <3>2
  <2> QED
    BY <2>1 DEF VisitedAfterNeeds, VisitedAfter, Before
<1>13. FirstDefinedFirst'
  <2>0. goal = "topological_order" => \A k \in DOMAIN visited : DefinedFirst(k)
    BY DEF FirstDefinedFirst, DefinedFirst, Before
  <2>1. ASSUME goal = "topological_order", NEW k \in DOMAIN visited' PROVE DefinedFirst(k)'
    <3>1. CASE k \in DOMAIN visited
      <4>1. DefinedFirst(k)
        BY <2>0, <2>1, <3>1
      <4> QED
        BY <1>1, <1>10, <3>1, <4>1 DEF DefinedFirst
    <3>2. CASE k = Len(visited) + 1 /\ k \in Nat
      <4> SUFFICES ASSUME NEW m \in Ids(def), m \notin Visited, needsOf(def)[m] \subseteq Visited
                   PROVE  Position(def, n) <= Position(def, m)
        BY <1>1, <1>10, <3>2 DEF DefinedFirst
      <4>1. m \in ready
        BY <1>1, <1>2, NotWaiting DEF ReadyIsExact
      <4> QED
        BY <2>1, <4>1 DEF Take, Takeable
    <3> QED
      BY <1>11, <2>1, <3>1, <3>2
  <2> QED
    BY <1>1, <2>1 DEF FirstDefinedFirst, DefinedFirst, Before
<1> QED
  BY <1>5, <1>6, <1>7, <1>8, <1>9, <1>12, <1>13

LEMMA FollowKeeps ==
    ASSUME IInv, NEW e \in work, Follow(e)
    PROVE  IInv'
<1> USE DEF IInv
<1>1. /\ indegree' = [indegree EXCEPT ![e.to] = @ - 1]
      /\ ready' = IF indegree[e.to] = 1 THEN ready \cup {e.to} ELSE ready
      /\ work' = work \ {e} /\ UNCHANGED <<def, goal, visited>>
  BY DEF Follow
<1>2. /\ def \in Definition /\ e \in Edges(def) /\ e.to \in Ids(def) /\ e.to \in Names
      /\ indegree \in [Names -> Nat]
  BY EdgeShape DEF TypeOK
<1>3. Visited' = Visited
  BY <1>1 DEF Visited
<1>4. /\ e \in Remaining(e.to) /\ Remaining(e.to)' = Remaining(e.to) \ {e}
      /\ \A m \in Names : m # e.to => Remaining(m)' = Remaining(m)
  BY <1>1, <1>2, <1>3 DEF Remaining, Into, WorkIsOfVisited
<1>5. /\ IsFiniteSet(Remaining(e.to) \ {e})
      /\ Cardinality(Remaining(e.to) \ {e}) = Cardinality(Remaining(e.to)) - 1
      /\ Cardinality(Remaining(e.to) \ {e}) \in Nat
  BY <1>2, <1>4, FS_RemoveElement, FS_CardinalityType DEF CountersCount
<1>6. \A m \in Names : indegree'[m] = IF m = e.to THEN indegree[m] - 1 ELSE indegree[m]
  BY <1>1, <1>2
<1>7. indegree[e.to] - 1 \in Nat /\ indegree[e.to] # 0
  BY <1>2, <1>5 DEF CountersCount
<1>8. TypeOK'
  <2>1. indegree' \in [Names -> Nat]
    BY <1>1, <1>2, <1>7
  <2> QED
    BY <1>1, <1>2, <2>1 DEF TypeOK
<1>9. CountersCount'
  BY <1>4, <1>5, <1>6 DEF CountersCount
<1>10. WorkIsOfVisited' /\ VisitsAreCounted' /\ VisitedIsAcyclic'
  BY <1>1, <1>3 DEF WorkIsOfVisited, VisitsAreCounted, VisitedIsAcyclic
<1>11. ReadyIsExact'
  <2>1. e.to \notin Visited
    BY <1>7 DEF ReadyIsExact
  <2>2. \A m \in Visited : m \in Names
    BY <1>2, EdgeShape DEF Visited, TypeOK
  <2>3. \A m \in Ids(def) : m \in Names
    BY <1>2, EdgeShape
  <2> QED
    BY <1>1, <1>2, <1>3, <1>6, <1>7, <2>1, <2>2, <2>3 DEF ReadyIsExact
<1>12. VisitedAfterNeeds' /\ FirstDefinedFirst'
  BY <1>1 DEF VisitedAfterNeeds, FirstDefinedFirst
<1> QED
  BY <1>8, <1>9, <1>10, <1>11, <1>12

LEMMA InitInv == Init => IInv
<1> SUFFICES ASSUME Init PROVE IInv
  OBVIOUS
<1>1. def \in Definition /\ Ids(def) \subseteq Names
  BY DefinitionsAssumption, EdgeShape DEF Init
<1>2. Visited = {} /\ work = {}
  BY DEF Init, Visited
<1>3. \A n \in Names : /\ Remaining(n) = Into(def, n) /\ IsFiniteSet(Into(def, n))
                       /\ Cardinality(Into(def, n)) \in Nat
                       /\ indegree[n] = Cardinality(Into(def, n))
  <2> SUFFICES ASSUME NEW n \in Names
               PROVE  /\ Remaining(n) = Into(def, n) /\ IsFiniteSet(Into(def, n))
                      /\ Cardinality(Into(def, n)) \in Nat
                      /\ indegree[n] = Cardinality(Into(def, n))
    OBVIOUS
  <2>1. Remaining(n) = Into(def, n)
    BY <1>2 DEF Remaining
  <2>2. Into(def, n) \subseteq AllEdges
    BY <1>1, EdgeShape
  <2>3. IsFiniteSet(Into(def, n)) /\ Cardinality(Into(def, n)) \in Nat
    BY <2>2, EdgesAreFinite, FS_Subset, FS_CardinalityType
  <2> QED
    BY <2>1, <2>3 DEF Init, InitialIndegree
<1>4. TypeOK
  <2>1. indegree \in [Names -> Nat]
    BY <1>3 DEF Init, InitialIndegree
  <2> QED
    BY <1>1, <2>1 DEF Init, TypeOK
<1>5. CountersCount /\ WorkIsOfVisited /\ ReadyIsExact
  BY <1>1, <1>2, <1>3 DEF CountersCount, WorkIsOfVisited, ReadyIsExact, Init
<1>6. VisitsAreCounted
  BY <1>2, FS_EmptySet DEF VisitsAreCounted, Init
<1>7. VisitedIsAcyclic
  BY <1>2 DEF VisitedIsAcyclic, Acyclic
<1>8. VisitedAfterNeeds /\ FirstDefinedFirst
  BY DEF Init, VisitedAfterNeeds, FirstDefinedFirst
<1> QED
  BY <1>4, <1>5, <1>6, <1>7, <1>8 DEF IInv

LEMMA StepInvariant == IInv /\ [Next]_vars => IInv'
<1> SUFFICES ASSUME IInv, [Next]_vars PROVE IInv'
  OBVIOUS
<1>1. CASE UNCHANGED vars
  <2> USE <1>1 DEF vars, IInv
  <2>1. TypeOK' /\ WorkIsOfVisited' /\ ReadyIsExact' /\ VisitsAreCounted' /\ VisitedIsAcyclic'
    BY DEF TypeOK, WorkIsOfVisited, ReadyIsExact, VisitsAreCounted, VisitedIsAcyclic, Visited
  <2>2. CountersCount'
    BY DEF CountersCount, Remaining, Visited
  <2>3. VisitedAfterNeeds' /\ FirstDefinedFirst'
    BY DEF VisitedAfterNeeds, FirstDefinedFirst
  <2> QED
    BY <2>1, <2>2, <2>3
<1>2. ASSUME NEW n \in ready, Take(n) PROVE IInv'
  BY <1>2, TakeKeeps
<1>3. ASSUME NEW e \in work, Follow(e) PROVE IInv'
  BY <1>3, FollowKeeps
<1> QED
  BY <1>1, <1>2, <1>3 DEF Next, Done

LEMMA Invariant == Spec => []IInv
BY InitInv, StepInvariant, PTL DEF Spec

-----------------------------------------------------------------------------

(* The counters stay natural numbers although edges are repeated, and only *)
(* ids of the definition are ever ready or visited.                        *)
THEOREM TypeCorrect == Spec => []TypeOK
<1>1. IInv => TypeOK
  BY DEF IInv
<1> QED
  BY <1>1, Invariant, PTL

(* Whatever order _has_cycle takes the ready jobs in, and topological_order *)
(* in its own, no job is visited before a job that it needs, or twice.     *)
THEOREM NeedsComeFirst == Spec => []VisitedAfterNeeds
<1>1. IInv => VisitedAfterNeeds
  BY DEF IInv
<1> QED
  BY <1>1, Invariant, PTL

(* topological_order takes the first defined of the jobs that could come   *)
(* next.                                                                   *)
THEOREM OrderIsOfDefinition == Spec => []FirstDefinedFirst
<1>1. IInv => FirstDefinedFirst
  BY DEF IInv
<1> QED
  BY <1>1, Invariant, PTL

(* validate_dag's answer is right for every definition: without errors in  *)
(* the ids, the algorithm visits all jobs if and only if there is no cycle. *)
THEOREM ValidationIsExact == Spec => []AcceptsExactlyDags
<1>1. ASSUME IInv, Finished, ~DuplicateIds(def)
      PROVE  ~Incomplete <=> Acyclic(needsOf(def), Ids(def))
  <2> USE DEF IInv
  <2>1. /\ def \in Definition /\ Ids(def) \subseteq Names /\ Visited \subseteq Ids(def)
        /\ IsFiniteSet(Ids(def)) /\ Cardinality(Ids(def)) = N
        /\ work = {} /\ ready = {}
    BY <1>1, EdgeShape, UniqueIds DEF TypeOK, Visited, Finished
  <2>2. Len(visited) = N <=> Visited = Ids(def)
    BY <1>1, <2>1, FS_Subset DEF VisitsAreCounted
  <2>3. Visited = Ids(def) => Acyclic(needsOf(def), Ids(def))
    BY <1>1 DEF VisitedIsAcyclic
  <2>4. ASSUME Acyclic(needsOf(def), Ids(def)), Visited # Ids(def) PROVE FALSE
    <3>1. PICK j \in Ids(def) \ Visited : needsOf(def)[j] \cap (Ids(def) \ Visited) = {}
      BY <2>1, <2>4 DEF Acyclic
    <3>2. needsOf(def)[j] \subseteq Visited
      BY <2>1, <3>1, NeedsAreIds
    <3>3. indegree[j] = 0
      BY <1>1, <2>1, <3>2, NotWaiting
    <3> QED
      BY <1>1, <2>1, <3>3 DEF ReadyIsExact
  <2> QED
    BY <2>2, <2>3, <2>4 DEF Incomplete
<1>2. IInv => AcceptsExactlyDags
  BY <1>1 DEF AcceptsExactlyDags, Accepted
<1> QED
  BY <1>2, Invariant, PTL
=============================================================================
