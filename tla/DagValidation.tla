--------------------------- MODULE DagValidation ---------------------------
(***************************************************************************)
(* The validation of a definition's graph (workflow/dag.py): duplicate and *)
(* unknown ids, and Kahn's algorithm, once as _has_cycle, which takes the  *)
(* ready jobs in any order, and once as topological_order, which takes the *)
(* first defined.                                                          *)
(*                                                                         *)
(* Jobs are their positions in the definition.  Ids may repeat, and so may *)
(* the entries of a job's needs; the algorithm runs over ids, and counts   *)
(* every entry, as the code's dictionaries and lists do.                   *)
(***************************************************************************)
EXTENDS Naturals, FiniteSets, Sequences, Dag

CONSTANTS
    N,              \* number of jobs
    Names,          \* ids
    Copies,         \* how often a job may repeat an entry of its needs
    Definitions     \* the definitions to validate

Jobs == 1..N
Entry == [name: Names, copy: 1..Copies]
Definition == [id: [Jobs -> Names], needs: [Jobs -> SUBSET Entry]]

ASSUME NAssumption == N \in Nat \ {0}
ASSUME CopiesAssumption == Copies \in Nat
ASSUME NamesAssumption == IsFiniteSet(Names)
ASSUME DefinitionsAssumption == Definitions \subseteq Definition

VARIABLES
    def,        \* the definition; never changes
    goal,       \* the function that runs: "has_cycle" or "topological_order"
    indegree,   \* entries of a job that are not accounted for yet
    ready,      \* ids whose count has reached zero
    visited,    \* ids taken from `ready', in order
    work        \* edges of the last of them that are still to be followed

vars == <<def, goal, indegree, ready, visited, work>>

-----------------------------------------------------------------------------
(* The definition *)

Ids(d) == {d.id[j] : j \in Jobs}

DuplicateIds(d) == \E i, j \in Jobs : i # j /\ d.id[i] = d.id[j]
UnknownDependency(d) == \E j \in Jobs : \E e \in d.needs[j] : e.name \notin Ids(d)

(* _build_graph: one edge per entry that names a job. *)
Edges(d) ==
    UNION {{[from |-> e.name, to |-> d.id[j], job |-> j, copy |-> e.copy] :
                e \in {x \in d.needs[j] : x.name \in Ids(d)}} : j \in Jobs}
Into(d, n) == {e \in Edges(d) : e.to = n}

OutOf(d, n) == {e \in Edges(d) : e.from = n}

(* The position of an id is that of the last job that has it. *)
Position(d, n) == CHOOSE j \in Jobs : d.id[j] = n /\ \A k \in Jobs : d.id[k] = n => k <= j

(* The dependencies between ids, without their multiplicity. *)
needsOf(d) == [n \in Names |-> {e.from : e \in Into(d, n)}]

-----------------------------------------------------------------------------
(* The algorithm *)

Visited == {visited[k] : k \in DOMAIN visited}
Finished == work = {} /\ ready = {}

TypeOK ==
    /\ def \in Definition
    /\ goal \in {"has_cycle", "topological_order"}
    /\ indegree \in [Names -> Nat]
    /\ ready \subseteq Ids(def)
    /\ visited \in Seq(Ids(def))
    /\ work \subseteq Edges(def)

(* Counting a dependency that is named twice once, or not counting one of  *)
(* a job on itself:                                                        *)
DistinctIndegree(d) == [n \in Names |-> Cardinality({e.from : e \in Into(d, n)})]
IndegreeFromOthers(d) == [n \in Names |-> Cardinality({e \in Into(d, n) : e.from # n})]

InitialIndegree(d) == [n \in Names |-> Cardinality(Into(d, n))]

Init ==
    /\ def \in Definitions
    /\ goal \in {"has_cycle", "topological_order"}
    /\ indegree = InitialIndegree(def)
    /\ ready = {n \in Ids(def) : indegree[n] = 0}
    /\ visited = <<>>
    /\ work = {}

(* Taking the ready jobs in any order for both functions: *)
TakeableAlways(n) == n \in ready

(* topological_order keeps `ready' sorted; for _has_cycle the order does   *)
(* not matter.                                                             *)
Takeable(n) ==
    /\ n \in ready
    /\ goal = "topological_order" =>
        \A m \in ready : Position(def, n) <= Position(def, m)

Take(n) ==
    /\ work = {}
    /\ Takeable(n)
    /\ ready' = ready \ {n}
    /\ visited' = Append(visited, n)
    /\ work' = OutOf(def, n)
    /\ UNCHANGED <<def, goal, indegree>>

(* A job that is ready as soon as one of its dependencies was visited: *)
FollowEagerly(e) ==
    /\ indegree' = [indegree EXCEPT ![e.to] = @ - 1]
    /\ ready' = ready \cup {e.to}
    /\ work' = work \ {e}
    /\ UNCHANGED <<def, goal, visited>>

Follow(e) ==
    /\ indegree' = [indegree EXCEPT ![e.to] = @ - 1]
    /\ ready' = IF indegree[e.to] = 1 THEN ready \cup {e.to} ELSE ready
    /\ work' = work \ {e}
    /\ UNCHANGED <<def, goal, visited>>

Done == Finished /\ UNCHANGED vars

Next ==
    \/ \E n \in ready : Take(n)
    \/ \E e \in work : Follow(e)
    \/ Done

Spec == Init /\ [][Next]_vars

(* _has_cycle's answer, and why topological_order would raise. *)
Incomplete == Len(visited) # N

(* validate_dag: no error. *)
Accepted(d, cyclic) == ~DuplicateIds(d) /\ ~UnknownDependency(d) /\ ~cyclic

-----------------------------------------------------------------------------
(* Properties *)

(* No job is visited before everything it needs, or twice, although        *)
(* dependencies repeat and ids may be shared (_has_cycle,                  *)
(* topological_order).                                                     *)
VisitedAfterNeeds ==
    \A k \in DOMAIN visited :
        LET before == {visited[i] : i \in 1..(k - 1)} IN
        needsOf(def)[visited[k]] \subseteq before \ {visited[k]} /\ visited[k] \notin before

(* validate_dag accepts exactly the definitions with unique ids, known     *)
(* dependencies and no cycle, whatever order the ready jobs are taken in   *)
(* and whether or not dependencies repeat.  This is the guarantee that the *)
(* interpreter's batch loop relies on.                                     *)
AcceptsExactlyDags ==
    Finished =>
        (Accepted(def, Incomplete) <=>
            /\ ~DuplicateIds(def) /\ ~UnknownDependency(def)
            /\ Acyclic(needsOf(def), Ids(def)))

(* topological_order is the order it claims: of the jobs whose needs were  *)
(* visited, always the one that is defined first.                          *)
FirstDefinedFirst ==
    goal = "topological_order" =>
        \A k \in DOMAIN visited, n \in Ids(def) :
            LET before == {visited[i] : i \in 1..(k - 1)} IN
            n \notin before /\ needsOf(def)[n] \subseteq before
                => Position(def, visited[k]) <= Position(def, n)
=============================================================================
