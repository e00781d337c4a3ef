--------------------------- MODULE PlanValidation ---------------------------
(***************************************************************************)
(* _validate_plan of src/draftbench/ledger.py, which every plan passes     *)
(* before a ledger is created for it and again whenever the ledger is       *)
(* verified: the rows are scanned for duplicate ids, the dependencies for   *)
(* unknown ones, and a queue of items without open dependencies (Kahn's     *)
(* algorithm) decides whether there is a cycle.  The format of a row is     *)
(* left out.                                                               *)
(***************************************************************************)
EXTENDS Integers, Sequences, FiniteSets, Filters

CONSTANTS
    Ids,       \* the ids that rows and dependencies may name
    MaxRows    \* bound on the rows of a plan, at least 1

VARIABLES
    plan,      \* the rows: [work_id, dependencies], the latter in any order
    verdict,   \* "running", "accepted" or "refused"
    degree,    \* degree[id]: the open dependencies of the item
    ready,     \* the queue
    seen       \* how many items have left the queue

vars == <<plan, verdict, degree, ready, seen>>

Rows == 1..Len(plan)

Known == {plan[i].work_id : i \in Rows}

DistinctIds == \A i, j \in Rows : plan[i].work_id = plan[j].work_id => i = j

DependenciesKnown == \A i \in Rows : plan[i].dependencies \subseteq Known

Children(id) == {plan[i].work_id : i \in {j \in Rows : id \in plan[j].dependencies}}

(* The ids of a set, in the order of their rows. *)
InRowOrder(set) ==
    LET ids == [i \in Rows |-> plan[i].work_id]
    IN  Only(ids, set)

Init ==
    /\ plan \in UNION {[1..n -> [work_id : Ids, dependencies : SUBSET Ids]] : n \in 1..MaxRows}
    /\ verdict = "running"
    /\ degree = <<>>
    /\ ready = <<>>
    /\ seen = 0

(* The scan of the rows and of their dependencies. *)
Scan ==
    /\ verdict = "running" /\ degree = <<>>
    /\ IF DistinctIds /\ DependenciesKnown
       THEN LET count == [id \in Known |->
                    Cardinality({d \in Known : id \in Children(d)})]
            IN  /\ degree' = count
                /\ ready' = InRowOrder({id \in Known : count[id] = 0})
                /\ UNCHANGED verdict
       ELSE /\ verdict' = "refused"
            /\ UNCHANGED <<degree, ready>>
    /\ UNCHANGED <<plan, seen>>

(* Mutant: an item is queued when one of its dependencies is still open. *)
Closed_early(n) == n <= 1

(* What degree an item must have come down to before it is queued. *)
Closed(n) == n = 0

Pop ==
    /\ verdict = "running" /\ ready # <<>>
    /\ LET freed == Children(Head(ready)) IN
        /\ degree' = [id \in Known |-> IF id \in freed THEN degree[id] - 1 ELSE degree[id]]
        /\ ready' = Tail(ready) \o
              InRowOrder({id \in freed : Closed(degree[id] - 1)})
    /\ seen' = seen + 1
    /\ UNCHANGED <<plan, verdict>>

Decide ==
    /\ verdict = "running" /\ degree # <<>> /\ ready = <<>>
    /\ verdict' = IF seen = Len(plan) THEN "accepted" ELSE "refused"
    /\ UNCHANGED <<plan, degree, ready, seen>>

Next == Scan \/ Pop \/ Decide

Spec == Init /\ [][Next]_vars

-----------------------------------------------------------------------------
(* Some order of the rows puts every dependency before what depends on it.  *)
Orders == {f \in [Rows -> Rows] : \A i, j \in Rows : f[i] = f[j] => i = j}

Orderable ==
    \E position \in Orders : \A i, j \in Rows :
        plan[j].work_id \in plan[i].dependencies => position[j] < position[i]

(* The verdict is right: a plan is accepted if and only if its ids are      *)
(* distinct, its dependencies known, and its items can be done in an order. *)
VerdictIsRight ==
    verdict # "running" =>
        (verdict = "accepted" <=> DistinctIds /\ DependenciesKnown /\ Orderable)
=============================================================================
