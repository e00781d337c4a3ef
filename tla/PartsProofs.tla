----------------------------- MODULE PartsProofs -----------------------------
(***************************************************************************)
(* Proofs about the parts that stand by themselves: the artifact store for  *)
(* any number of processes, contents, puts, deaths and power losses; the     *)
(* judgement of a plan, for plans of any length; the scores of findings,     *)
(* decisions and checks, for reviews, references, bundles and rubrics of any *)
(* size; the reading of a judge's reply, for any panel and any number of     *)
(* rows; the figures of the judge report, for any panels, verdicts and       *)
(* pointwise answers; and the admission of attempts, for any policies,       *)
(* usages, precision and number of attempts.                                *)
(***************************************************************************)
EXTENDS Parts, FoldFacts

(* A name leads to a synced file only, and the disk's view of a name never *)
(* differs from the current one once there is one.                         *)
LinkedIsDurable == \A d \in Digests : cached[d] # None => data[cached[d]] = "durable"

DiskFollows == \A d \in Digests : synced[d] # None => synced[d] = cached[d]

Staging(w) == At(w, "stage") \/ At(w, "sync")

(* A staging file belongs to one process. *)
StagesApart ==
    \A v, w \in Writers : v # w /\ Staging(v) /\ Staging(w) => put[v].file # put[w].file

(* What a process knows at each step of its put. *)
PutKnows ==
    \A w \in Writers :
        /\ ~At(w, "idle") => Digest(w) \in Digests
        /\ Staging(w) => put[w].file \in Files /\ data[put[w].file] \in {"torn", "written"}
        /\ At(w, "link") => put[w].file \in Files /\ data[put[w].file] = "durable"
        /\ At(w, "check") \/ At(w, "syncdir") => cached[Digest(w)] # None

IInv ==
    /\ TypeOK /\ LinkedIsDurable /\ DiskFollows /\ PutKnows /\ StagesApart
    /\ \A d \in acked : synced[d] # None

LEMMA InitInvariant == Init => IInv
BY NoneAssumption DEF Init, IInv, TypeOK, LinkedIsDurable, DiskFollows, PutKnows, Staging, StagesApart, Idle, Puts,
   Steps, FileStates, At, Digest

(* The steps that only move a put along. *)
LEMMA PutSteps ==
    ASSUME IInv, NEW w \in Writers, NEW d \in Digests,
           Begin(w, d) \/ FindNothing(w) \/ ReadBack(w) \/ Dies(w)
    PROVE  IInv'
BY NoneAssumption DEF Begin, FindNothing, ReadBack, Dies, Whole, Quit, Goto, IInv, TypeOK,
   LinkedIsDurable, DiskFollows, PutKnows, Staging, StagesApart, Idle, Puts, Steps, At, Digest

(* An object that is found is synced: it was, already. *)
LEMMA FindExistingStep ==
    ASSUME IInv, NEW w \in Writers, FindExisting(w)
    PROVE  IInv'
<1>1. Digest(w) \in Digests /\ cached[Digest(w)] # None
  BY DEF FindExisting, Whole, IInv, PutKnows, At
<1>2. data[cached[Digest(w)]] = "durable"
  BY <1>1 DEF IInv, LinkedIsDurable
<1>3. data' = data
  BY <1>2 DEF FindExisting, IInv, TypeOK
<1>4. put' = [put EXCEPT ![w].pc = "syncdir"] /\ UNCHANGED <<cached, synced, acked>>
  BY DEF FindExisting, Goto
<1> QED
  BY <1>1, <1>3, <1>4 DEF IInv, TypeOK, LinkedIsDurable, DiskFollows, PutKnows, Staging,
     StagesApart, Puts, Steps, At, Digest

(* A new file belongs to nobody else. *)
LEMMA CreateStageStep ==
    ASSUME IInv, NEW w \in Writers, NEW f \in Files, CreateStage(w, f)
    PROVE  IInv'
<1>1. /\ data[f] = "unused" /\ data' = [data EXCEPT ![f] = "torn"]
      /\ UNCHANGED <<cached, synced, acked>>
  BY DEF CreateStage
<1>2. PICK p : p = [put[w] EXCEPT !.pc = "stage", !.file = f]
  OBVIOUS
<1>3. /\ put[w] \in Puts /\ put[w].digest \in Digests
      /\ put' = [put EXCEPT ![w] = p]
  BY <1>2 DEF CreateStage, IInv, TypeOK, PutKnows, At, Digest
<1>4. /\ p \in Puts /\ p.pc = "stage" /\ p.file = f /\ p.digest \in Digests
  BY <1>2, <1>3 DEF Puts, Steps
<1>5. put'[w] = p /\ \A v \in Writers : v # w => put'[v] = put[v]
  BY <1>3 DEF IInv, TypeOK
<1>6. TypeOK'
  BY <1>1, <1>3, <1>4 DEF IInv, TypeOK, FileStates
<1>7. LinkedIsDurable' /\ DiskFollows'
  BY <1>1 DEF IInv, TypeOK, LinkedIsDurable, DiskFollows
<1>8. data'[f] = "torn" /\ \A g \in Files : g # f => data'[g] = data[g]
  BY <1>1 DEF IInv, TypeOK
<1>9. PutKnows'
  BY <1>1, <1>4, <1>5, <1>8 DEF IInv, PutKnows, Staging, At, Digest
<1>10. StagesApart'
  BY <1>1, <1>4, <1>5 DEF IInv, PutKnows, StagesApart, Staging, At
<1> QED
  BY <1>1, <1>6, <1>7, <1>9, <1>10 DEF IInv

(* Nothing is linked to a file that is being staged. *)
LEMMA WriteStageStep ==
    ASSUME IInv, NEW w \in Writers, WriteStage(w)
    PROVE  IInv'
BY NoneAssumption DEF WriteStage, Goto, Quit, Whole, IInv,
   TypeOK, LinkedIsDurable, DiskFollows, PutKnows, Staging,
   StagesApart, FileStates, Idle, Puts, Steps, At, Digest

(* Before it is linked the file is on the disk. *)
LEMMA SyncStageStep ==
    ASSUME IInv, NEW w \in Writers, SyncStage(w)
    PROVE  IInv'
BY NoneAssumption DEF SyncStage, Flushed, Goto, Quit, Whole, IInv,
   TypeOK, LinkedIsDurable, DiskFollows, PutKnows, Staging,
   StagesApart, FileStates, Idle, Puts, Steps, At, Digest

(* So a new name leads to a synced file. *)
LEMMA LinkStep ==
    ASSUME IInv, NEW w \in Writers, Link(w)
    PROVE  IInv'
BY NoneAssumption DEF Link, Goto, Quit, Whole, IInv,
   TypeOK, LinkedIsDurable, DiskFollows, PutKnows, Staging,
   StagesApart, FileStates, Idle, Puts, Steps, At, Digest

(* The name is on the disk before put returns. *)
LEMMA SyncDirectoryStep ==
    ASSUME IInv, NEW w \in Writers, SyncDirectory(w)
    PROVE  IInv'
BY NoneAssumption DEF SyncDirectory, Goto, Quit, Whole, IInv,
   TypeOK, LinkedIsDurable, DiskFollows, PutKnows, Staging,
   StagesApart, FileStates, Idle, Puts, Steps, At, Digest

(* A power loss takes back names that no put has returned, and bytes that   *)
(* no name leads to.                                                       *)
LEMMA PowerLossStep ==
    ASSUME IInv, PowerLoss
    PROVE  IInv'
<1>1. /\ data' \in [Files -> FileStates]
      /\ \A f \in Files : data[f] = "durable" => data'[f] = "durable"
  BY DEF PowerLoss, IInv, TypeOK
<1>2. /\ cached' \in [Digests -> Files \cup {None}]
      /\ \A d \in Digests : cached'[d] \in {synced[d], cached[d]}
  BY DEF PowerLoss
<1>3. synced' = cached' /\ acked' = acked /\ put' = [w \in Writers |-> Idle]
  BY DEF PowerLoss
<1>4. TypeOK'
  BY <1>1, <1>2, <1>3, NoneAssumption DEF IInv, TypeOK, Idle, Puts, Steps
<1>5. LinkedIsDurable' /\ DiskFollows'
  BY <1>1, <1>2, <1>3 DEF IInv, TypeOK, LinkedIsDurable, DiskFollows
<1>6. PutKnows' /\ StagesApart'
  BY <1>3 DEF PutKnows, StagesApart, Staging, At, Idle
<1>7. \A d \in acked' : synced'[d] # None
  BY <1>2, <1>3 DEF IInv, TypeOK, DiskFollows
<1> QED
  BY <1>4, <1>5, <1>6, <1>7 DEF IInv

LEMMA StepPreserves ==
    ASSUME IInv, [Next]_vars
    PROVE  IInv'
<1>1. CASE UNCHANGED vars
  BY <1>1 DEF vars, IInv, TypeOK, LinkedIsDurable, DiskFollows, PutKnows, Staging, StagesApart,
     At, Digest
<1>2. ASSUME NEW w \in Writers, NEW d \in Digests, Begin(w, d)
      PROVE  IInv'
  BY <1>2, PutSteps
<1>3. ASSUME NEW w \in Writers, NEW f \in Files, CreateStage(w, f)
      PROVE  IInv'
  BY <1>3, CreateStageStep
<1>4. ASSUME NEW w \in Writers, FindExisting(w)
      PROVE  IInv'
  BY <1>4, FindExistingStep
<1>5. ASSUME NEW w \in Writers, FindNothing(w) \/ ReadBack(w) \/ Dies(w)
      PROVE  IInv'
  <2>1. Digest(w) \in Digests
    BY <1>5 DEF FindNothing, ReadBack, Dies, At, IInv, PutKnows
  <2> QED
    BY <1>5, <2>1, PutSteps
<1>6. ASSUME NEW w \in Writers,
             WriteStage(w) \/ SyncStage(w) \/ Link(w) \/ SyncDirectory(w)
      PROVE  IInv'
  BY <1>6, WriteStageStep, SyncStageStep, LinkStep, SyncDirectoryStep
<1>7. CASE PowerLoss
  BY <1>7, PowerLossStep
<1> QED
  BY <1>1, <1>2, <1>3, <1>4, <1>5, <1>6, <1>7 DEF Next

-----------------------------------------------------------------------------
(* How far each put has come, and that every name, in the cache or on the disk,  *)
(* is that of a file whose bytes are on the disk.                            *)
THEOREM Invariance == Spec => []IInv
BY InitInvariant, StepPreserves, PTL DEF Spec

(* No reader ever finds incomplete bytes under a digest.                   *)
THEOREM ObjectsWhole == Spec => []NeverTorn
<1>1. IInv => NeverTorn
  BY DEF IInv, TypeOK, LinkedIsDurable, NeverTorn, Whole
<1> QED
  BY <1>1, Invariance, PTL

(* What put has returned is there after any deaths and power losses.       *)
THEOREM AckedDurable == Spec => []AckedSurvives
<1>1. IInv => AckedSurvives
  BY DEF IInv, TypeOK, LinkedIsDurable, DiskFollows, AckedSurvives
<1> QED
  BY <1>1, Invariance, PTL

-----------------------------------------------------------------------------
-----------------------------------------------------------------------------
(* What two sequences in a row consist of, and when no element is there twice. *)
LEMMA Joined ==
    ASSUME NEW S, NEW t \in Seq(S), NEW u \in Seq(S), NEW r, r = t \o u
    PROVE  /\ r \in Seq(S) /\ Len(r) = Len(t) + Len(u) /\ Len(t) \in Nat /\ Len(u) \in Nat
           /\ \A i \in 1..Len(t) : i \in 1..Len(r) /\ r[i] = t[i]
           /\ \A i \in 1..Len(u) : Len(t) + i \in 1..Len(r) /\ r[Len(t) + i] = u[i]
           /\ \A i \in 1..Len(r) :
                  \/ i \in 1..Len(t) /\ r[i] = t[i]
                  \/ i \notin 1..Len(t) /\ i - Len(t) \in 1..Len(u) /\ r[i] = u[i - Len(t)]
<1>1. Len(t) \in Nat /\ Len(u) \in Nat /\ r \in Seq(S) /\ Len(r) = Len(t) + Len(u)
  OBVIOUS
<1>2. \A i \in 1..Len(r) : r[i] = IF i <= Len(t) THEN t[i] ELSE u[i - Len(t)]
  OBVIOUS
<1>3. \A i \in 1..Len(u) : Len(t) + i \in 1..Len(r) /\ ~(Len(t) + i <= Len(t)) /\ Len(t) + i - Len(t) = i
  BY <1>1
<1>4. \A i \in 1..Len(u) : r[Len(t) + i] = u[i]
  BY <1>2, <1>3
<1>5. \A i \in 1..Len(t) : i \in 1..Len(r) /\ r[i] = t[i]
  BY <1>1, <1>2
<1>6. ASSUME NEW i \in 1..Len(r), i \notin 1..Len(t)
      PROVE  i - Len(t) \in 1..Len(u) /\ r[i] = u[i - Len(t)]
  BY <1>1, <1>2, <1>6
<1> QED
  BY <1>1, <1>2, <1>3, <1>4, <1>5, <1>6

LEMMA JoinedOnce ==
    ASSUME NEW S, NEW t \in Seq(S), NEW u \in Seq(S), NEW r, r = t \o u,
           \A i, j \in 1..Len(t) : t[i] = t[j] => i = j,
           \A i, j \in 1..Len(u) : u[i] = u[j] => i = j,
           \A i \in 1..Len(t), j \in 1..Len(u) : t[i] # u[j]
    PROVE  \A i, j \in 1..Len(r) : r[i] = r[j] => i = j
<1>1. /\ Len(r) \in Nat /\ Len(t) \in Nat
      /\ \A i \in 1..Len(r) :
             \/ i \in 1..Len(t) /\ r[i] = t[i]
             \/ i \notin 1..Len(t) /\ i - Len(t) \in 1..Len(u) /\ r[i] = u[i - Len(t)]
  BY Joined
<1> SUFFICES ASSUME NEW i \in 1..Len(r), NEW j \in 1..Len(r), r[i] = r[j]
             PROVE  i = j
  OBVIOUS
<1>2. CASE i \notin 1..Len(t) /\ j \notin 1..Len(t)
  <2>1. PICK k \in 1..Len(u) : k = i - Len(t) /\ r[i] = u[k]
    BY <1>1, <1>2
  <2>2. PICK l \in 1..Len(u) : l = j - Len(t) /\ r[j] = u[l]
    BY <1>1, <1>2
  <2>3. k = l
    BY <2>1, <2>2
  <2> QED
    BY <1>1, <2>1, <2>2, <2>3
<1>3. CASE i \in 1..Len(t) /\ j \in 1..Len(t)
  BY <1>1, <1>3
<1>4. CASE ~(i \in 1..Len(t) <=> j \in 1..Len(t))
  BY <1>1, <1>4
<1> QED
  BY <1>2, <1>3, <1>4

(* The judgement of a plan.                                                 *)

(* The items that an item still waits for. *)
Waits(id, done) == {d \in Plan!Known \ done : id \in Plan!Children(d)}

(* The items that have left the queue can be done in the order in which they  *)
(* left it.                                                                  *)
LeftInOrder(done, place) ==
    /\ done \in SUBSET Plan!Known
    /\ place \in [done -> 1..seen]
    /\ \A x, y \in done : place[x] = place[y] => x = y
    /\ Cardinality(done) = seen
    /\ \A x \in done, d \in Plan!Known :
          x \in Plan!Children(d) => d \in done /\ place[d] < place[x]

(* The queue holds the others that wait for nothing, each once. *)
Queued(done) ==
    /\ ready \in Seq(Plan!Known)
    /\ \A i, j \in 1..Len(ready) : ready[i] = ready[j] => i = j
    /\ \A i \in 1..Len(ready) : ready[i] \notin done /\ Waits(ready[i], done) = {}
    /\ \A id \in Plan!Known \ done :
          Waits(id, done) = {} => \E i \in 1..Len(ready) : ready[i] = id

Sorting(done, place) ==
    /\ LeftInOrder(done, place)
    /\ degree = [id \in Plan!Known |-> Cardinality(Waits(id, done))]
    /\ Queued(done)

PlanShape == \E n \in Nat \ {0} : plan \in [1..n -> [work_id : Ids, dependencies : SUBSET Ids]]

PlanInv ==
    /\ PlanShape
    /\ seen \in Nat
    /\ \/ /\ degree = <<>> /\ ready = <<>> /\ seen = 0
          /\ \/ verdict = "running"
             \/ verdict = "refused" /\ ~(Plan!DistinctIds /\ Plan!DependenciesKnown)
       \/ /\ degree # <<>>
          /\ Plan!DistinctIds /\ Plan!DependenciesKnown
          /\ \/ verdict = "running"
             \/ /\ verdict \in {"accepted", "refused"} /\ ready = <<>>
                /\ verdict = "accepted" <=> seen = Len(plan)
          /\ \E done, place : Sorting(done, place)

(* The modules that are instantiated count and filter as this one does. *)
LEMMA PlanOps ==
    /\ \A S : Plan!Cardinality(S) = Cardinality(S)
    /\ \A s, set : Plan!Only(s, set) = Only(s, set)
BY DEF Cardinality, Plan!Cardinality, Only, Plan!Only

(* What a plan is made of. *)
LEMMA PlanMade ==
    ASSUME PlanShape
    PROVE  /\ Len(plan) \in Nat \ {0} /\ Plan!Rows = 1..Len(plan)
           /\ IsFiniteSet(Plan!Known) /\ Plan!Known # {}
           /\ \A i \in 1..Len(plan) : plan[i].work_id \in Plan!Known
           /\ [i \in Plan!Rows |-> plan[i].work_id] \in Seq(Plan!Known)
           /\ \A id : Plan!Children(id) \in SUBSET Plan!Known
<1>1. PICK n \in Nat \ {0} : plan \in [1..n -> [work_id : Ids, dependencies : SUBSET Ids]]
  BY DEF PlanShape
<1>2. Len(plan) = n
  BY <1>1
<1>3. Plan!Rows = 1..n
  BY <1>2 DEF Plan!Rows
<1>4. Plan!Known = {plan[i].work_id : i \in 1..n}
  BY <1>3 DEF Plan!Known
<1>5. IsFiniteSet(Plan!Known)
  <2>1. IsFiniteSet(1..n)
    BY FS_Interval
  <2> DEFINE f == [i \in 1..n |-> plan[i].work_id]
  <2>2. f \in Surjection(1..n, Plan!Known)
    BY <1>4 DEF Surjection
  <2> HIDE DEF f
  <2> QED
    BY <2>1, <2>2, FS_Surjection
<1>6. 1 \in 1..n
  OBVIOUS
<1>7. \A i \in 1..n : plan[i].work_id \in Plan!Known
  BY <1>4
<1>8. \A id : Plan!Children(id) \in SUBSET Plan!Known
  BY <1>3, <1>4 DEF Plan!Children
<1> QED
  BY <1>1, <1>2, <1>3, <1>5, <1>6, <1>7, <1>8

(* The ids of a set, in the order of their rows, are each of them once. *)
LEMMA RowOrder ==
    ASSUME PlanShape, Plan!DistinctIds, NEW set, set \subseteq Plan!Known
    PROVE  /\ Plan!InRowOrder(set) \in Seq(Plan!Known)
           /\ \A k \in 1..Len(Plan!InRowOrder(set)) : Plan!InRowOrder(set)[k] \in set
           /\ \A j, k \in 1..Len(Plan!InRowOrder(set)) :
                  Plan!InRowOrder(set)[j] = Plan!InRowOrder(set)[k] => j = k
           /\ \A id \in set : \E k \in 1..Len(Plan!InRowOrder(set)) : Plan!InRowOrder(set)[k] = id
<1> DEFINE ids == [i \in Plan!Rows |-> plan[i].work_id]
           u == Only(ids, set)
<1>1. Plan!InRowOrder(set) = u
  BY PlanOps DEF Plan!InRowOrder
<1>2. /\ ids \in Seq(Plan!Known) /\ Len(ids) = Len(plan) /\ Plan!Rows = 1..Len(plan)
      /\ Len(plan) \in Nat
  BY PlanMade
<1>3. \A i \in 1..Len(ids) : ids[i] = plan[i].work_id
  BY <1>2
<1>4. \A i, j \in 1..Len(ids) : ids[i] = ids[j] => i = j
  BY <1>2, <1>3 DEF Plan!DistinctIds
<1>5. \A id \in set : \E i \in 1..Len(ids) : ids[i] = id
  BY <1>2, <1>3 DEF Plan!Known
<1> HIDE DEF ids
<1>6. u \in Seq(Plan!Known) /\ \E at : Picks(at, u, ids, set, Len(ids))
  BY <1>2, OnlyPicks
<1> HIDE DEF u
<1>7. PICK at : Picks(at, u, ids, set, Len(ids))
  BY <1>6
<1>8. /\ at \in [1..Len(u) -> 1..Len(ids)]
      /\ \A k \in 1..Len(u) : u[k] = ids[at[k]] /\ ids[at[k]] \in set
      /\ \A j, k \in 1..Len(u) : at[j] = at[k] => j = k
      /\ \A i \in 1..Len(ids) : ids[i] \in set => \E k \in 1..Len(u) : at[k] = i
  <2>1. Len(ids) \in Nat /\ Len(u) \in Nat
    BY <1>2, <1>6
  <2>2. Stands(at, u, ids, set)
    BY <1>7, <2>1, PickedMembers
  <2> QED
    BY <2>2 DEF Stands
<1>9. \A j, k \in 1..Len(u) : u[j] = u[k] => j = k
  BY <1>4, <1>8
<1>10. ASSUME NEW id \in set
       PROVE  \E k \in 1..Len(u) : u[k] = id
  <2>1. PICK i \in 1..Len(ids) : ids[i] = id
    BY <1>5
  <2>2. PICK k \in 1..Len(u) : at[k] = i
    BY <1>8, <2>1
  <2>3. u[k] = id
    BY <1>8, <2>1, <2>2
  <2> QED
    BY <2>3
<1> QED
  BY <1>1, <1>6, <1>8, <1>9, <1>10

LEMMA PlanInit ==
    ASSUME MaxRows \in Nat, Plan!Init
    PROVE  PlanInv
<1>1. PlanShape
  BY DEF Plan!Init, PlanShape
<1> QED
  BY <1>1 DEF Plan!Init, PlanInv

(* The scan finds a fault, or nothing has left the queue and every item with  *)
(* no dependency is in it.                                                   *)
LEMMA ScanStep ==
    ASSUME PlanInv, Plan!Scan
    PROVE  PlanInv'
<1>1. /\ PlanShape /\ PlanShape' /\ plan' = plan /\ seen = 0 /\ seen' = 0 /\ ready = <<>>
      /\ degree = <<>> /\ verdict = "running"
  BY DEF PlanInv, PlanShape, Plan!Scan
<1>2. /\ Plan!Known' = Plan!Known /\ Plan!DistinctIds' = Plan!DistinctIds
      /\ Plan!DependenciesKnown' = Plan!DependenciesKnown
      /\ \A id : Plan!Children(id)' = Plan!Children(id)
  BY <1>1 DEF Plan!Known, Plan!DistinctIds, Plan!DependenciesKnown, Plan!Children, Plan!Rows
<1>3. CASE ~(Plan!DistinctIds /\ Plan!DependenciesKnown)
  <2>1. verdict' = "refused" /\ degree' = <<>> /\ ready' = <<>>
    BY <1>1, <1>3 DEF Plan!Scan
  <2> QED
    BY <1>1, <1>2, <1>3, <2>1 DEF PlanInv
<1>4. CASE Plan!DistinctIds /\ Plan!DependenciesKnown
  <2> DEFINE count == [id \in Plan!Known |-> Cardinality(Waits(id, {}))]
             free == {id \in Plan!Known : count[id] = 0}
  <2>1. degree' = count /\ ready' = Plan!InRowOrder(free) /\ verdict' = "running"
    <3>1. \A id : {d \in Plan!Known : id \in Plan!Children(d)} = Waits(id, {})
      BY DEF Waits
    <3>2. \A S : Plan!Cardinality(S) = Cardinality(S)
      BY PlanOps
    <3> QED
      BY <1>1, <1>4, <3>1, <3>2 DEF Plan!Scan
  <2>2. IsFiniteSet(Plan!Known) /\ Plan!Known # {}
    BY <1>1, PlanMade
  <2>3. \A id : IsFiniteSet(Waits(id, {}))
    BY <2>2, FS_Subset DEF Waits
  <2>4. free = {id \in Plan!Known : Waits(id, {}) = {}}
    BY <2>3, FS_EmptySet
  <2>5. \A id : Waits(id, {})' = Waits(id, {})
    BY <1>2 DEF Waits
  <2>6. degree' # <<>>
    BY <2>1, <2>2
  <2> HIDE DEF free
  <2>7. free \subseteq Plan!Known
    BY <2>4
  <2>8. Queued({})'
    <3> DEFINE u == Plan!InRowOrder(free)
    <3>1. /\ u \in Seq(Plan!Known)
          /\ \A k \in 1..Len(u) : u[k] \in free
          /\ \A j, k \in 1..Len(u) : u[j] = u[k] => j = k
          /\ \A id \in free : \E k \in 1..Len(u) : u[k] = id
      BY <1>1, <1>4, <2>7, RowOrder
    <3>2. ready' = u
      BY <2>1
    <3> HIDE DEF u
    <3> QED
      BY <1>2, <2>4, <2>5, <3>1, <3>2 DEF Queued
  <2>9. LeftInOrder({}, <<>>)'
    <3>1. Cardinality({}) = 0
      BY FS_EmptySet
    <3>2. <<>> \in [{} -> 1..0]
      OBVIOUS
    <3> QED
      BY <1>1, <1>2, <3>1, <3>2 DEF LeftInOrder
  <2>10. Sorting({}, <<>>)'
    BY <1>2, <2>1, <2>5, <2>8, <2>9 DEF Sorting
  <2> QED
    BY <1>1, <1>2, <1>4, <2>1, <2>6, <2>10 DEF PlanInv
<1> QED
  BY <1>3, <1>4

(* The head of the queue leaves it; it was the last that some items waited for. *)
LEMMA PopStep ==
    ASSUME PlanInv, Plan!Pop
    PROVE  PlanInv'
<1>1. /\ PlanShape /\ PlanShape' /\ plan' = plan /\ seen \in Nat /\ seen' = seen + 1
      /\ ready # <<>> /\ verdict = "running" /\ verdict' = "running"
      /\ Plan!DistinctIds /\ Plan!DependenciesKnown
      /\ \E done, place : Sorting(done, place)
  BY DEF PlanInv, PlanShape, Plan!Pop
<1>2. /\ Plan!Known' = Plan!Known /\ Plan!DistinctIds' = Plan!DistinctIds
      /\ Plan!DependenciesKnown' = Plan!DependenciesKnown
      /\ \A id : Plan!Children(id)' = Plan!Children(id)
  BY <1>1 DEF Plan!Known, Plan!DistinctIds, Plan!DependenciesKnown, Plan!Children, Plan!Rows
<1>3. PICK done, place : Sorting(done, place)
  BY <1>1
<1>4. /\ done \in SUBSET Plan!Known
      /\ place \in [done -> 1..seen]
      /\ \A x, y \in done : place[x] = place[y] => x = y
      /\ Cardinality(done) = seen
      /\ \A x \in done, d \in Plan!Known :
            x \in Plan!Children(d) => d \in done /\ place[d] < place[x]
  BY <1>3 DEF Sorting, LeftInOrder
<1>5. degree = [id \in Plan!Known |-> Cardinality(Waits(id, done))]
  BY <1>3 DEF Sorting
<1>6. /\ ready \in Seq(Plan!Known)
      /\ \A i, j \in 1..Len(ready) : ready[i] = ready[j] => i = j
      /\ \A i \in 1..Len(ready) : ready[i] \notin done /\ Waits(ready[i], done) = {}
      /\ \A id \in Plan!Known \ done :
            Waits(id, done) = {} => \E i \in 1..Len(ready) : ready[i] = id
  BY <1>3 DEF Sorting, Queued
<1>a. PICK h : h = Head(ready)
  OBVIOUS
<1> DEFINE freed == {id \in Plan!Children(h) : Plan!Closed(degree[id] - 1)}
<1>b. PICK left : left = done \cup {h}
  OBVIOUS
<1>7. /\ Len(ready) \in Nat \ {0} /\ h = ready[1] /\ h \in Plan!Known /\ h \notin done
      /\ Waits(h, done) = {} /\ 1 \in 1..Len(ready)
  <2>1. Len(ready) \in Nat \ {0} /\ h = ready[1]
    BY <1>1, <1>6, <1>a
  <2>2. 1 \in 1..Len(ready)
    BY <2>1
  <2>3. ready[1] \in Plan!Known
    BY <1>6, <2>2
  <2> QED
    BY <1>6, <2>1, <2>2, <2>3
<1>8. /\ degree' = [id \in Plan!Known |->
                       IF id \in Plan!Children(h) THEN degree[id] - 1 ELSE degree[id]]
      /\ ready' = Tail(ready) \o Plan!InRowOrder(freed)
  BY <1>a DEF Plan!Pop
<1>9. IsFiniteSet(Plan!Known) /\ Plan!Known # {} /\ Plan!Children(h) \in SUBSET Plan!Known
  BY <1>1, PlanMade
<1>10. ASSUME NEW id \in Plan!Known
       PROVE  /\ Waits(id, left) = Waits(id, done) \ {h}
              /\ h \in Waits(id, done) <=> id \in Plan!Children(h)
              /\ IsFiniteSet(Waits(id, done))
              /\ Cardinality(Waits(id, done)) \in Nat
              /\ Cardinality(Waits(id, left)) = IF id \in Plan!Children(h)
                                                THEN Cardinality(Waits(id, done)) - 1
                                                ELSE Cardinality(Waits(id, done))
  <2>1. Waits(id, left) = Waits(id, done) \ {h}
    BY <1>b DEF Waits
  <2>2. h \in Waits(id, done) <=> id \in Plan!Children(h)
    BY <1>7 DEF Waits
  <2>3. IsFiniteSet(Waits(id, done))
    BY <1>9, FS_Subset DEF Waits
  <2> QED
    BY <2>1, <2>2, <2>3, FS_RemoveElement, FS_CardinalityType
<1>11. degree' = [id \in Plan!Known |-> Cardinality(Waits(id, left))]
  BY <1>5, <1>8, <1>10
<1>12. freed = {id \in Plan!Children(h) : Waits(id, left) = {}}
  <2>1. \A id \in Plan!Children(h) :
            /\ degree[id] - 1 = Cardinality(Waits(id, left))
            /\ IsFiniteSet(Waits(id, left))
    BY <1>5, <1>9, <1>10, FS_RemoveElement
  <2> QED
    BY <2>1, FS_EmptySet DEF Plan!Closed
<1> HIDE DEF freed
<1>13. freed \subseteq Plan!Known
  BY <1>9, <1>12
<1> DEFINE u == Plan!InRowOrder(freed)
           t == Tail(ready)
<1>14. /\ u \in Seq(Plan!Known)
       /\ \A k \in 1..Len(u) : u[k] \in freed
       /\ \A j, k \in 1..Len(u) : u[j] = u[k] => j = k
       /\ \A id \in freed : \E k \in 1..Len(u) : u[k] = id
  BY <1>1, <1>13, RowOrder
<1>15. /\ t \in Seq(Plan!Known) /\ Len(t) = Len(ready) - 1
       /\ \A i \in 1..Len(t) : t[i] = ready[i + 1]
  BY <1>6, <1>7
<1>16. \A id : Waits(id, left)' = Waits(id, left)
  BY <1>2 DEF Waits
<1> HIDE DEF u, t
<1>17. Queued(left)'
  <2>a. PICK r : r = t \o u
    OBVIOUS
  <2>1. /\ r \in Seq(Plan!Known) /\ Len(r) = Len(t) + Len(u) /\ Len(t) \in Nat /\ Len(u) \in Nat
        /\ \A i \in 1..Len(t) : i \in 1..Len(r) /\ r[i] = t[i]
        /\ \A i \in 1..Len(u) : Len(t) + i \in 1..Len(r) /\ r[Len(t) + i] = u[i]
        /\ \A i \in 1..Len(r) :
               \/ i \in 1..Len(t) /\ r[i] = t[i]
               \/ i \notin 1..Len(t) /\ i - Len(t) \in 1..Len(u) /\ r[i] = u[i - Len(t)]
    <3>1. t \in Seq(Plan!Known) /\ u \in Seq(Plan!Known)
      BY <1>14, <1>15
    <3> QED
      BY <2>a, <3>1, Joined
  <2>3. \A i \in 1..Len(t) : /\ t[i] \notin left /\ t[i] \in Plan!Known
                             /\ Waits(t[i], done) = {} /\ t[i] \notin freed
    <3>1. \A id \in freed : h \in Waits(id, done)
      BY <1>10, <1>12, <1>13
    <3>2. \A i \in 1..Len(t) :
              t[i] = ready[i + 1] /\ i + 1 \in 1..Len(ready) /\ i + 1 # 1
      <4>1. Len(t) = Len(ready) - 1 /\ Len(ready) \in Nat \ {0}
        BY <1>7, <1>15
      <4>2. \A i \in 1..Len(t) : i + 1 \in 1..Len(ready) /\ i + 1 # 1
        BY <4>1
      <4> QED
        BY <1>15, <4>2
    <3>3. \A i \in 1..Len(t) : t[i] \in Plan!Known
      BY <1>15
    <3> SUFFICES ASSUME NEW i \in 1..Len(t)
                 PROVE  /\ t[i] \notin left /\ t[i] \in Plan!Known
                        /\ Waits(t[i], done) = {} /\ t[i] \notin freed
      OBVIOUS
    <3>4. t[i] \notin done /\ Waits(t[i], done) = {} /\ t[i] # h
      <4>1. ready[i + 1] # ready[1]
        BY <1>6, <1>7, <3>2
      <4> QED
        BY <1>6, <1>7, <3>2, <4>1
    <3> QED
      BY <1>b, <3>1, <3>3, <3>4
  <2>4. \A i \in 1..Len(u) : u[i] \notin left /\ Waits(u[i], left) = {}
    <3>1. \A id \in freed : id \notin done
      BY <1>4, <1>7, <1>12, <1>13
    <3>2. h \notin freed
      BY <1>7, <1>10, <1>12
    <3> QED
      BY <1>b, <1>12, <1>14, <3>1, <3>2
  <2>5. \A i \in 1..Len(r) : r[i] \notin left /\ Waits(r[i], left) = {}
    <3>1. \A i \in 1..Len(t) : Waits(t[i], left) = {}
      <4>1. \A id \in Plan!Known : Waits(id, left) = Waits(id, done) \ {h}
        BY <1>10
      <4> QED
        BY <2>3, <4>1
    <3> SUFFICES ASSUME NEW i \in 1..Len(r)
                 PROVE  r[i] \notin left /\ Waits(r[i], left) = {}
      OBVIOUS
    <3>2. CASE i \in 1..Len(t)
      BY <2>1, <2>3, <3>1, <3>2
    <3>3. CASE i \notin 1..Len(t)
      BY <2>1, <2>4, <3>3
    <3> QED
      BY <3>2, <3>3
  <2>6. \A i, j \in 1..Len(r) : r[i] = r[j] => i = j
    <3>1. \A i, j \in 1..Len(t) : t[i] = t[j] => i = j
      <4>1. \A i \in 1..Len(t) : i + 1 \in 1..Len(ready) /\ t[i] = ready[i + 1]
        BY <1>7, <1>15
      <4>2. ASSUME NEW i \in 1..Len(t), NEW j \in 1..Len(t), t[i] = t[j]
            PROVE  i = j
        <5>1. i + 1 = j + 1
          BY <1>6, <4>1, <4>2
        <5> QED
          BY <5>1
      <4> QED
        BY <4>2
    <3>2. \A i \in 1..Len(t), j \in 1..Len(u) : t[i] # u[j]
      BY <1>14, <2>3
    <3>3. t \in Seq(Plan!Known) /\ u \in Seq(Plan!Known)
      BY <1>14, <1>15
    <3>4. \A i, j \in 1..Len(u) : u[i] = u[j] => i = j
      BY <1>14
    <3> QED
      BY <2>a, <3>1, <3>2, <3>3, <3>4, JoinedOnce
  <2>7. \A id \in Plan!Known \ left :
            Waits(id, left) = {} => \E i \in 1..Len(r) : r[i] = id
    <3> SUFFICES ASSUME NEW id \in Plan!Known \ left, Waits(id, left) = {}
                 PROVE  \E i \in 1..Len(r) : r[i] = id
      OBVIOUS
    <3>1. CASE id \in Plan!Children(h)
      <4>1. PICK k \in 1..Len(u) : u[k] = id
        BY <1>12, <1>14, <3>1
      <4>2. Len(t) + k \in 1..Len(r) /\ r[Len(t) + k] = id
        BY <2>1, <4>1
      <4> QED
        BY <4>2
    <3>2. CASE id \notin Plan!Children(h)
      <4>1. Waits(id, done) = {}
        BY <1>10, <3>2
      <4>2. PICK i \in 1..Len(ready) : ready[i] = id
        BY <1>6, <1>b, <4>1
      <4>3. i # 1
        BY <1>7, <1>b, <4>2
      <4>4. i - 1 \in 1..Len(t) /\ t[i - 1] = id
        BY <1>7, <1>15, <4>2, <4>3
      <4>5. i - 1 \in 1..Len(r) /\ r[i - 1] = id
        BY <2>1, <4>4
      <4> QED
        BY <4>5
    <3> QED
      BY <3>1, <3>2
  <2>8. ready' = r
    BY <1>8, <2>a DEF u, t
  <2> QED
    BY <1>2, <1>16, <2>1, <2>5, <2>6, <2>7, <2>8 DEF Queued
<1>c. PICK position : position = [x \in left |-> IF x = h THEN seen + 1 ELSE place[x]]
  OBVIOUS
<1>18. LeftInOrder(left, position)'
  <2>1. left \in SUBSET Plan!Known
    BY <1>4, <1>7, <1>b
  <2>2. position \in [left -> 1..(seen + 1)]
    BY <1>1, <1>4, <1>b, <1>c
  <2>3. \A x, y \in left : position[x] = position[y] => x = y
    BY <1>1, <1>4, <1>b, <1>c
  <2>4. Cardinality(left) = seen + 1
    <3>1. IsFiniteSet(done)
      BY <1>4, <1>9, FS_Subset
    <3> QED
      BY <1>4, <1>7, <1>b, <3>1, FS_AddElement
  <2>5. \A x \in left, d \in Plan!Known :
            x \in Plan!Children(d) => d \in left /\ position[d] < position[x]
    <3> SUFFICES ASSUME NEW x \in left, NEW d \in Plan!Known, x \in Plan!Children(d)
                 PROVE  d \in left /\ position[d] < position[x]
      OBVIOUS
    <3>1. CASE x = h
      <4>1. d \in done
        BY <1>7, <3>1 DEF Waits
      <4>2. position[d] = place[d] /\ place[d] \in 1..seen
        BY <1>4, <1>7, <1>b, <1>c, <4>1
      <4> QED
        BY <1>1, <1>b, <1>c, <3>1, <4>1, <4>2
    <3>2. CASE x # h
      BY <1>4, <1>7, <1>b, <1>c, <3>2
    <3> QED
      BY <3>1, <3>2
  <2> QED
    BY <1>1, <1>2, <2>1, <2>2, <2>3, <2>4, <2>5 DEF LeftInOrder
<1>19. Sorting(left, position)'
  BY <1>2, <1>11, <1>16, <1>17, <1>18 DEF Sorting
<1>20. degree' # <<>>
  BY <1>9, <1>11
<1> QED
  BY <1>1, <1>2, <1>19, <1>20 DEF PlanInv

LEMMA DecideStep ==
    ASSUME PlanInv, Plan!Decide
    PROVE  PlanInv'
<1>1. /\ UNCHANGED <<plan, degree, ready, seen>> /\ ready = <<>> /\ degree # <<>>
      /\ verdict' \in {"accepted", "refused"} /\ (verdict' = "accepted" <=> seen = Len(plan))
  BY DEF Plan!Decide
<1>2. /\ Plan!Known' = Plan!Known /\ Plan!DistinctIds' = Plan!DistinctIds
      /\ Plan!DependenciesKnown' = Plan!DependenciesKnown
      /\ \A id : Plan!Children(id)' = Plan!Children(id)
  BY <1>1 DEF Plan!Known, Plan!DistinctIds, Plan!DependenciesKnown, Plan!Children, Plan!Rows
<1>3. \A done, place : Sorting(done, place)' = Sorting(done, place)
  BY <1>1, <1>2 DEF Sorting, LeftInOrder, Queued, Waits
<1>4. PlanShape' = PlanShape
  BY <1>1 DEF PlanShape
<1> QED
  BY <1>1, <1>2, <1>3, <1>4 DEF PlanInv

LEMMA PlanRests ==
    ASSUME PlanInv, UNCHANGED planVars
    PROVE  PlanInv'
<1>1. plan' = plan /\ verdict' = verdict /\ degree' = degree /\ ready' = ready /\ seen' = seen
  BY DEF planVars
<1>2. /\ Plan!Known' = Plan!Known /\ (Plan!DistinctIds)' = Plan!DistinctIds
      /\ (Plan!DependenciesKnown)' = Plan!DependenciesKnown
      /\ \A d : Plan!Children(d)' = Plan!Children(d)
  BY <1>1 DEF Plan!Known, Plan!DistinctIds, Plan!DependenciesKnown, Plan!Children, Plan!Rows
<1>3. \A done, place : Sorting(done, place)' = Sorting(done, place)
  BY <1>1, <1>2 DEF Sorting, LeftInOrder, Queued, Waits
<1>4. PlanShape' = PlanShape
  BY <1>1 DEF PlanShape
<1> QED
  BY <1>1, <1>2, <1>3, <1>4 DEF PlanInv

(* An order in which all items left the queue orders the plan; when some are   *)
(* left, each of them waits for another, and in no order could one be first.   *)
LEMMA VerdictFollows ==
    ASSUME PlanInv
    PROVE  Plan!VerdictIsRight
<1> SUFFICES ASSUME verdict # "running", Plan!DistinctIds, Plan!DependenciesKnown
             PROVE  verdict = "accepted" <=> Plan!Orderable
  BY DEF PlanInv, Plan!VerdictIsRight
<1>1. /\ PlanShape /\ ready = <<>> /\ (verdict = "accepted" <=> seen = Len(plan))
      /\ \E done, place : Sorting(done, place)
  BY DEF PlanInv
<1>2. PICK done, place : Sorting(done, place)
  BY <1>1
<1>3. /\ done \in SUBSET Plan!Known
      /\ place \in [done -> 1..seen]
      /\ \A x, y \in done : place[x] = place[y] => x = y
      /\ Cardinality(done) = seen
      /\ \A x \in done, d \in Plan!Known :
            x \in Plan!Children(d) => d \in done /\ place[d] < place[x]
  BY <1>2 DEF Sorting, LeftInOrder
<1>4. \A id \in Plan!Known \ done : Waits(id, done) # {}
  BY <1>1, <1>2 DEF Sorting, Queued
<1>5. /\ Len(plan) \in Nat \ {0} /\ Plan!Rows = 1..Len(plan) /\ IsFiniteSet(Plan!Known)
      /\ \A i \in 1..Len(plan) : plan[i].work_id \in Plan!Known
  BY <1>1, PlanMade
<1>6. Cardinality(Plan!Known) = Len(plan)
  <2> DEFINE f == [i \in 1..Len(plan) |-> plan[i].work_id]
  <2>1. f \in Bijection(1..Len(plan), Plan!Known)
    BY <1>5 DEF Plan!DistinctIds, Plan!Known, Bijection, Injection, IsInjective, Surjection
  <2>2. IsFiniteSet(1..Len(plan)) /\ Cardinality(1..Len(plan)) = Len(plan)
    <3>1. PICK n \in Nat : n = Len(plan)
      BY <1>5
    <3>2. /\ IsFiniteSet(1..n)
          /\ Cardinality(1..n) = IF 1 > n THEN 0 ELSE n - 1 + 1
      BY FS_Interval
    <3>3. Cardinality(1..n) = n
      BY <3>2
    <3> QED
      BY <3>1, <3>2, <3>3, Zenon
  <2>3. ExistsBijection(1..Len(plan), Plan!Known)
    BY <2>1 DEF ExistsBijection
  <2> QED
    BY <2>2, <2>3, FS_Bijection
<1>7. seen = Len(plan) <=> done = Plan!Known
  BY <1>3, <1>5, <1>6, FS_Subset
<1>8. \A i, j \in 1..Len(plan) : plan[j].work_id \in plan[i].dependencies
          => plan[i].work_id \in Plan!Children(plan[j].work_id)
  BY <1>5 DEF Plan!Children
<1>9. CASE done = Plan!Known
  <2> DEFINE position == [i \in 1..Len(plan) |-> place[plan[i].work_id]]
  <2>1. position \in Plan!Orders
    <3>1. seen = Len(plan)
      BY <1>7, <1>9
    <3>2. position \in [1..Len(plan) -> 1..Len(plan)]
      BY <1>3, <1>5, <1>9, <3>1
    <3>3. \A i, j \in 1..Len(plan) : position[i] = position[j] => i = j
      BY <1>3, <1>5, <1>9 DEF Plan!DistinctIds
    <3> HIDE DEF position
    <3> QED
      BY <1>5, <3>2, <3>3 DEF Plan!Orders
  <2>2. \A i, j \in 1..Len(plan) :
            plan[j].work_id \in plan[i].dependencies => position[j] < position[i]
    BY <1>3, <1>5, <1>8, <1>9
  <2> HIDE DEF position
  <2> QED
    BY <1>1, <1>5, <1>7, <1>9, <2>1, <2>2 DEF Plan!Orderable
<1>10. CASE done # Plan!Known
  <2>1. ASSUME Plan!Orderable
        PROVE  FALSE
    <3>1. PICK f \in Plan!Orders : \A i, j \in 1..Len(plan) :
              plan[j].work_id \in plan[i].dependencies => f[j] < f[i]
      BY <1>5, <2>1 DEF Plan!Orderable
    <3>2. f \in [1..Len(plan) -> 1..Len(plan)]
      BY <1>5 DEF Plan!Orders
    <3> DEFINE Left == {i \in 1..Len(plan) : plan[i].work_id \notin done}
               Places == {f[i] : i \in Left}
    <3>3. Places \subseteq Nat /\ Places # {}
      <4>1. PICK id \in Plan!Known : id \notin done
        BY <1>3, <1>10
      <4>2. PICK i \in 1..Len(plan) : plan[i].work_id = id
        BY <1>5 DEF Plan!Known
      <4>3. i \in Left
        BY <4>1, <4>2
      <4>4. Places \subseteq Nat
        BY <1>5, <3>2
      <4> QED
        BY <4>3, <4>4
    <3>4. \E p \in Places : \A q \in Places : p <= q
      <4> HIDE DEF Places
      <4> QED
        BY <3>3, LeastNatural
    <3>5. PICK i \in Left : \A k \in Left : f[i] <= f[k]
      BY <3>4
    <3>6. PICK d \in Plan!Known \ done : plan[i].work_id \in Plan!Children(d)
      BY <1>4, <1>5, <3>5 DEF Waits
    <3>7. PICK m \in 1..Len(plan) : d \in plan[m].dependencies /\ plan[m].work_id = plan[i].work_id
      BY <1>5, <3>6 DEF Plan!Children
    <3>8. m = i
      BY <1>5, <3>7 DEF Plan!DistinctIds
    <3>9. PICK j \in 1..Len(plan) : plan[j].work_id = d
      BY <1>5 DEF Plan!Known
    <3>10. f[j] < f[i]
      BY <3>1, <3>7, <3>8, <3>9
    <3>11. f[i] <= f[j]
      BY <3>5, <3>6, <3>9
    <3> QED
      BY <3>2, <3>10, <3>11
  <2> QED
    BY <1>1, <1>7, <1>10, <2>1
<1> QED
  BY <1>9, <1>10

-----------------------------------------------------------------------------
(* The checks of a rubric.                                                  *)

RubricShape ==
    \E checks \in Seq(Checks), sources \in SUBSET Sources, nonempty \in BOOLEAN,
       state \in {"complete", "partial", "unavailable"} :
        input = [checks |-> checks, sources |-> sources, sources_state |-> state,
                 nonempty |-> nonempty]

LEMMA RubricMade ==
    ASSUME Rubric!Init
    PROVE  RubricShape
BY ChecksAssumption DEF Rubric!Init, Rubric!Supplies, RubricShape

LEMMA RequiredDecided ==
    ASSUME RubricShape
    PROVE  Rubric!RequiredIsDecided
BY DEF RubricShape, Rubric!RequiredIsDecided, Rubric!Required, Rubric!Evaluate, Rubric!Constraint,
   Rubric!Citation, Rubric!Fact, Rubric!MissingSource

(* A result of a case whose only pass is the result of no invalid, failed or   *)
(* unknown check: each of the gating ones has passed, and there is one.       *)
LEMMA PassedAll ==
    ASSUME Rubric!Outcome(input) = "pass"
    PROVE  /\ input.nonempty
           /\ \A i \in Rubric!Required(input) : Rubric!Evaluate(input.checks[i], input) = "pass"
BY DEF Rubric!Outcome, Rubric!Gating

LEMMA FactPassed ==
    ASSUME RubricShape, NEW i \in Rubric!Required(input),
           Rubric!Evaluate(input.checks[i], input) = "pass", input.checks[i].kind = "fact"
    PROVE  LET check == input.checks[i] IN
           /\ check.observed /\ check.relevance = "relevant" /\ check.source \in input.sources
           /\ check.asserted /\ check.anchored /\ check.expected = "same"
           /\ check.reference # None
           /\ check.reference.item = check.source
           /\ check.reference.matches /\ check.reference.anchors
<1>1. input.checks \in Seq(Checks)
  BY DEF RubricShape
<1>2. i \in 1..Len(input.checks) /\ input.checks[i] \in Checks
  BY <1>1 DEF Rubric!Required
<1>3. PICK check \in Checks : check = input.checks[i]
  BY <1>2
<1>4. /\ check.relevance \in {"relevant", "irrelevant", "unknown"}
      /\ check.expected \in {"same", "other", "missing"}
  BY <1>3, ChecksAssumption
<1>5. Rubric!Fact(check, input) = "pass"
  BY <1>3 DEF Rubric!Evaluate
<1>6. /\ check.observed /\ check.relevance = "relevant" /\ check.source \in input.sources
      /\ check.asserted /\ check.anchored /\ check.expected = "same"
      /\ check.reference # None /\ check.source # None
      /\ ~Rubric!ReferenceError(check, input)
  BY <1>4, <1>5 DEF Rubric!Fact, Rubric!MissingSource
<1>7. /\ check.reference.item = check.source
      /\ check.reference.matches /\ check.reference.anchors
  BY <1>6 DEF Rubric!ReferenceError
<1> QED
  BY <1>3, <1>6, <1>7

LEMMA CitationPassed ==
    ASSUME RubricShape, NEW i \in Rubric!Required(input),
           Rubric!Evaluate(input.checks[i], input) = "pass", input.checks[i].kind = "citation"
    PROVE  LET check == input.checks[i] IN
           check.observed /\ check.relevance = "relevant" /\ check.source \in input.sources
<1>1. input.checks \in Seq(Checks)
  BY DEF RubricShape
<1>2. i \in 1..Len(input.checks) /\ input.checks[i] \in Checks
  BY <1>1 DEF Rubric!Required
<1>3. PICK check \in Checks : check = input.checks[i]
  BY <1>2
<1>4. check.relevance \in {"relevant", "irrelevant", "unknown"}
  BY <1>3, ChecksAssumption
<1>5. Rubric!Citation(check, input) = "pass"
  BY <1>3 DEF Rubric!Evaluate
<1>6. check.observed /\ check.relevance = "relevant" /\ check.source \in input.sources
  BY <1>4, <1>5 DEF Rubric!Citation, Rubric!MissingSource
<1> QED
  BY <1>3, <1>6

LEMMA PassRests ==
    ASSUME RubricShape
    PROVE  Rubric!PassRestsOnEvidence
<1> SUFFICES ASSUME Rubric!Outcome(input) = "pass"
             PROVE  /\ input.nonempty
                    /\ \A i \in Rubric!Required(input) :
                          LET check == input.checks[i] IN
                          /\ check.kind \in {"fact", "citation"} =>
                                 /\ check.observed /\ check.relevance = "relevant"
                                 /\ check.source \in input.sources
                          /\ check.kind = "fact" =>
                                 /\ check.asserted /\ check.anchored /\ check.expected = "same"
                                 /\ check.reference # None
                                 /\ check.reference.item = check.source
                                 /\ check.reference.matches /\ check.reference.anchors
  BY DEF Rubric!PassRestsOnEvidence
<1> QED
  BY PassedAll, FactPassed, CitationPassed

LEMMA AbsenceUnknown ==
    ASSUME RubricShape
    PROVE  Rubric!AbsenceIsUnknown
<1> SUFFICES ASSUME input.sources_state = "partial", NEW i \in DOMAIN input.checks,
                    input.checks[i].kind \in {"fact", "citation"},
                    Rubric!Evaluate(input.checks[i], input) = "pass"
             PROVE  Rubric!Evaluate(input.checks[i], [input EXCEPT !.sources = {}]) = "unknown"
  BY DEF Rubric!AbsenceIsUnknown
<1> DEFINE bare == [input EXCEPT !.sources = {}]
<1>1. /\ bare.sources = {} /\ bare.sources_state = "partial" /\ bare.nonempty = input.nonempty
  BY DEF RubricShape
<1> HIDE DEF bare
<1>2. PICK check : check = input.checks[i]
  OBVIOUS
<1>3. CASE check.kind = "citation"
  <2>1. Rubric!Citation(check, input) = "pass" /\ input.nonempty
        /\ ~(check.applicability = "inapplicable" \/ Rubric!Authorized(check))
    BY <1>2, <1>3 DEF Rubric!Evaluate
  <2>2. Rubric!Citation(check, bare) = "unknown"
    BY <1>1, <2>1 DEF Rubric!Citation, Rubric!MissingSource
  <2> QED
    BY <1>1, <1>2, <1>3, <2>1, <2>2 DEF Rubric!Evaluate, bare
<1>4. CASE check.kind = "fact"
  <2>1. Rubric!Fact(check, input) = "pass" /\ input.nonempty
        /\ ~(check.applicability = "inapplicable" \/ Rubric!Authorized(check))
    BY <1>2, <1>4 DEF Rubric!Evaluate
  <2>2. /\ check.observed /\ check.anchored /\ ~Rubric!ReferenceError(check, input)
        /\ check.asserted /\ check.relevance # "irrelevant" /\ check.source # None
    BY <2>1 DEF Rubric!Fact
  <2>3. ~Rubric!ReferenceError(check, bare)
    BY <1>1, <2>2 DEF Rubric!ReferenceError
  <2>4. Rubric!Fact(check, bare) = "unknown"
    BY <1>1, <2>2, <2>3 DEF Rubric!Fact, Rubric!MissingSource
  <2> QED
    BY <1>1, <1>2, <1>4, <2>1, <2>4 DEF Rubric!Evaluate, bare
<1> QED
  BY <1>2, <1>3, <1>4

(* The gating checks of a case, and so what they evaluate to, are those of the  *)
(* case without its optional checks.                                         *)
LEMMA OptionalOut ==
    ASSUME RubricShape
    PROVE  Rubric!OptionalNeverGates
<1> DEFINE required == {input.checks[i] : i \in
                           {j \in DOMAIN input.checks : input.checks[j].applicability = "required"}}
           some == Only(input.checks, required)
           bare == [input EXCEPT !.checks = some]
<1>1. /\ input.checks \in Seq(Checks) /\ bare.checks = some
      /\ bare.sources = input.sources /\ bare.sources_state = input.sources_state
      /\ bare.nonempty = input.nonempty
  BY DEF RubricShape
<1>2. some \in Seq(Checks) /\ \E at : Picks(at, some, input.checks, required, Len(input.checks))
  BY <1>1, OnlyPicks
<1> HIDE DEF some, bare, required
<1>3. PICK at : Picks(at, some, input.checks, required, Len(input.checks))
  BY <1>2
<1>4. /\ at \in [1..Len(some) -> 1..Len(input.checks)]
      /\ \A k \in 1..Len(some) : some[k] = input.checks[at[k]] /\ input.checks[at[k]] \in required
      /\ \A i \in 1..Len(input.checks) :
             input.checks[i] \in required => \E k \in 1..Len(some) : at[k] = i
  <2>1. Len(input.checks) \in Nat /\ Len(some) \in Nat
    BY <1>1, <1>2
  <2>2. Stands(at, some, input.checks, required)
    BY <1>3, <2>1, PickedMembers
  <2> QED
    BY <2>2 DEF Stands
<1>5. \A check : Rubric!Evaluate(check, bare) = Rubric!Evaluate(check, input)
  BY <1>1 DEF Rubric!Evaluate, Rubric!Citation, Rubric!Fact, Rubric!Constraint,
     Rubric!MissingSource, Rubric!ReferenceError
<1>6. {Rubric!Evaluate(bare.checks[i], bare) : i \in Rubric!Gating(bare)}
        = {Rubric!Evaluate(input.checks[i], input) : i \in Rubric!Gating(input)}
  <2>1. \A k \in Rubric!Gating(bare) :
            k \in 1..Len(some) /\ at[k] \in Rubric!Gating(input)
            /\ bare.checks[k] = input.checks[at[k]]
    BY <1>1, <1>2, <1>4 DEF Rubric!Gating, Rubric!Required
  <2>2. ASSUME NEW i \in Rubric!Gating(input)
        PROVE  \E k \in Rubric!Gating(bare) : bare.checks[k] = input.checks[i]
    <3>1. i \in 1..Len(input.checks) /\ input.checks[i] \in required
      BY <1>1 DEF Rubric!Gating, Rubric!Required, required
    <3>2. PICK k \in 1..Len(some) : at[k] = i
      BY <1>4, <3>1
    <3>3. bare.checks[k] = input.checks[i] /\ k \in DOMAIN bare.checks
      BY <1>1, <1>2, <1>4, <3>2
    <3>4. k \in Rubric!Gating(bare)
      BY <2>2, <3>3 DEF Rubric!Gating, Rubric!Required
    <3> QED
      BY <3>3, <3>4
  <2> QED
    BY <1>5, <2>1, <2>2
<1>7. Rubric!Outcome(bare) = Rubric!Outcome(input)
  BY <1>1, <1>6 DEF Rubric!Outcome
<1>8. Rubric!Only(input.checks, required) = some
  BY DEF Only, Rubric!Only, some
<1> QED
  BY <1>7, <1>8 DEF Rubric!OptionalNeverGates, bare, required

-----------------------------------------------------------------------------
(* The decisions on a cohort.                                               *)

BundleShape == \E n \in Nat : input \in [1..n -> Cohort!CaseSet]

LEMMA BundleMade ==
    ASSUME Cohort!Init
    PROVE  BundleShape
<1>1. PICK n \in 1..MaxCases : input \in [1..n -> Cohort!CaseSet]
  BY DEF Cohort!Init
<1>2. n \in Nat
  BY ReviewsAssumption
<1> QED
  BY <1>1, <1>2 DEF BundleShape

LEMMA CohortOps ==
    /\ \A S : Cohort!Cardinality(S) = Cardinality(S)
    /\ \A s, set : Cohort!Only(s, set) = Only(s, set)
BY DEF Cardinality, Cohort!Cardinality, Only, Cohort!Only

(* The first case of a cohort has a reference with authority. *)
CohortAssessed(cases) ==
    cases = <<>> \/ Cohort!ReferenceScope(cases[1].reference) # "unassessed"

(* The counts and the rates of a score. *)
LEMMA ScoreCounts ==
    ASSUME NEW cases
    PROVE  LET score == Cohort!ScoreDecisions(cases)
               passes == Cohort!Decided(cases, {"pass"})
               errors == Cohort!Decided(cases, {"measurement_error"})
           IN
           /\ score.decisions["pass"] = Cardinality(passes)
           /\ score.decisions["measurement_error"] = Cardinality(errors)
           /\ \A d \in {"pass", "error", "missing"} :
                  score.raw[d] = Cardinality(Cohort!Said(cases, {d}))
           /\ score.passed_known = Cardinality(passes \ Cohort!Labelled(cases, {"unknown"}))
           /\ score.passed_unknown = Cardinality(passes \cap Cohort!Labelled(cases, {"unknown"}))
           /\ score.invalid_passes = Cardinality(Cohort!Said(cases, {"pass"}) \cap errors)
BY CohortOps DEF Cohort!ScoreDecisions, Cohort!Decisions, Cohort!RawDecisions

LEMMA ScoreRates ==
    ASSUME NEW cases
    PROVE  LET score == Cohort!ScoreDecisions(cases)
               passes == Cohort!Decided(cases, {"pass"})
               blocks == Cohort!Decided(cases, {"edit", "block"})
               falsePasses == Cardinality(passes \cap Cohort!Labelled(cases, {"unacceptable"}))
           IN
           /\ score.false_pass_rate =
                  Cohort!Rate(falsePasses, Cardinality(Cohort!Labelled(cases, {"unacceptable"})),
                              CohortAssessed(cases))
           /\ score.false_block_rate =
                  Cohort!Rate(Cardinality(blocks \cap Cohort!Labelled(cases, {"acceptable"})),
                              Cardinality(Cohort!Labelled(cases, {"acceptable"})),
                              CohortAssessed(cases))
           /\ score.accepted_set_risk =
                  Cohort!Rate(falsePasses,
                              Cardinality(passes \ Cohort!Labelled(cases, {"unknown"})),
                              CohortAssessed(cases))
<1>1. [label \in Cohort!Labels |-> Cohort!Cardinality(Cohort!Labelled(cases, {label}))]["unacceptable"]
        = Cardinality(Cohort!Labelled(cases, {"unacceptable"}))
  BY CohortOps DEF Cohort!Labels
<1>2. [label \in Cohort!Labels |-> Cohort!Cardinality(Cohort!Labelled(cases, {label}))]["acceptable"]
        = Cardinality(Cohort!Labelled(cases, {"acceptable"}))
  BY CohortOps DEF Cohort!Labels
<1> QED
  BY <1>1, <1>2, CohortOps DEF Cohort!ScoreDecisions, CohortAssessed

(* A cohort holds cases of the bundle, all of one key. *)
LEMMA CohortMade ==
    ASSUME BundleShape, NEW cohort \in Cohort!Cohorts(input)
    PROVE  /\ \E n \in Nat : cohort \in [1..n -> Cohort!CaseSet]
           /\ IsFiniteSet(DOMAIN cohort)
           /\ \E key : \A i \in DOMAIN cohort : Cohort!CohortKey(cohort[i]) = key
<1>1. input \in Seq(Cohort!CaseSet)
  BY DEF BundleShape
<1>2. PICK key : cohort = Cohort!Only(input, {input[i] : i \in {j \in DOMAIN input : Cohort!CohortKey(input[j]) = key}})
  BY DEF Cohort!Cohorts
<1> DEFINE some == {input[i] : i \in {j \in DOMAIN input : Cohort!CohortKey(input[j]) = key}}
<1>3. cohort = Only(input, some)
  BY <1>2, CohortOps
<1>4. \A c \in some : Cohort!CohortKey(c) = key
  OBVIOUS
<1> HIDE DEF some
<1>5. cohort \in Seq(Cohort!CaseSet) /\ \E at : Picks(at, cohort, input, some, Len(input))
  BY <1>1, <1>3, OnlyPicks
<1>6. PICK at : Picks(at, cohort, input, some, Len(input))
  BY <1>5
<1>7. \A k \in 1..Len(cohort) : cohort[k] \in some
  <2>1. Len(input) \in Nat /\ Len(cohort) \in Nat
    BY <1>1, <1>5
  <2>2. Stands(at, cohort, input, some)
    BY <1>6, <2>1, PickedMembers
  <2> QED
    BY <2>2 DEF Stands
<1>8. /\ Len(cohort) \in Nat /\ DOMAIN cohort = 1..Len(cohort)
      /\ cohort \in [1..Len(cohort) -> Cohort!CaseSet]
  BY <1>5
<1>9. IsFiniteSet(1..Len(cohort))
  BY <1>8, FS_Interval
<1> QED
  BY <1>4, <1>7, <1>8, <1>9

LEMMA CountsOfCohort ==
    ASSUME NEW cases, NEW n \in Nat, cases \in [1..n -> Cohort!CaseSet]
    PROVE  LET score == Cohort!ScoreDecisions(cases) IN
           /\ score.decisions["pass"] = score.raw["pass"] - score.invalid_passes
           /\ score.decisions["pass"] = score.passed_known + score.passed_unknown
           /\ score.decisions["measurement_error"] >= score.raw["error"] + score.raw["missing"]
           /\ \A rate \in Cohort!Rates(score) : rate.state # "raises"
<1> DEFINE score == Cohort!ScoreDecisions(cases)
           passes == Cohort!Decided(cases, {"pass"})
           errors == Cohort!Decided(cases, {"measurement_error"})
           blocks == Cohort!Decided(cases, {"edit", "block"})
           said(d) == Cohort!Said(cases, {d})
           gold(l) == Cohort!Labelled(cases, {l})
<1>1. \A i \in 1..n : cases[i].review = None \/ cases[i].review.decision \in {"pass", "edit", "block", "abstain", "error"}
  BY ReviewsAssumption DEF Cohort!CaseSet
<1>2. /\ DOMAIN cases = 1..n /\ passes \subseteq 1..n /\ errors \subseteq 1..n /\ blocks \subseteq 1..n
      /\ \A d : said(d) \subseteq 1..n /\ gold(d) \subseteq 1..n
  BY DEF Cohort!Decided, Cohort!Said, Cohort!Labelled
<1>3. \A S \in SUBSET (1..n) : IsFiniteSet(S) /\ Cardinality(S) \in Nat
  <2>1. IsFiniteSet(1..n)
    BY FS_Interval
  <2> QED
    BY <2>1, FS_Subset, FS_CardinalityType
<1>4. passes = said("pass") \ errors
  BY <1>1, <1>2 DEF Cohort!Decided, Cohort!Said, Cohort!Effective, Cohort!Raw
<1>5. said("error") \cup said("missing") \subseteq errors /\ said("error") \cap said("missing") = {}
  BY <1>1, <1>2 DEF Cohort!Decided, Cohort!Said, Cohort!Effective, Cohort!Raw
<1> HIDE DEF passes, errors, blocks, said, gold
<1>6. Cardinality(passes) = Cardinality(said("pass")) - Cardinality(said("pass") \cap errors)
  BY <1>2, <1>3, <1>4, FS_Difference
<1>7. Cardinality(passes) = Cardinality(passes \ gold("unknown")) + Cardinality(passes \cap gold("unknown"))
  <2>1. Cardinality(passes \ gold("unknown")) = Cardinality(passes) - Cardinality(passes \cap gold("unknown"))
    BY <1>2, <1>3, FS_Difference
  <2>2. Cardinality(passes \cap gold("unknown")) \in Nat /\ Cardinality(passes) \in Nat
    BY <1>2, <1>3
  <2> QED
    BY <2>1, <2>2
<1>8. Cardinality(errors) >= Cardinality(said("error")) + Cardinality(said("missing"))
  <2>1. /\ Cardinality(said("error") \cup said("missing")) = Cardinality(said("error"))
             + Cardinality(said("missing")) - Cardinality(said("error") \cap said("missing"))
    BY <1>2, <1>3, FS_Union
  <2>2. Cardinality(said("error") \cap said("missing")) = 0
    BY <1>5, FS_EmptySet
  <2>3. Cardinality(said("error") \cup said("missing")) <= Cardinality(errors)
    BY <1>2, <1>3, <1>5, FS_Subset
  <2>4. /\ Cardinality(errors) \in Nat /\ Cardinality(said("error")) \in Nat
        /\ Cardinality(said("missing")) \in Nat
    BY <1>2, <1>3
  <2> QED
    BY <2>1, <2>2, <2>3, <2>4
<1>9. \A S, T \in SUBSET (1..n) : S \subseteq T => Cardinality(S) <= Cardinality(T)
  BY <1>3, FS_Subset
<1>10. \A a, b \in Nat : \A assessed : a <= b => Cohort!Rate(a, b, assessed).state # "raises"
  BY DEF Cohort!Rate
<1>11. /\ passes \cap gold("unacceptable") \subseteq gold("unacceptable")
       /\ passes \cap gold("unacceptable") \subseteq passes \ gold("unknown")
       /\ blocks \cap gold("acceptable") \subseteq gold("acceptable")
  BY DEF gold, Cohort!Labelled
<1> DEFINE falsePasses == Cardinality(passes \cap gold("unacceptable"))
           passedKnown == Cardinality(passes \ gold("unknown"))
           falseBlocks == Cardinality(blocks \cap gold("acceptable"))
<1>12. /\ falsePasses \in Nat /\ passedKnown \in Nat /\ falseBlocks \in Nat
       /\ Cardinality(gold("unacceptable")) \in Nat /\ Cardinality(gold("acceptable")) \in Nat
       /\ falsePasses <= Cardinality(gold("unacceptable")) /\ falsePasses <= passedKnown
       /\ falseBlocks <= Cardinality(gold("acceptable"))
  BY <1>2, <1>3, <1>9, <1>11
<1>13. /\ score.decisions["pass"] = Cardinality(passes)
       /\ score.decisions["measurement_error"] = Cardinality(errors)
       /\ \A d \in {"pass", "error", "missing"} : score.raw[d] = Cardinality(said(d))
       /\ score.passed_known = passedKnown
       /\ score.passed_unknown = Cardinality(passes \cap gold("unknown"))
       /\ score.invalid_passes = Cardinality(said("pass") \cap errors)
       /\ score.false_pass_rate = Cohort!Rate(falsePasses, Cardinality(gold("unacceptable")), CohortAssessed(cases))
       /\ score.false_block_rate = Cohort!Rate(falseBlocks, Cardinality(gold("acceptable")), CohortAssessed(cases))
       /\ score.accepted_set_risk = Cohort!Rate(falsePasses, passedKnown, CohortAssessed(cases))
  BY ScoreCounts, ScoreRates DEF passes, errors, blocks, said, gold
<1> HIDE DEF score, falsePasses, passedKnown, falseBlocks
<1>14. \A rate \in Cohort!Rates(score) : rate.state # "raises"
  BY <1>10, <1>12, <1>13 DEF Cohort!Rates
<1> QED
  BY <1>6, <1>7, <1>8, <1>13, <1>14 DEF score, passedKnown

LEMMA CountsAgreeing ==
    ASSUME BundleShape
    PROVE  Cohort!CountsAgree
<1> SUFFICES ASSUME NEW cohort \in Cohort!Cohorts(input)
             PROVE  LET score == Cohort!ScoreDecisions(cohort) IN
                    /\ score.decisions["pass"] = score.raw["pass"] - score.invalid_passes
                    /\ score.decisions["pass"] = score.passed_known + score.passed_unknown
                    /\ score.decisions["measurement_error"]
                         >= score.raw["error"] + score.raw["missing"]
                    /\ \A rate \in Cohort!Rates(score) : rate.state # "raises"
  BY DEF Cohort!CountsAgree
<1>1. PICK n \in Nat : cohort \in [1..n -> Cohort!CaseSet]
  BY CohortMade
<1> QED
  BY <1>1, CountsOfCohort

LEMMA PassEarned ==
    ASSUME BundleShape
    PROVE  Cohort!PassIsEarned
BY DEF Cohort!PassIsEarned, Cohort!Effective, BundleShape

LEMMA OneScope ==
    ASSUME BundleShape
    PROVE  Cohort!RatesOfOneAuthority
<1> SUFFICES ASSUME NEW cohort \in Cohort!Cohorts(input),
                    NEW rate \in Cohort!Rates(Cohort!ScoreDecisions(cohort)),
                    rate.state = "known", NEW i \in DOMAIN cohort
             PROVE  /\ Cohort!ReferenceScope(cohort[i].reference) # "unassessed"
                    /\ Cohort!ReferenceScope(cohort[i].reference)
                         = Cohort!ReferenceScope(cohort[1].reference)
  BY DEF Cohort!RatesOfOneAuthority
<1>1. PICK n \in Nat : cohort \in [1..n -> Cohort!CaseSet]
  BY CohortMade
<1>2. cohort # <<>> /\ 1 \in DOMAIN cohort
  BY <1>1
<1>3. Cohort!ReferenceScope(cohort[i].reference) = Cohort!ReferenceScope(cohort[1].reference)
  BY <1>2, CohortMade DEF Cohort!CohortKey
<1>4. \E a, b : rate = Cohort!Rate(a, b, CohortAssessed(cohort))
  BY ScoreRates DEF Cohort!Rates
<1>5. CohortAssessed(cohort)
  BY <1>4 DEF Cohort!Rate
<1> QED
  BY <1>2, <1>3, <1>5 DEF CohortAssessed

(* The label of a case is not the reviewer's. *)
LEMMA NoEscape ==
    ASSUME BundleShape
    PROVE  Cohort!AbstentionIsNoEscape
<1> SUFFICES ASSUME NEW cohort \in Cohort!Cohorts(input), NEW i \in DOMAIN cohort, NEW review \in Reviews
             PROVE  LET other_1 == Cohort!ScoreDecisions([cohort EXCEPT ![i].review = review])
                        score == Cohort!ScoreDecisions(cohort)
                    IN  /\ other_1.false_pass_rate.denominator = score.false_pass_rate.denominator
                        /\ other_1.false_block_rate.denominator = score.false_block_rate.denominator
  BY DEF Cohort!AbstentionIsNoEscape
<1>1. PICK n \in Nat : cohort \in [1..n -> Cohort!CaseSet]
  BY CohortMade
<1> DEFINE changed == [cohort EXCEPT ![i].review = review]
<1>2. /\ DOMAIN changed = DOMAIN cohort
      /\ \A j \in DOMAIN cohort : changed[j].reference = cohort[j].reference
  BY <1>1 DEF Cohort!CaseSet
<1> HIDE DEF changed
<1>3. \A labels : Cohort!Labelled(changed, labels) = Cohort!Labelled(cohort, labels)
  BY <1>2 DEF Cohort!Labelled, Cohort!Gold
<1>4. \A a, b, c : Cohort!Rate(a, b, c).denominator = b
  BY DEF Cohort!Rate
<1>5. ASSUME NEW cases
      PROVE  /\ Cohort!ScoreDecisions(cases).false_pass_rate.denominator
               = Cardinality(Cohort!Labelled(cases, {"unacceptable"}))
             /\ Cohort!ScoreDecisions(cases).false_block_rate.denominator
                  = Cardinality(Cohort!Labelled(cases, {"acceptable"}))
  <2> DEFINE s == Cohort!ScoreDecisions(cases)
  <2>1. \E a, c : s.false_pass_rate
                     = Cohort!Rate(a, Cardinality(Cohort!Labelled(cases, {"unacceptable"})), c)
    BY ScoreRates
  <2>2. \E a, c : s.false_block_rate
                     = Cohort!Rate(a, Cardinality(Cohort!Labelled(cases, {"acceptable"})), c)
    BY ScoreRates
  <2> QED
    BY <1>4, <2>1, <2>2
<1>6. /\ Cohort!ScoreDecisions(changed).false_pass_rate.denominator
           = Cohort!ScoreDecisions(cohort).false_pass_rate.denominator
      /\ Cohort!ScoreDecisions(changed).false_block_rate.denominator
           = Cohort!ScoreDecisions(cohort).false_block_rate.denominator
  BY <1>3, <1>5
<1> QED
  BY <1>6 DEF changed

-----------------------------------------------------------------------------
(* The replies of judges.                                                   *)

ReplyShape ==
    /\ mode \in {"pairwise", "pointwise"}
    /\ \/ judge = "generative" /\ reply \in Seq(ReplyRows)
       \/ judge = "jev"

LEMMA ReplyMade ==
    ASSUME Reply!Init
    PROVE  ReplyShape
BY RepliesAssumption DEF Reply!Init, ReplyShape

LEMMA ReplyOps ==
    /\ \A S : Reply!Cardinality(S) = Cardinality(S)
BY DEF Cardinality, Reply!Cardinality

(* What a criterion may be given. *)
Given == [value : Reply!Values \cup {Reply!NoValue}, evidence_in : SUBSET {"a", "b"}]

LEMMA GivenNotRefused ==
    ASSUME ReplyShape, NEW answered \in SUBSET Criteria, NEW f \in [answered -> Given]
    PROVE  f # Refused
<1> DEFINE All == [value : Levels \cup {"a", "b", "tie", "unknown", "none"},
                   evidence_in : SUBSET {"a", "b"}]
<1>1. Given \subseteq All
  BY DEF Given, ReplyShape, Reply!Values, Reply!NoValue
<1>2. f \in [answered -> All]
  <2> HIDE DEF All
  <2> QED
    BY <1>1
<1>3. Refused \notin [answered -> All]
  BY RepliesAssumption
<1> QED
  BY <1>2, <1>3

LEMMA VerdictGiven ==
    ASSUME NEW row \in ReplyRows, row.value \in Reply!Values
    PROVE  Reply!Verdict(row) \in Given
<1>1. row.found \in SUBSET {"a", "b"}
  BY RepliesAssumption
<1> QED
  BY <1>1 DEF Reply!Verdict, Given

-----------------------------------------------------------------------------
(* The dictionaries after each of the first n rows. *)
Entered(f, rows, n) ==
    f = [i \in 0..n |-> IF i = 0 THEN <<>> ELSE Reply!Enter(f[i - 1], rows[i])]

LEMMA EnteredExists ==
    ASSUME NEW rows, NEW n \in Nat
    PROVE  \E f : Entered(f, rows, n)
<1> DEFINE X == {k \in 0..n : \E f : Entered(f, rows, k)}
<1>1. 0 \in X
  <2> DEFINE f == [i \in 0..0 |-> <<>>]
  <2>1. Entered(f, rows, 0)
    BY DEF Entered
  <2> QED
    BY <2>1
<1>2. ASSUME NEW k \in 0..(n - 1), k \in X
      PROVE  k + 1 \in X
  <2>1. PICK f : Entered(f, rows, k)
    BY <1>2
  <2> DEFINE last == Reply!Enter(f[k], rows[k + 1])
             g == [i \in 0..(k + 1) |-> IF i = k + 1 THEN last ELSE f[i]]
             h == [i \in 0..(k + 1) |->
                      IF i = 0 THEN <<>> ELSE Reply!Enter(g[i - 1], rows[i])]
  <2>2. ASSUME NEW i \in 0..(k + 1)
        PROVE  g[i] = h[i]
    <3>1. CASE i = 0
      <4>1. f[0] = <<>>
        BY <2>1 DEF Entered
      <4>2. g[i] = f[0]
        BY <3>1
      <4>3. h[i] = <<>>
        BY <3>1
      <4> QED
        BY <4>1, <4>2, <4>3
    <3>2. CASE i \in 1..k
      <4>1. i - 1 \in 0..k /\ i \in 0..k /\ i # k + 1 /\ i - 1 # k + 1 /\ i # 0
        BY <3>2
      <4>2. g[i] = f[i] /\ g[i - 1] = f[i - 1]
        BY <4>1
      <4>3. f[i] = Reply!Enter(f[i - 1], rows[i])
        BY <2>1, <4>1 DEF Entered
      <4>4. h[i] = Reply!Enter(g[i - 1], rows[i])
        <5> HIDE DEF g
        <5> QED
          BY <4>1
      <4> HIDE DEF g, h
      <4> QED
        BY <4>2, <4>3, <4>4
    <3>3. CASE i = k + 1
      <4>1. g[i] = last /\ g[k] = f[k] /\ i - 1 = k /\ i # 0
        BY <3>3
      <4>2. h[i] = Reply!Enter(g[i - 1], rows[i])
        <5> HIDE DEF g
        <5> QED
          BY <3>3
      <4> HIDE DEF g, h
      <4> QED
        BY <3>3, <4>1, <4>2
    <3> QED
      BY <3>1, <3>2, <3>3
  <2>3. g = h
    <3>1. DOMAIN g = 0..(k + 1) /\ DOMAIN h = 0..(k + 1)
      OBVIOUS
    <3>2. g = [i \in DOMAIN g |-> g[i]] /\ h = [i \in DOMAIN h |-> h[i]]
      OBVIOUS
    <3> HIDE DEF g, h
    <3> QED
      BY <2>2, <3>1, <3>2
  <2>4. Entered(g, rows, k + 1)
    <3> HIDE DEF g
    <3> QED
      BY <2>3 DEF Entered
  <2> QED
    BY <2>4
<1>3. 0..n \subseteq X
  <2> HIDE DEF X
  <2> QED
    BY <1>1, <1>2, UpTo
<1> QED
  BY <1>3

(* The first n rows are well formed, and about a criterion each. *)
Good(rows, n) ==
    /\ \A i \in 1..n : rows[i].criterion \in Criteria /\ rows[i].value \in Reply!Values /\ rows[i].typed
    /\ \A i, j \in 1..n : rows[i].criterion = rows[j].criterion => i = j

About(rows, n) == {rows[i].criterion : i \in 1..n}

(* The dictionary that the first n rows leave. *)
Read(dict, rows, n) ==
    IF Good(rows, n)
    THEN /\ dict \in [About(rows, n) -> Given]
         /\ \A i \in 1..n : dict[rows[i].criterion] = Reply!Verdict(rows[i])
    ELSE dict = Refused

LEMMA ReadNext ==
    ASSUME ReplyShape, NEW rows \in Seq(ReplyRows), NEW k \in 0..(Len(rows) - 1), NEW dict,
           Read(dict, rows, k)
    PROVE  Read(Reply!Enter(dict, rows[k + 1]), rows, k + 1)
<1> DEFINE row == rows[k + 1]
           next == Reply!Enter(dict, row)
<1>1. k \in Nat /\ k + 1 \in 1..Len(rows) /\ row \in ReplyRows
  OBVIOUS
<1>2. \A i \in 1..(k + 1) : i \in 1..k \/ i = k + 1
  BY <1>1
<1>3. 1..k \subseteq 1..(k + 1) /\ k + 1 \in 1..(k + 1) /\ k + 1 \notin 1..k
  BY <1>1
<1>4. CASE ~Good(rows, k)
  <2>1. ~Good(rows, k + 1)
    BY <1>3, <1>4 DEF Good
  <2>2. dict = Refused
    BY <1>4 DEF Read
  <2> QED
    BY <2>1, <2>2 DEF Read, Reply!Enter
<1>5. CASE Good(rows, k)
  <2>1. /\ dict \in [About(rows, k) -> Given]
        /\ \A i \in 1..k : dict[rows[i].criterion] = Reply!Verdict(rows[i])
    BY <1>5 DEF Read
  <2>2. About(rows, k) \in SUBSET Criteria
    BY <1>5 DEF About, Good
  <2>3. dict # Refused
    BY <2>1, <2>2, GivenNotRefused
  <2>4. About(rows, k + 1) = About(rows, k) \cup {row.criterion}
    BY <1>2, <1>3 DEF About
  <2>5. Good(rows, k + 1) <=> Reply!WellFormed(row, dict)
    <3>1. DOMAIN dict = About(rows, k)
      BY <2>1
    <3>2. row.criterion \in About(rows, k) <=> \E i \in 1..k : rows[i].criterion = row.criterion
      BY DEF About
    <3>3. ASSUME Good(rows, k + 1)
          PROVE  Reply!WellFormed(row, dict)
      <4>1. row.criterion \in Criteria /\ row.value \in Reply!Values /\ row.typed
        BY <1>3, <3>3 DEF Good
      <4>2. \A i \in 1..k : rows[i].criterion # row.criterion
        BY <1>3, <3>3 DEF Good
      <4> QED
        BY <3>1, <3>2, <4>1, <4>2 DEF Reply!WellFormed
    <3>4. ASSUME Reply!WellFormed(row, dict)
          PROVE  Good(rows, k + 1)
      <4>1. row.criterion \in Criteria /\ row.value \in Reply!Values /\ row.typed
        BY <3>4 DEF Reply!WellFormed
      <4>2. \A i \in 1..k : rows[i].criterion # row.criterion
        BY <3>1, <3>2, <3>4 DEF Reply!WellFormed
      <4>3. \A i \in 1..(k + 1) : rows[i].criterion \in Criteria /\ rows[i].value \in Reply!Values /\ rows[i].typed
        BY <1>2, <1>5, <4>1 DEF Good
      <4>4. \A i, j \in 1..(k + 1) : rows[i].criterion = rows[j].criterion => i = j
        BY <1>2, <1>5, <4>2 DEF Good
      <4> QED
        BY <4>3, <4>4 DEF Good
    <3> QED
      BY <3>3, <3>4
  <2>6. CASE ~Reply!WellFormed(row, dict)
    BY <2>5, <2>6 DEF Read, Reply!Enter
  <2>7. CASE Reply!WellFormed(row, dict)
    <3>1. /\ row.criterion \notin About(rows, k)
          /\ Reply!Verdict(row) \in Given
      BY <1>1, <2>1, <2>7, VerdictGiven DEF Reply!WellFormed
    <3>2. next = [c \in About(rows, k + 1) |->
                     IF c = row.criterion THEN Reply!Verdict(row) ELSE dict[c]]
      BY <2>1, <2>3, <2>4, <2>7 DEF Reply!Enter
    <3> HIDE DEF next, row
    <3>3. \A c \in About(rows, k + 1) : c = row.criterion \/ dict[c] \in Given
      BY <2>1, <2>4
    <3>4. next \in [About(rows, k + 1) -> Given]
      BY <3>1, <3>2, <3>3
    <3>5. ASSUME NEW i \in 1..(k + 1)
          PROVE  next[rows[i].criterion] = Reply!Verdict(rows[i])
      <4>1. rows[i].criterion \in About(rows, k + 1)
        BY DEF About
      <4>2. CASE i = k + 1
        BY <3>2, <4>1, <4>2 DEF row
      <4>3. CASE i \in 1..k
        <5>1. rows[i].criterion \in About(rows, k)
          BY <4>3 DEF About
        <5>2. rows[i].criterion # row.criterion
          BY <3>1, <5>1
        <5> QED
          BY <2>1, <3>2, <4>1, <4>3, <5>2
      <4> QED
        BY <1>2, <4>2, <4>3
    <3>6. Good(rows, k + 1)
      BY <2>5, <2>7
    <3>7. Read(next, rows, k + 1)
      BY <3>4, <3>5, <3>6 DEF Read
    <3> QED
      BY <3>7 DEF next, row
  <2> QED
    BY <2>6, <2>7
<1> QED
  BY <1>4, <1>5

(* A reply that is good, and about every criterion. *)
Full(rows) == Good(rows, Len(rows)) /\ About(rows, Len(rows)) = Criteria

LEMMA GenerativeReads ==
    ASSUME ReplyShape, NEW rows \in Seq(ReplyRows)
    PROVE  LET dict == Reply!Generative(rows) IN
           IF Full(rows)
           THEN /\ dict \in [Criteria -> Given]
                /\ \A i \in 1..Len(rows) : dict[rows[i].criterion] = Reply!Verdict(rows[i])
           ELSE dict = Refused
<1> DEFINE n == Len(rows)
           f == CHOOSE g : Entered(g, rows, n)
           X == {k \in 0..n : Read(f[k], rows, k)}
<1>1. n \in Nat
  OBVIOUS
<1>2. Entered(f, rows, n)
  <2> HIDE DEF n
  <2> QED
    BY <1>1, EnteredExists
<1>3. Reply!Generative(rows) =
          IF f[n] = Refused \/ DOMAIN f[n] # Criteria THEN Refused ELSE f[n]
  BY DEF Reply!Generative, Entered
<1> HIDE DEF f
<1>4. f[0] = <<>> /\ \A i \in 1..n : f[i] = Reply!Enter(f[i - 1], rows[i])
  <2> DEFINE step(i) == IF i = 0 THEN <<>> ELSE Reply!Enter(f[i - 1], rows[i])
  <2>1. f = [i \in 0..n |-> step(i)]
    BY <1>2 DEF Entered
  <2> HIDE DEF step
  <2>2. \A i \in 0..n : f[i] = step(i)
    BY <2>1
  <2>3. 0 \in 0..n /\ \A i \in 1..n : i \in 0..n /\ i # 0
    BY <1>1
  <2>4. f[0] = step(0) /\ \A i \in 1..n : f[i] = step(i)
    BY <2>2, <2>3
  <2> QED
    BY <2>3, <2>4 DEF step
<1>5. 0 \in X
  <2>1. Good(rows, 0) /\ About(rows, 0) = {}
    BY DEF Good, About
  <2>2. <<>> \in [{} -> Given]
    OBVIOUS
  <2>3. Read(f[0], rows, 0)
    BY <1>4, <2>1, <2>2 DEF Read
  <2> QED
    BY <1>1, <2>3
<1>6. ASSUME NEW k \in 0..(n - 1), k \in X
      PROVE  k + 1 \in X
  <2>1. k + 1 \in 1..n /\ k + 1 - 1 = k /\ k + 1 \in 0..n
    BY <1>1
  <2>2. f[k + 1] = Reply!Enter(f[k], rows[k + 1])
    BY <1>4, <2>1
  <2>3. Read(Reply!Enter(f[k], rows[k + 1]), rows, k + 1)
    BY <1>6, ReadNext
  <2> QED
    BY <2>1, <2>2, <2>3
<1>7. Read(f[n], rows, n)
  <2>1. 0..n \subseteq X
    <3> HIDE DEF X, n
    <3> QED
      BY <1>1, <1>5, <1>6, UpTo
  <2> QED
    BY <1>1, <2>1
<1>8. CASE Good(rows, n)
  <2>1. /\ f[n] \in [About(rows, n) -> Given]
        /\ \A i \in 1..n : f[n][rows[i].criterion] = Reply!Verdict(rows[i])
    BY <1>7, <1>8 DEF Read
  <2>2. About(rows, n) \in SUBSET Criteria
    BY <1>8 DEF About, Good
  <2>3. f[n] # Refused /\ DOMAIN f[n] = About(rows, n)
    BY <2>1, <2>2, GivenNotRefused
  <2> HIDE DEF n
  <2>4. CASE About(rows, n) = Criteria
    <3>1. Reply!Generative(rows) = f[n]
      BY <1>3, <2>3, <2>4
    <3> QED
      BY <1>8, <2>1, <2>4, <3>1 DEF Full, n
  <2>5. CASE About(rows, n) # Criteria
    BY <1>3, <2>3, <2>5 DEF Full, n
  <2> QED
    BY <2>4, <2>5
<1>9. CASE ~Good(rows, n)
  <2>1. f[n] = Refused
    BY <1>7, <1>9 DEF Read
  <2> QED
    BY <1>3, <1>9, <2>1 DEF Full
<1> QED
  BY <1>8, <1>9
LEMMA FullKept ==
    ASSUME ReplyShape, NEW rows \in Seq(ReplyRows)
    PROVE  Full(rows) <=> Reply!Generative(rows) # Refused
<1>1. ASSUME Full(rows)
      PROVE  Reply!Generative(rows) # Refused
  <2>1. Reply!Generative(rows) \in [Criteria -> Given]
    BY <1>1, GenerativeReads
  <2>2. Criteria \in SUBSET Criteria
    OBVIOUS
  <2> QED
    BY <2>1, <2>2, GivenNotRefused
<1> QED
  BY <1>1, GenerativeReads

LEMMA Indexed ==
    ASSUME ReplyShape
    PROVE  Reply!ReportCanIndex
<1>1. CASE judge = "generative" /\ reply \in Seq(ReplyRows)
  <2>1. Reply!Accepted = Reply!Generative(reply)
    BY <1>1 DEF Reply!Accepted
  <2>2. CASE Reply!Accepted # Refused
    <3>1. Reply!Accepted \in [Criteria -> Given]
      BY <1>1, <2>1, <2>2, GenerativeReads
    <3>2. \A g \in Given : g.value \in Reply!Values \cup {Reply!NoValue}
      BY DEF Given
    <3> QED
      BY <3>1, <3>2 DEF Reply!ReportCanIndex
  <2> QED
    BY <2>2 DEF Reply!ReportCanIndex
<1>2. CASE judge = "jev"
  <2>1. Reply!Accepted = Reply!Jev(reply)
    BY <1>2 DEF Reply!Accepted
  <2>2. CASE Reply!Accepted # Refused
    <3>1. /\ \A c \in Criteria : Reply!Acceptable(reply[c])
          /\ Reply!Accepted = [c \in Criteria |-> [value |-> reply[c].value, evidence_in |-> {}]]
      BY <2>1, <2>2 DEF Reply!Jev
    <3>2. \A c \in Criteria : reply[c].value \in Reply!Values
      BY <3>1 DEF Reply!Acceptable
    <3>3. DOMAIN Reply!Accepted = Criteria
      BY <3>1
    <3>4. ASSUME NEW c \in Criteria
          PROVE  Reply!Accepted[c].value = reply[c].value
      BY <3>1
    <3> QED
      BY <3>2, <3>3, <3>4 DEF Reply!ReportCanIndex
  <2> QED
    BY <2>2 DEF Reply!ReportCanIndex
<1> QED
  BY <1>1, <1>2 DEF ReplyShape

(* A list of rows about every criterion has one row for each exactly if it is *)
(* as long as there are criteria.                                            *)
LEMMA OnePerCriterion ==
    ASSUME NEW rows, NEW n \in Nat, About(rows, n) = Criteria
    PROVE  n = Cardinality(Criteria) <=>
               \A i, j \in 1..n : rows[i].criterion = rows[j].criterion => i = j
<1> DEFINE f == [i \in 1..n |-> rows[i].criterion]
<1>1. f \in [1..n -> Criteria] /\ \A i \in 1..n : f[i] = rows[i].criterion
  BY DEF About
<1>2. \A c \in Criteria : \E i \in 1..n : f[i] = c
  BY <1>1 DEF About
<1> HIDE DEF f
<1>3. f \in Surjection(1..n, Criteria)
  BY <1>1, <1>2 DEF Surjection
<1>4. IsFiniteSet(1..n) /\ Cardinality(1..n) = n
  BY FS_Interval
<1>5. n = Cardinality(Criteria) <=> f \in Injection(1..n, Criteria)
  BY <1>3, <1>4, FS_Surjection
<1>6. f \in Injection(1..n, Criteria) <=> \A i, j \in 1..n : f[i] = f[j] => i = j
  BY <1>1 DEF Injection, IsInjective
<1> QED
  BY <1>1, <1>5, <1>6

LEMMA Complete ==
    ASSUME ReplyShape
    PROVE  Reply!AcceptedIffComplete
<1> SUFFICES ASSUME judge = "generative"
             PROVE  Reply!Accepted # Refused <=>
                       /\ Len(reply) = Reply!Cardinality(Criteria)
                       /\ {row.criterion : row \in Reply!ToSet(reply)} = Criteria
                       /\ \A row \in Reply!ToSet(reply) : row.typed /\ row.value \in Reply!Values
  BY DEF Reply!AcceptedIffComplete
<1> DEFINE n == Len(reply)
<1>1. reply \in Seq(ReplyRows) /\ n \in Nat /\ DOMAIN reply = 1..n
  BY DEF ReplyShape
<1>2. Reply!Accepted # Refused <=> Full(reply)
  BY <1>1, FullKept DEF Reply!Accepted
<1>3. Reply!ToSet(reply) = {reply[i] : i \in 1..n}
  BY <1>1 DEF Reply!ToSet
<1> HIDE DEF n
<1>4. {row.criterion : row \in Reply!ToSet(reply)} = About(reply, n)
  BY <1>3 DEF About
<1>5. (\A row \in Reply!ToSet(reply) : row.typed /\ row.value \in Reply!Values)
         <=> \A i \in 1..n : reply[i].typed /\ reply[i].value \in Reply!Values
  BY <1>3
<1>6. CASE About(reply, n) = Criteria
  <2>1. \A i \in 1..n : reply[i].criterion \in Criteria
    BY <1>6 DEF About
  <2>2. n = Cardinality(Criteria) <=>
            \A i, j \in 1..n : reply[i].criterion = reply[j].criterion => i = j
    BY <1>1, <1>6, OnePerCriterion
  <2>3. Full(reply) <=> Good(reply, n)
    BY <1>6 DEF Full, n
  <2>4. Good(reply, n) <=>
            /\ \A i \in 1..n : reply[i].typed /\ reply[i].value \in Reply!Values
            /\ n = Cardinality(Criteria)
    BY <2>1, <2>2 DEF Good
  <2> QED
    BY <1>2, <1>4, <1>5, <1>6, <2>3, <2>4, ReplyOps DEF n
<1>7. CASE About(reply, n) # Criteria
  BY <1>2, <1>4, <1>7 DEF Full, n
<1> QED
  BY <1>6, <1>7

LEMMA EvidenceScored ==
    ASSUME ReplyShape
    PROVE  Reply!ScoredOnlyWithEvidence
<1> SUFFICES ASSUME judge = "generative", Reply!Accepted # Refused
             PROVE  /\ Reply!Generative(Reply!Reverse(reply)) = Reply!Accepted
                    /\ \A row \in Reply!ToSet(reply) :
                          Reply!Accepted[row.criterion].value =
                              IF row.found = {} THEN Reply!NoValue ELSE row.value
  BY DEF Reply!ScoredOnlyWithEvidence
<1> DEFINE n == Len(reply)
           back == [i \in 1..n |-> reply[(n - i) + 1]]
           dict == Reply!Generative(reply)
           turned == Reply!Generative(back)
<1>1. reply \in Seq(ReplyRows) /\ n \in Nat /\ DOMAIN reply = 1..n
  BY DEF ReplyShape
<1>2. Reply!Accepted = dict /\ Full(reply)
  BY <1>1, FullKept DEF Reply!Accepted
<1>3. Reply!Reverse(reply) = back
  BY DEF Reply!Reverse
<1>4. \A i \in 1..n : (n - i) + 1 \in 1..n /\ (n - ((n - i) + 1)) + 1 = i
  BY <1>1
<1>5. back \in Seq(ReplyRows) /\ Len(back) = n
  BY <1>1, <1>4
<1>6. \A i \in 1..n : back[i] = reply[(n - i) + 1] /\ reply[i] = back[(n - i) + 1]
  BY <1>4
<1>7. dict \in [Criteria -> Given] /\ \A i \in 1..n : dict[reply[i].criterion] = Reply!Verdict(reply[i])
  BY <1>1, <1>2, GenerativeReads
<1>8. Reply!Generative(back) = dict
  <2> HIDE DEF back, dict, n
  <2>1. Good(reply, n) /\ About(reply, n) = Criteria
    BY <1>2 DEF Full, n
  <2>2. Good(back, n)
    <3>1. \A i \in 1..n : /\ back[i].criterion \in Criteria
                           /\ back[i].value \in Reply!Values /\ back[i].typed
      BY <1>4, <1>6, <2>1 DEF Good
    <3>2. ASSUME NEW i \in 1..n, NEW j \in 1..n, back[i].criterion = back[j].criterion
          PROVE  i = j
      <4>1. (n - i) + 1 = (n - j) + 1
        BY <1>4, <1>6, <2>1, <3>2 DEF Good
      <4> QED
        BY <1>1, <4>1
    <3> QED
      BY <3>1, <3>2 DEF Good
  <2>3. About(back, n) = About(reply, n)
    BY <1>4, <1>6 DEF About
  <2>4. Full(back)
    BY <1>5, <2>1, <2>2, <2>3 DEF Full
  <2>5. /\ turned \in [Criteria -> Given]
        /\ \A i \in 1..n : turned[back[i].criterion] = Reply!Verdict(back[i])
    BY <1>5, <2>4, GenerativeReads
  <2> HIDE DEF turned
  <2>6. ASSUME NEW c \in Criteria
        PROVE  turned[c] = dict[c]
    <3>1. PICK i \in 1..n : reply[i].criterion = c
      BY <2>1 DEF About
    <3>2. back[(n - i) + 1] = reply[i] /\ (n - i) + 1 \in 1..n
      BY <1>4, <1>6
    <3>3. turned[c] = Reply!Verdict(reply[i])
      BY <2>5, <3>1, <3>2
    <3> QED
      BY <1>7, <3>1, <3>3
  <2>7. turned = dict
    BY <1>7, <2>5, <2>6
  <2> QED
    BY <2>7 DEF turned
<1>9. ASSUME NEW row \in Reply!ToSet(reply)
      PROVE  dict[row.criterion].value = IF row.found = {} THEN Reply!NoValue ELSE row.value
  <2>1. PICK i \in 1..n : row = reply[i]
    BY <1>1 DEF Reply!ToSet
  <2>2. dict[row.criterion] = Reply!Verdict(row)
    BY <1>7, <2>1
  <2> HIDE DEF dict
  <2> QED
    BY <2>2 DEF Reply!Verdict
<1> HIDE DEF back, dict
<1> QED
  BY <1>2, <1>3, <1>8, <1>9

-----------------------------------------------------------------------------
(* The findings of a review.                                                *)

LEMMA FindingOps ==
    /\ \A S : FindingCase!Cardinality(S) = Cardinality(S)
    /\ \A s, set : FindingCase!Only(s, set) = Only(s, set)
BY DEF Cardinality, FindingCase!Cardinality, Only, FindingCase!Only

LEMMA PlacesCounted ==
    ASSUME NEW n \in Nat
    PROVE  Cardinality(1..n) = n
BY FS_Interval

Listed(rows, places) == {rows[i] : i \in places}

(* The elements of a sequence that has none twice are as many as their places. *)
LEMMA Places ==
    ASSUME NEW S, NEW rows \in Seq(S),
           \A i, j \in 1..Len(rows) : rows[i] = rows[j] => i = j,
           NEW I \in SUBSET (1..Len(rows))
    PROVE  /\ IsFiniteSet(Listed(rows, I)) /\ IsFiniteSet(I)
           /\ Cardinality(I) \in Nat
           /\ Cardinality(Listed(rows, I)) = Cardinality(I)
<1> DEFINE T == {rows[i] : i \in I}
           f == [i \in I |-> rows[i]]
<1>1. IsFiniteSet(I)
  <2>1. Len(rows) \in Nat
    OBVIOUS
  <2>2. IsFiniteSet(1..Len(rows))
    BY <2>1, FS_Interval
  <2> QED
    BY <2>2, FS_Subset
<1>2. f \in Bijection(I, T)
  BY DEF Bijection, Injection, IsInjective, Surjection
<1>3. ExistsBijection(I, T)
  BY <1>2 DEF ExistsBijection
<1> HIDE DEF T
<1>4. IsFiniteSet(T) /\ Cardinality(T) = Cardinality(I)
  BY <1>1, <1>3, FS_Bijection
<1> QED
  BY <1>1, <1>4, FS_CardinalityType DEF T, Listed

(* The findings of a case and those that allege a defect. *)
Reported(c) ==
    IF c.review = None THEN {}
    ELSE {c.review.findings[i] : i \in 1..Len(c.review.findings)}

Alleged(c) == {f \in Reported(c) : f.kind = "defect"}

DefectIds(c) == {d.id : d \in c.reference.defects}

(* A judgment is of one defect of the reference, if it is a match. *)
SoundJudgment(c, judgment) ==
    /\ judgment = [state |-> judgment.state, defect |-> judgment.defect]
    /\ judgment.state \in {"none", "spurious", "ambiguous", "unassessed", "matched"}
    /\ IF judgment.state = "matched" THEN judgment.defect \in DefectIds(c)
       ELSE judgment.defect = None

(* Ids tell the findings of a review apart, and the defects of a reference. *)
Sound(c) ==
    /\ c.review # None =>
           /\ c.review.findings \in Seq(Findings)
           /\ \A i, j \in 1..Len(c.review.findings) :
                  c.review.findings[i].id = c.review.findings[j].id => i = j
    /\ c.reference.defects \in SUBSET Defects
    /\ \A d, e \in c.reference.defects : d.id = e.id => d = e
    /\ \A id : SoundJudgment(c, FindingCase!Judgment(c, id))

LEMMA PredictedRows ==
    ASSUME NEW c, Sound(c)
    PROVE  LET rows == FindingCase!Predicted(c) IN
           /\ rows \in Seq(Findings)
           /\ \A i, j \in 1..Len(rows) : rows[i].id = rows[j].id => i = j
           /\ {rows[i] : i \in 1..Len(rows)} = Alleged(c)
<1>1. CASE c.review = None
  <2>1. FindingCase!Predicted(c) = <<>> /\ Alleged(c) = {}
    BY <1>1 DEF FindingCase!Predicted, Alleged, Reported
  <2> QED
    BY <2>1
<1>2. CASE c.review # None
  <2> DEFINE f == c.review.findings
             defective == FindingCase!Defective(f)
             rows == Only(f, defective)
  <2>1. f \in Seq(Findings) /\ \A i, j \in 1..Len(f) : f[i].id = f[j].id => i = j
    BY <1>2 DEF Sound
  <2>2. FindingCase!Predicted(c) = rows
    BY <1>2, FindingOps DEF FindingCase!Predicted
  <2>3. \A i \in 1..Len(f) : f[i] \in defective <=> f[i].kind = "defect"
    BY <2>1 DEF FindingCase!Defective
  <2>4. Alleged(c) = {f[i] : i \in {j \in 1..Len(f) : f[j].kind = "defect"}}
    BY <1>2 DEF Alleged, Reported
  <2> HIDE DEF f, defective
  <2>5. rows \in Seq(Findings) /\ \E at : Picks(at, rows, f, defective, Len(f))
    BY <2>1, OnlyPicks
  <2> HIDE DEF rows
  <2>6. PICK at : Picks(at, rows, f, defective, Len(f))
    BY <2>5
  <2>7. /\ at \in [1..Len(rows) -> 1..Len(f)]
        /\ \A k \in 1..Len(rows) : rows[k] = f[at[k]] /\ f[at[k]] \in defective
        /\ \A j, k \in 1..Len(rows) : at[j] = at[k] => j = k
        /\ \A i \in 1..Len(f) : f[i] \in defective => \E k \in 1..Len(rows) : at[k] = i
    <3>1. Len(f) \in Nat /\ Len(rows) \in Nat
      BY <2>1, <2>5
    <3>2. Stands(at, rows, f, defective)
      BY <2>6, <3>1, PickedMembers
    <3> QED
      BY <3>2 DEF Stands
  <2>8. ASSUME NEW i \in 1..Len(rows), NEW j \in 1..Len(rows), rows[i].id = rows[j].id
        PROVE  i = j
    <3>1. at[i] \in 1..Len(f) /\ at[j] \in 1..Len(f)
      BY <2>7
    <3>2. f[at[i]].id = f[at[j]].id
      BY <2>7, <2>8
    <3>3. at[i] = at[j]
      BY <2>1, <3>1, <3>2
    <3> QED
      BY <2>7, <3>3
  <2>9. {rows[i] : i \in 1..Len(rows)} = Alleged(c)
    <3>1. \A i \in 1..Len(rows) : rows[i] \in Alleged(c)
      BY <2>3, <2>4, <2>7
    <3>2. ASSUME NEW a \in Alleged(c)
          PROVE  \E k \in 1..Len(rows) : rows[k] = a
      <4>1. PICK i \in 1..Len(f) : f[i] = a /\ f[i].kind = "defect"
        BY <2>4
      <4>2. PICK k \in 1..Len(rows) : at[k] = i
        BY <2>3, <2>7, <4>1
      <4> QED
        BY <2>7, <4>1, <4>2
    <3> QED
      BY <3>1, <3>2
  <2> QED
    BY <2>2, <2>5, <2>8, <2>9
<1> QED
  BY <1>1, <1>2

-----------------------------------------------------------------------------
(* What the score is made of, by the findings and not by their places.       *)

(* The findings that allege a defect and are in one of the states. *)
RowsIn(c, states) == {f \in Alleged(c) : FindingCase!RowState(c, f) \in states}

Taken(c) == {FindingCase!Judgment(c, f.id).defect : f \in RowsIn(c, {"matched"})}

PendingOf(c) == {f.id : f \in RowsIn(c, {"unassessed", "ambiguous"})}

Grounded(c) == (\A d \in c.reference.defects : d.anchored) /\ \A f \in Reported(c) : f.anchored

Agreeing(c) == \A f \in Alleged(c) : FindingCase!Agrees(c, f)

CriticalIds(c) == {d.id : d \in {e \in c.reference.defects : e.severity = "critical"}}

(* The score of a case, given whether its rates are assessed. *)
ScoreGiven(c, assessed, recall) ==
    [valid |-> Grounded(c) /\ Agreeing(c), predictions |-> Cardinality(Alleged(c)),
     defects |-> Cardinality(c.reference.defects), matched |-> Cardinality(Taken(c)),
     spurious |-> Cardinality(RowsIn(c, {"spurious"})),
     unassessed |-> Cardinality(RowsIn(c, {"unassessed"})),
     ambiguous |-> Cardinality(RowsIn(c, {"ambiguous"})),
     pending |-> PendingOf(c), unmatched |-> DefectIds(c) \ Taken(c),
     critical_missed |-> IF recall THEN Cardinality(CriticalIds(c) \ Taken(c)) ELSE None,
     precision |-> FindingCase!Rate(Cardinality(Taken(c)), Cardinality(Alleged(c)), assessed),
     recall |-> FindingCase!Rate(Cardinality(Taken(c)), Cardinality(c.reference.defects), recall),
     critical_recall |-> FindingCase!Rate(Cardinality(CriticalIds(c) \cap Taken(c)),
                                          Cardinality(CriticalIds(c)), recall)]

AssessedOf(c) == FindingCase!Assessed(c, Grounded(c) /\ Agreeing(c), PendingOf(c) # {})

LEMMA ScoreIs ==
    ASSUME NEW c, Sound(c)
    PROVE  FindingCase!ScoreFindings(c)
               = ScoreGiven(c, AssessedOf(c), FindingCase!RecallAssessed(c, AssessedOf(c)))
<1> DEFINE rows == FindingCase!Predicted(c)
           n == Len(rows)
           states == FindingCase!Resolved(c, rows)
           In(some) == {i \in DOMAIN rows : states[i] \in some}
           matched == {FindingCase!Judgment(c, rows[i].id).defect : i \in In({"matched"})}
           valid == /\ \A defect \in c.reference.defects : defect.anchored
                    /\ c.review # None =>
                           \A i \in DOMAIN c.review.findings : c.review.findings[i].anchored
                    /\ \A i \in DOMAIN rows : FindingCase!Agrees(c, rows[i])
           pending == {rows[i].id : i \in In({"unassessed", "ambiguous"})}
<1>1. /\ rows \in Seq(Findings)
      /\ \A i, j \in 1..Len(rows) : rows[i].id = rows[j].id => i = j
      /\ {rows[i] : i \in 1..Len(rows)} = Alleged(c)
  BY PredictedRows
<1>2. states = [i \in DOMAIN rows |-> FindingCase!RowState(c, rows[i])]
  BY DEF FindingCase!Resolved
<1> HIDE DEF rows, states
<1>3. DOMAIN rows = 1..n /\ n \in Nat
  BY <1>1
<1>4. \A i, j \in 1..Len(rows) : rows[i] = rows[j] => i = j
  BY <1>1
<1>5. ASSUME NEW some
      PROVE  RowsIn(c, some) = {rows[i] : i \in In(some)}
  <2>1. \A f \in RowsIn(c, some) : \E i \in In(some) : rows[i] = f
    BY <1>1, <1>2, <1>3 DEF RowsIn
  <2>2. \A i \in In(some) : rows[i] \in RowsIn(c, some)
    BY <1>1, <1>2, <1>3 DEF RowsIn
  <2> QED
    BY <2>1, <2>2
<1>6. ASSUME NEW some
      PROVE  Cardinality(RowsIn(c, some)) = Cardinality(In(some))
  <2>1. In(some) \in SUBSET (1..Len(rows))
    BY <1>3
  <2> HIDE DEF In
  <2>2. Cardinality(Listed(rows, In(some))) = Cardinality(In(some))
    BY <1>1, <1>4, <2>1, Places
  <2> QED
    BY <1>5, <2>2 DEF Listed
<1>7. Cardinality(Alleged(c)) = n
  <2>1. 1..Len(rows) \in SUBSET (1..Len(rows))
    OBVIOUS
  <2>2. Cardinality(1..Len(rows)) = Len(rows)
    BY <1>3, PlacesCounted
  <2>3. Cardinality(Listed(rows, 1..Len(rows))) = Cardinality(1..Len(rows))
    BY <1>1, <1>4, <2>1, Places
  <2> QED
    BY <1>1, <2>2, <2>3 DEF Listed
<1>8. pending = PendingOf(c)
  <2>1. RowsIn(c, {"unassessed", "ambiguous"}) = {rows[i] : i \in In({"unassessed", "ambiguous"})}
    BY <1>5
  <2> HIDE DEF In
  <2> QED
    BY <2>1 DEF PendingOf
<1>9. matched = Taken(c)
  <2>1. RowsIn(c, {"matched"}) = {rows[i] : i \in In({"matched"})}
    BY <1>5
  <2> HIDE DEF In
  <2> QED
    BY <2>1 DEF Taken
<1>10. valid <=> Grounded(c) /\ Agreeing(c)
  <2>1. (\A i \in DOMAIN rows : FindingCase!Agrees(c, rows[i])) <=> Agreeing(c)
    BY <1>1, <1>3 DEF Agreeing
  <2>2. CASE c.review = None
    BY <2>1, <2>2 DEF Grounded, Reported
  <2>3. CASE c.review # None
    <3>1. DOMAIN c.review.findings = 1..Len(c.review.findings)
      BY <2>3 DEF Sound
    <3> QED
      BY <2>1, <2>3, <3>1 DEF Grounded, Reported
  <2> QED
    BY <2>2, <2>3
<1> QED
  <2> DEFINE critical == {defect.id : defect \in {d \in c.reference.defects : d.severity = "critical"}}
             ids == {defect.id : defect \in c.reference.defects}
             assessed == FindingCase!Assessed(c, valid, pending # {})
             recall == FindingCase!RecallAssessed(c, assessed)
             found == c.reference.defects
  <2>1. FindingCase!ScoreFindings(c)
            = [valid |-> valid, predictions |-> n, defects |-> Cardinality(found),
               matched |-> Cardinality(matched), spurious |-> Cardinality(In({"spurious"})),
               unassessed |-> Cardinality(In({"unassessed"})),
               ambiguous |-> Cardinality(In({"ambiguous"})),
               pending |-> pending,
               unmatched |-> ids \ matched,
               critical_missed |-> IF recall THEN Cardinality(critical \ matched) ELSE None,
               precision |-> FindingCase!Rate(Cardinality(matched), n, assessed),
               recall |-> FindingCase!Rate(Cardinality(matched), Cardinality(found), recall),
               critical_recall |-> FindingCase!Rate(Cardinality(critical \cap matched),
                                                    Cardinality(critical), recall)]
    BY FindingOps DEF FindingCase!ScoreFindings, FindingCase!ScoredRows, rows, states
  <2>2. valid = (Grounded(c) /\ Agreeing(c))
    BY <1>10
  <2>3. critical = CriticalIds(c) /\ ids = DefectIds(c)
    BY DEF CriticalIds, DefectIds
  <2>4. /\ Cardinality(In({"spurious"})) = Cardinality(RowsIn(c, {"spurious"}))
        /\ Cardinality(In({"unassessed"})) = Cardinality(RowsIn(c, {"unassessed"}))
        /\ Cardinality(In({"ambiguous"})) = Cardinality(RowsIn(c, {"ambiguous"}))
    BY <1>6
  <2> HIDE DEF valid, pending, critical, ids, In, matched, n
  <2>5. assessed = AssessedOf(c)
    BY <2>2, <1>8 DEF AssessedOf
  <2>6. recall = FindingCase!RecallAssessed(c, AssessedOf(c))
    BY <2>5
  <2> HIDE DEF assessed, recall
  <2> QED
    BY <1>7, <1>8, <1>9, <2>1, <2>2, <2>3, <2>4, <2>5, <2>6 DEF ScoreGiven

(* The findings that are judged to match a defect. *)
Claimers(c, defect) ==
    {f \in Alleged(c) : FindingCase!Judgment(c, f.id) = [state |-> "matched", defect |-> defect]}

LEMMA ClaimsCounted ==
    ASSUME NEW c, Sound(c), NEW defect, NEW row
    PROVE  FindingCase!Claims(c, defect, row) = Cardinality(Claimers(c, defect))
<1> DEFINE rows == FindingCase!Predicted(c)
           claim == [state |-> "matched", defect |-> defect]
           I == {i \in DOMAIN rows : FindingCase!Judgment(c, rows[i].id) = claim}
<1>1. /\ rows \in Seq(Findings)
      /\ \A i, j \in 1..Len(rows) : rows[i].id = rows[j].id => i = j
      /\ {rows[i] : i \in 1..Len(rows)} = Alleged(c)
  BY PredictedRows
<1>2. FindingCase!Claims(c, defect, row) = Cardinality(I)
  BY FindingOps DEF FindingCase!Claims
<1> HIDE DEF rows, claim
<1>3. I \in SUBSET (1..Len(rows)) /\ \A i, j \in 1..Len(rows) : rows[i] = rows[j] => i = j
  BY <1>1
<1>4. Listed(rows, I) = {f \in Alleged(c) : FindingCase!Judgment(c, f.id) = claim}
  <2>1. \A f \in Alleged(c) : FindingCase!Judgment(c, f.id) = claim => \E i \in I : rows[i] = f
    BY <1>1
  <2>2. \A i \in I : rows[i] \in Alleged(c) /\ FindingCase!Judgment(c, rows[i].id) = claim
    BY <1>1
  <2> HIDE DEF I
  <2> QED
    BY <2>1, <2>2 DEF Listed
<1>5. Cardinality(Listed(rows, I)) = Cardinality(I)
  <2> HIDE DEF I
  <2> QED
    BY <1>1, <1>3, Places
<1> QED
  BY <1>2, <1>4, <1>5 DEF Claimers, claim

LEMMA AllegedFinite ==
    ASSUME NEW c, Sound(c)
    PROVE  /\ IsFiniteSet(Alleged(c)) /\ Cardinality(Alleged(c)) \in Nat
           /\ IsFiniteSet(c.reference.defects)
<1> DEFINE rows == FindingCase!Predicted(c)
<1>1. /\ rows \in Seq(Findings)
      /\ \A i, j \in 1..Len(rows) : rows[i].id = rows[j].id => i = j
      /\ {rows[i] : i \in 1..Len(rows)} = Alleged(c)
  BY PredictedRows
<1> HIDE DEF rows
<1>2. /\ 1..Len(rows) \in SUBSET (1..Len(rows))
      /\ \A i, j \in 1..Len(rows) : rows[i] = rows[j] => i = j
  BY <1>1
<1>3. IsFiniteSet(Listed(rows, 1..Len(rows)))
  BY <1>1, <1>2, Places
<1>4. IsFiniteSet(Alleged(c))
  BY <1>1, <1>3 DEF Listed
<1>5. IsFiniteSet(c.reference.defects)
  BY FindingsAssumption, FS_Subset DEF Sound
<1> QED
  BY <1>4, <1>5, FS_CardinalityType

LEMMA TwoClaims ==
    ASSUME NEW c, Sound(c), NEW defect, NEW row, NEW f \in Claimers(c, defect),
           NEW g \in Claimers(c, defect), f # g
    PROVE  FindingCase!Claims(c, defect, row) > 1
<1>1. IsFiniteSet(Claimers(c, defect))
  BY AllegedFinite, FS_Subset DEF Claimers
<1>2. Cardinality({f, g}) = 2
  <2>1. IsFiniteSet({f}) /\ Cardinality({f}) = 1
    BY FS_Singleton
  <2>2. {f, g} = {f} \cup {g} /\ g \notin {f}
    OBVIOUS
  <2> QED
    BY <2>1, <2>2, FS_AddElement
<1>3. Cardinality({f, g}) <= Cardinality(Claimers(c, defect))
  BY <1>1, FS_Subset
<1>4. Cardinality(Claimers(c, defect)) \in Nat
  BY <1>1, FS_CardinalityType
<1> QED
  BY <1>2, <1>3, <1>4, ClaimsCounted

-----------------------------------------------------------------------------
(* What a matched finding has.                                              *)

LEMMA MatchedRow ==
    ASSUME NEW c, Sound(c), NEW f, FindingCase!RowState(c, f) = "matched"
    PROVE  LET judgment == FindingCase!Judgment(c, f.id) IN
           /\ judgment = [state |-> "matched", defect |-> judgment.defect]
           /\ judgment.defect \in DefectIds(c)
           /\ ~(FindingCase!Claims(c, judgment.defect, f) > 1)
<1> DEFINE judgment == FindingCase!Judgment(c, f.id)
<1>1. SoundJudgment(c, judgment)
  BY DEF Sound
<1>2. judgment.state = "matched" /\ ~(FindingCase!Claims(c, judgment.defect, f) > 1)
  BY DEF FindingCase!RowState
<1> HIDE DEF judgment
<1>3. judgment.defect \in DefectIds(c) /\ judgment = [state |-> "matched", defect |-> judgment.defect]
  BY <1>1, <1>2 DEF SoundJudgment
<1> QED
  BY <1>2, <1>3 DEF judgment

(* No two matched findings take one defect. *)
LEMMA TakenOnce ==
    ASSUME NEW c, Sound(c)
    PROVE  /\ Taken(c) \in SUBSET DefectIds(c)
           /\ Cardinality(Taken(c)) = Cardinality(RowsIn(c, {"matched"}))
<1> DEFINE M == RowsIn(c, {"matched"})
           h == [f \in M |-> FindingCase!Judgment(c, f.id).defect]
<1>1. \A f \in M : /\ f \in Alleged(c)
                   /\ FindingCase!Judgment(c, f.id) = [state |-> "matched", defect |-> h[f]]
                   /\ h[f] \in DefectIds(c)
                   /\ ~(FindingCase!Claims(c, h[f], f) > 1)
  BY MatchedRow DEF RowsIn
<1>2. Taken(c) = {h[f] : f \in M}
  BY DEF Taken
<1>3. DOMAIN h = M
  OBVIOUS
<1>4. h = [f \in M |-> h[f]]
  OBVIOUS
<1>5. IsFiniteSet(M)
  BY AllegedFinite, FS_Subset DEF RowsIn
<1> HIDE DEF h, M
<1>6. ASSUME NEW f \in M, NEW g \in M, h[f] = h[g]
      PROVE  f = g
  <2>1. f \in Claimers(c, h[f]) /\ g \in Claimers(c, h[f])
    BY <1>1, <1>6 DEF Claimers
  <2>2. ~(FindingCase!Claims(c, h[f], f) > 1)
    BY <1>1
  <2> QED
    BY <2>1, <2>2, TwoClaims
<1>7. h \in Bijection(M, Taken(c))
  BY <1>2, <1>4, <1>6 DEF Bijection, Injection, IsInjective, Surjection
<1>8. ExistsBijection(M, Taken(c))
  BY <1>7 DEF ExistsBijection
<1>9. Cardinality(Taken(c)) = Cardinality(M)
  BY <1>5, <1>8, FS_Bijection
<1> QED
  BY <1>1, <1>2, <1>9 DEF M

(* The ids of some defects of a reference are as many as they. *)
LEMMA IdsCounted ==
    ASSUME NEW c, Sound(c), NEW D \in SUBSET c.reference.defects
    PROVE  /\ IsFiniteSet({d.id : d \in D}) /\ Cardinality({d.id : d \in D}) = Cardinality(D)
           /\ IsFiniteSet(D)
<1> DEFINE T == {d.id : d \in D}
           h == [d \in D |-> d.id]
<1>1. IsFiniteSet(D)
  BY AllegedFinite, FS_Subset
<1>2. \A d, e \in D : d.id = e.id => d = e
  BY DEF Sound
<1>3. h \in Bijection(D, T)
  BY <1>2 DEF Bijection, Injection, IsInjective, Surjection
<1>4. ExistsBijection(D, T)
  BY <1>3 DEF ExistsBijection
<1> HIDE DEF T
<1>5. IsFiniteSet(T) /\ Cardinality(T) = Cardinality(D)
  BY <1>1, <1>4, FS_Bijection
<1> QED
  BY <1>1, <1>5 DEF T

LEMMA ApartCounted ==
    ASSUME NEW S, NEW T, IsFiniteSet(S), IsFiniteSet(T), S \cap T = {}
    PROVE  IsFiniteSet(S \cup T) /\ Cardinality(S \cup T) = Cardinality(S) + Cardinality(T)
<1>1. Cardinality(S) \in Nat /\ Cardinality(T) \in Nat /\ Cardinality(S \cap T) = 0
  BY FS_CardinalityType, FS_EmptySet
<1>2. /\ IsFiniteSet(S \cup T)
      /\ Cardinality(S \cup T) = Cardinality(S) + Cardinality(T) - Cardinality(S \cap T)
  BY FS_Union
<1> QED
  BY <1>1, <1>2

LEMMA FourStates ==
    ASSUME NEW c, Sound(c)
    PROVE  Cardinality(Alleged(c))
               = Cardinality(RowsIn(c, {"matched"})) + Cardinality(RowsIn(c, {"spurious"}))
                     + Cardinality(RowsIn(c, {"unassessed"})) + Cardinality(RowsIn(c, {"ambiguous"}))
<1> DEFINE m == RowsIn(c, {"matched"})
           s == RowsIn(c, {"spurious"})
           u == RowsIn(c, {"unassessed"})
           a == RowsIn(c, {"ambiguous"})
<1>1. \A f : FindingCase!RowState(c, f) \in {"matched", "spurious", "unassessed", "ambiguous"}
  BY DEF FindingCase!RowState
<1>2. /\ m \cap s = {} /\ (m \cup s) \cap u = {} /\ (m \cup s \cup u) \cap a = {}
      /\ Alleged(c) = m \cup s \cup u \cup a
  BY <1>1 DEF RowsIn
<1>3. IsFiniteSet(m) /\ IsFiniteSet(s) /\ IsFiniteSet(u) /\ IsFiniteSet(a)
  BY AllegedFinite, FS_Subset DEF RowsIn
<1> HIDE DEF m, s, u, a
<1>4. IsFiniteSet(m \cup s) /\ Cardinality(m \cup s) = Cardinality(m) + Cardinality(s)
  BY <1>2, <1>3, ApartCounted
<1>5. /\ IsFiniteSet(m \cup s \cup u)
      /\ Cardinality(m \cup s \cup u) = Cardinality(m \cup s) + Cardinality(u)
  BY <1>2, <1>3, <1>4, ApartCounted
<1>6. Cardinality(m \cup s \cup u \cup a) = Cardinality(m \cup s \cup u) + Cardinality(a)
  BY <1>2, <1>3, <1>5, ApartCounted
<1> QED
  BY <1>2, <1>4, <1>5, <1>6 DEF m, s, u, a

(* No rate of a score can raise. *)
LEMMA RatesHold ==
    ASSUME NEW c, Sound(c)
    PROVE  LET score == FindingCase!ScoreFindings(c) IN
           /\ score.precision.state # "raises" /\ score.recall.state # "raises"
           /\ score.critical_recall.state # "raises"
           /\ score.precision.state # "unassessed" => AssessedOf(c)
           /\ score.recall.state # "unassessed" => FindingCase!RecallAssessed(c, AssessedOf(c))
<1> DEFINE t == Cardinality(Taken(c))
           p == Cardinality(Alleged(c))
           d == Cardinality(c.reference.defects)
           k == Cardinality(CriticalIds(c))
           l == Cardinality(CriticalIds(c) \cap Taken(c))
           assessed == AssessedOf(c)
           recall == FindingCase!RecallAssessed(c, AssessedOf(c))
           score == FindingCase!ScoreFindings(c)
<1>1. t \in Nat /\ p \in Nat /\ t <= p
  <2>1. IsFiniteSet(Alleged(c)) /\ RowsIn(c, {"matched"}) \in SUBSET Alleged(c)
    BY AllegedFinite DEF RowsIn
  <2>2. /\ IsFiniteSet(RowsIn(c, {"matched"}))
        /\ Cardinality(RowsIn(c, {"matched"})) <= Cardinality(Alleged(c))
    BY <2>1, FS_Subset
  <2> QED
    BY <2>1, <2>2, TakenOnce, FS_CardinalityType
<1>2. d \in Nat /\ t <= d
  <2>1. IsFiniteSet(DefectIds(c)) /\ Cardinality(DefectIds(c)) = d
    BY IdsCounted DEF DefectIds
  <2>2. Taken(c) \in SUBSET DefectIds(c)
    BY TakenOnce
  <2> HIDE DEF d
  <2> QED
    BY <2>1, <2>2, FS_Subset, FS_CardinalityType
<1>3. k \in Nat /\ l \in Nat /\ l <= k
  <2>1. IsFiniteSet(CriticalIds(c))
    <3> DEFINE D == {e \in c.reference.defects : e.severity = "critical"}
    <3>1. D \in SUBSET c.reference.defects
      OBVIOUS
    <3> HIDE DEF D
    <3>2. IsFiniteSet({e.id : e \in D})
      BY <3>1, IdsCounted
    <3> QED
      BY <3>2 DEF CriticalIds, D
  <2>2. (CriticalIds(c) \cap Taken(c)) \in SUBSET CriticalIds(c)
    OBVIOUS
  <2> QED
    BY <2>1, <2>2, FS_Subset, FS_CardinalityType
<1>4. /\ score.precision = FindingCase!Rate(t, p, assessed)
      /\ score.recall = FindingCase!Rate(t, d, recall)
      /\ score.critical_recall = FindingCase!Rate(l, k, recall)
  <2>1. score = ScoreGiven(c, assessed, recall)
    BY ScoreIs
  <2> HIDE DEF score, assessed, recall
  <2> QED
    BY <2>1 DEF ScoreGiven
<1> HIDE DEF t, p, d, k, l, assessed, recall, score
<1>5. ASSUME NEW x \in Nat, NEW y \in Nat, x <= y, NEW given
      PROVE  /\ FindingCase!Rate(x, y, given).state # "raises"
             /\ FindingCase!Rate(x, y, given).state # "unassessed" => given
  BY <1>5 DEF FindingCase!Rate
<1>6. score.precision.state # "raises" /\ (score.precision.state # "unassessed" => assessed)
  BY <1>1, <1>4, <1>5
<1>7. score.recall.state # "raises" /\ (score.recall.state # "unassessed" => recall)
  BY <1>1, <1>2, <1>4, <1>5
<1>8. score.critical_recall.state # "raises"
  BY <1>3, <1>4, <1>5
<1> QED
  BY <1>6, <1>7, <1>8 DEF score, assessed, recall

LEMMA OneToOne ==
    ASSUME Sound(input)
    PROVE  FindingCase!MatchingIsOneToOne
<1> DEFINE score == FindingCase!ScoreFindings(input)
<1>1. /\ score.predictions = Cardinality(Alleged(input))
      /\ score.defects = Cardinality(input.reference.defects)
      /\ score.matched = Cardinality(Taken(input))
      /\ score.spurious = Cardinality(RowsIn(input, {"spurious"}))
      /\ score.unassessed = Cardinality(RowsIn(input, {"unassessed"}))
      /\ score.ambiguous = Cardinality(RowsIn(input, {"ambiguous"}))
      /\ score.unmatched = DefectIds(input) \ Taken(input)
  <2>1. score = ScoreGiven(input, AssessedOf(input),
                           FindingCase!RecallAssessed(input, AssessedOf(input)))
    BY ScoreIs
  <2> HIDE DEF score
  <2> QED
    BY <2>1 DEF ScoreGiven
<1>2. /\ score.precision.state # "raises" /\ score.recall.state # "raises"
      /\ score.critical_recall.state # "raises"
  BY RatesHold
<1>3. score.defects = score.matched + Cardinality(score.unmatched)
  <2>1. /\ IsFiniteSet(DefectIds(input))
        /\ Cardinality(DefectIds(input)) = Cardinality(input.reference.defects)
    BY IdsCounted DEF DefectIds
  <2>2. DefectIds(input) \cap Taken(input) = Taken(input) /\ Taken(input) \in SUBSET DefectIds(input)
    BY TakenOnce
  <2>3. Cardinality(DefectIds(input) \ Taken(input))
            = Cardinality(DefectIds(input)) - Cardinality(Taken(input))
    <3>1. Cardinality(DefectIds(input) \ Taken(input))
              = Cardinality(DefectIds(input)) - Cardinality(DefectIds(input) \cap Taken(input))
      BY <2>1, FS_Difference
    <3> QED
      BY <2>2, <3>1
  <2>4. Cardinality(DefectIds(input)) \in Nat /\ Cardinality(Taken(input)) \in Nat
    BY <2>1, <2>2, FS_Subset, FS_CardinalityType
  <2> HIDE DEF score
  <2> QED
    BY <1>1, <2>1, <2>3, <2>4
<1>4. score.predictions = score.matched + score.spurious + score.unassessed + score.ambiguous
  <2> HIDE DEF score
  <2> QED
    BY <1>1, TakenOnce, FourStates
<1> QED
  BY <1>2, <1>3, <1>4, FindingOps DEF FindingCase!MatchingIsOneToOne, FindingCase!Score, score

-----------------------------------------------------------------------------
(* The parts of a case, as Init makes them.                                 *)

ReviewRecords == [decision : Conclusions, checks : Markings, findings : Seq(Findings)]

Shaped(c) ==
    /\ c = [review |-> c.review, reference |-> c.reference, nonempty |-> c.nonempty,
            required |-> c.required, alignment |-> c.alignment]
    /\ c.review \in {None} \cup ReviewRecords
    /\ c.reference.producer \in Producers /\ c.reference.independence = "independent"
    /\ c.alignment.producer \in Producers /\ c.alignment.independence = "independent"
    /\ Sound(c)

LEMMA FindingMade ==
    ASSUME FindingCase!Init
    PROVE  Shaped(input)
<1>1. PICK review \in {None} \cup FindingCase!ReviewSet,
           reference \in {r \in FindingCase!ReferenceSet : FindingCase!Attributed(r)},
           p \in Producers, nonempty \in Nonempty, required \in Checklists :
        \E judgments \in FindingCase!JudgmentsOf(
                             IF review = None THEN {} ELSE FindingCase!IdsOf(review.findings),
                             {d.id : d \in reference.defects}) :
            input = [review |-> review, reference |-> reference, nonempty |-> nonempty,
                     required |-> required,
                     alignment |-> [producer |-> p, independence |-> "independent",
                                    judgments |-> judgments]]
  BY DEF FindingCase!Init
<1>2. PICK judgments \in FindingCase!JudgmentsOf(
                             IF review = None THEN {} ELSE FindingCase!IdsOf(review.findings),
                             {d.id : d \in reference.defects}) :
            input = [review |-> review, reference |-> reference, nonempty |-> nonempty,
                     required |-> required,
                     alignment |-> [producer |-> p, independence |-> "independent",
                                    judgments |-> judgments]]
  BY <1>1
<1>3. /\ input.review = review /\ input.reference = reference /\ input.nonempty = nonempty
      /\ input.required = required /\ input.alignment.producer = p
      /\ input.alignment.independence = "independent" /\ input.alignment.judgments = judgments
  BY <1>2
<1>4. input = [review |-> input.review, reference |-> input.reference,
               nonempty |-> input.nonempty, required |-> input.required,
               alignment |-> input.alignment]
  BY <1>2
<1>5. /\ reference.producer \in Producers /\ reference.independence = "independent"
      /\ reference.defects \in SUBSET Defects
      /\ \A d, e \in reference.defects : d.id = e.id => d = e
  BY DEF FindingCase!ReferenceSet, FindingCase!Attributed
<1>6. review # None =>
          /\ review \in ReviewRecords
          /\ review.findings \in Seq(Findings)
          /\ \A i, j \in 1..Len(review.findings) :
                 review.findings[i].id = review.findings[j].id => i = j
  <2> SUFFICES ASSUME review # None
               PROVE  /\ review \in ReviewRecords
                      /\ review.findings \in Seq(Findings)
                      /\ \A i, j \in 1..Len(review.findings) :
                             review.findings[i].id = review.findings[j].id => i = j
    OBVIOUS
  <2> DEFINE f == review.findings
  <2>1. /\ review \in FindingCase!ReviewSet
        /\ f \in UNION {[1..n -> Findings] : n \in 0..MaxFindings}
        /\ \A i, j \in DOMAIN f : i < j => f[i].id # f[j].id
    BY DEF FindingCase!ReviewSet
  <2>2. PICK n \in 0..MaxFindings : f \in [1..n -> Findings]
    BY <2>1
  <2> HIDE DEF f
  <2>3. n \in Nat
    BY FindingsAssumption
  <2>4. f \in Seq(Findings) /\ Len(f) = n /\ DOMAIN f = 1..n
    BY <2>2, <2>3
  <2>5. \A i, j \in 1..Len(f) : f[i].id = f[j].id => i = j
    BY <2>1, <2>3, <2>4
  <2>6. review \in ReviewRecords
    BY <2>1, <2>4 DEF FindingCase!ReviewSet, ReviewRecords, f
  <2> QED
    BY <2>4, <2>5, <2>6 DEF f
<1>7. ASSUME NEW id
      PROVE  SoundJudgment(input, FindingCase!Judgment(input, id))
  <2>1. DefectIds(input) = {d.id : d \in reference.defects}
    BY <1>3 DEF DefectIds
  <2>2. CASE input.alignment = None \/ id \notin DOMAIN judgments
    <3>1. FindingCase!Judgment(input, id) = [state |-> "none", defect |-> None]
      BY <1>3, <2>2 DEF FindingCase!Judgment
    <3> QED
      BY <3>1 DEF SoundJudgment
  <2>3. CASE input.alignment # None /\ id \in DOMAIN judgments
    <3>1. FindingCase!Judgment(input, id) = judgments[id]
      BY <1>3, <2>3 DEF FindingCase!Judgment
    <3>2. judgments[id] \in [state : {"spurious", "ambiguous", "unassessed"}, defect : {None}]
                               \cup [state : {"matched"}, defect : {d.id : d \in reference.defects}]
      BY <2>3 DEF FindingCase!JudgmentsOf
    <3> QED
      BY <2>1, <3>1, <3>2 DEF SoundJudgment
  <2> QED
    BY <2>2, <2>3
<1>8. Sound(input)
  BY <1>3, <1>5, <1>6, <1>7 DEF Sound
<1> QED
  BY <1>3, <1>4, <1>5, <1>6, <1>8 DEF Shaped

-----------------------------------------------------------------------------
(* Two reviews that allege the same defects.                                *)

(* The case, had its review these findings. *)
Refound(c, findings) == [c EXCEPT !.review = [c.review EXCEPT !.findings = findings]]

LEMMA RefoundParts ==
    ASSUME NEW c, Shaped(c), c.review # None, NEW findings \in Seq(Findings)
    PROVE  LET e == Refound(c, findings) IN
           /\ e.review.findings = findings /\ e.review # None
           /\ e.review.decision = c.review.decision /\ e.review.checks = c.review.checks
           /\ e.reference = c.reference /\ e.alignment = c.alignment
           /\ e.required = c.required /\ e.nonempty = c.nonempty
<1> DEFINE e == Refound(c, findings)
           r == [c.review EXCEPT !.findings = findings]
<1>1. c.review \in ReviewRecords
  BY DEF Shaped
<1>2. /\ r \in ReviewRecords /\ r.findings = findings /\ r.decision = c.review.decision
      /\ r.checks = c.review.checks
  BY <1>1 DEF ReviewRecords
<1>3. r # None
  BY <1>2, FindingsAssumption DEF ReviewRecords
<1> HIDE DEF r
<1>4. /\ e.review = r /\ e.reference = c.reference /\ e.alignment = c.alignment
      /\ e.required = c.required /\ e.nonempty = c.nonempty
  <2>1. e = [c EXCEPT !.review = r]
    BY DEF Refound, r
  <2>2. c = [review |-> c.review, reference |-> c.reference, nonempty |-> c.nonempty,
             required |-> c.required, alignment |-> c.alignment]
    BY DEF Shaped
  <2> HIDE DEF e
  <2> QED
    BY <2>1, <2>2
<1> QED
  BY <1>2, <1>3, <1>4

(* What a score takes of a review: its decision, its checks, the defects that *)
(* it alleges and whether all that it quotes is there.                       *)
LEMMA SameScore ==
    ASSUME NEW c, Shaped(c), c.review # None, NEW findings \in Seq(Findings),
           \A i, j \in 1..Len(findings) : findings[i].id = findings[j].id => i = j,
           Alleged(Refound(c, findings)) = Alleged(c),
           (\A f \in Reported(Refound(c, findings)) : f.anchored)
               <=> \A f \in Reported(c) : f.anchored
    PROVE  FindingCase!ScoreFindings(Refound(c, findings)) = FindingCase!ScoreFindings(c)
<1> DEFINE e == Refound(c, findings)
<1>1. /\ e.review.findings = findings /\ e.review # None
      /\ e.review.decision = c.review.decision /\ e.review.checks = c.review.checks
      /\ e.reference = c.reference /\ e.alignment = c.alignment
      /\ e.required = c.required /\ e.nonempty = c.nonempty
  BY RefoundParts
<1>2. Alleged(e) = Alleged(c)
  OBVIOUS
<1>3. (\A f \in Reported(e) : f.anchored) <=> \A f \in Reported(c) : f.anchored
  OBVIOUS
<1> HIDE DEF e
<1>4. \A id : FindingCase!Judgment(e, id) = FindingCase!Judgment(c, id)
  BY <1>1 DEF FindingCase!Judgment
<1>5. Sound(c) /\ Sound(e)
  <2>1. Sound(c)
    BY DEF Shaped
  <2>2. DefectIds(e) = DefectIds(c)
    BY <1>1 DEF DefectIds
  <2>3. \A id : SoundJudgment(e, FindingCase!Judgment(e, id))
    BY <1>4, <2>1, <2>2 DEF Sound, SoundJudgment
  <2> QED
    BY <1>1, <2>1, <2>3 DEF Sound
<1>6. FindingCase!Effective(e) = FindingCase!Effective(c)
  <2>1. ASSUME NEW x, Sound(x), x.review # None
        PROVE  /\ (\E i \in DOMAIN x.review.findings : ~x.review.findings[i].anchored)
                      <=> ~(\A f \in Reported(x) : f.anchored)
               /\ (\E i \in DOMAIN x.review.findings :
                       FindingCase!Material(x.review.findings[i]))
                      <=> \E f \in Alleged(x) : f.severity \in {"major", "critical"}
    <3>1. DOMAIN x.review.findings = 1..Len(x.review.findings)
      BY <2>1 DEF Sound
    <3>2. Reported(x) = {x.review.findings[i] : i \in DOMAIN x.review.findings}
      BY <2>1, <3>1 DEF Reported
    <3> QED
      BY <3>2 DEF Alleged, FindingCase!Material
  <2>2. /\ (\E i \in DOMAIN e.review.findings : ~e.review.findings[i].anchored)
               <=> \E i \in DOMAIN c.review.findings : ~c.review.findings[i].anchored
        /\ (\E i \in DOMAIN e.review.findings : FindingCase!Material(e.review.findings[i]))
               <=> \E i \in DOMAIN c.review.findings : FindingCase!Material(c.review.findings[i])
    BY <1>1, <1>2, <1>3, <1>5, <2>1
  <2> QED
    BY <1>1, <2>2 DEF FindingCase!Effective
<1>7. /\ FindingCase!AlignmentScope(e) = FindingCase!AlignmentScope(c)
      /\ FindingCase!Coverage(e) = FindingCase!Coverage(c)
      /\ \A id : FindingCase!Defect(e, id) = FindingCase!Defect(c, id)
  BY <1>1, <1>6 DEF FindingCase!AlignmentScope, FindingCase!Coverage, FindingCase!Defect
<1>8. \A row : FindingCase!Agrees(e, row) = FindingCase!Agrees(c, row)
  BY <1>4, <1>7 DEF FindingCase!Agrees
<1>9. \A defect : Claimers(e, defect) = Claimers(c, defect)
  BY <1>2, <1>4 DEF Claimers
<1>10. \A defect, row : FindingCase!Claims(e, defect, row) = FindingCase!Claims(c, defect, row)
  BY <1>5, <1>9, ClaimsCounted
<1>11. \A row : FindingCase!RowState(e, row) = FindingCase!RowState(c, row)
  BY <1>4, <1>7, <1>8, <1>10 DEF FindingCase!RowState
<1>12. \A states : RowsIn(e, states) = RowsIn(c, states)
  BY <1>2, <1>11 DEF RowsIn
<1>13. /\ Taken(e) = Taken(c) /\ PendingOf(e) = PendingOf(c)
       /\ Agreeing(e) = Agreeing(c) /\ Grounded(e) = Grounded(c)
       /\ CriticalIds(e) = CriticalIds(c) /\ DefectIds(e) = DefectIds(c)
  <2>1. Taken(e) = Taken(c) /\ PendingOf(e) = PendingOf(c)
    BY <1>4, <1>12 DEF Taken, PendingOf
  <2>2. Agreeing(e) = Agreeing(c)
    BY <1>2, <1>8 DEF Agreeing
  <2>3. Grounded(e) = Grounded(c)
    BY <1>1, <1>3 DEF Grounded
  <2> QED
    BY <1>1, <2>1, <2>2, <2>3 DEF CriticalIds, DefectIds
<1>14. AssessedOf(e) = AssessedOf(c)
  BY <1>1, <1>7, <1>13 DEF AssessedOf, FindingCase!Assessed
<1>15. FindingCase!RecallAssessed(e, AssessedOf(e)) = FindingCase!RecallAssessed(c, AssessedOf(c))
  BY <1>1, <1>7, <1>14 DEF FindingCase!RecallAssessed
<1>16. ScoreGiven(e, AssessedOf(e), FindingCase!RecallAssessed(e, AssessedOf(e)))
           = ScoreGiven(c, AssessedOf(c), FindingCase!RecallAssessed(c, AssessedOf(c)))
  BY <1>1, <1>2, <1>12, <1>13, <1>14, <1>15 DEF ScoreGiven
<1>17. FindingCase!ScoreFindings(e) = FindingCase!ScoreFindings(c)
  BY <1>5, <1>16, ScoreIs
<1> QED
  BY <1>17 DEF e

LEMMA OrderFreed ==
    ASSUME Shaped(input)
    PROVE  FindingCase!OrderFree
<1> SUFFICES ASSUME input.review # None
             PROVE  FindingCase!ScoreFindings([input EXCEPT !.review.findings =
                        FindingCase!Reverse(input.review.findings)])
                        = FindingCase!ScoreFindings(input)
  BY DEF FindingCase!OrderFree, FindingCase!Score
<1> DEFINE f == input.review.findings
           n == Len(f)
           g == FindingCase!Reverse(f)
<1>1. f \in Seq(Findings) /\ \A i, j \in 1..n : f[i].id = f[j].id => i = j
  BY DEF Shaped, Sound
<1>2. g = [i \in 1..n |-> f[(n - i) + 1]]
  BY DEF FindingCase!Reverse
<1>3. [input EXCEPT !.review.findings = g] = Refound(input, g)
  BY DEF Refound
<1> HIDE DEF f, g
<1>4. n \in Nat /\ \A i \in 1..n : (n - i) + 1 \in 1..n /\ (n - ((n - i) + 1)) + 1 = i
  BY <1>1
<1>5. g \in Seq(Findings) /\ Len(g) = n /\ \A i \in 1..n : g[i] = f[(n - i) + 1]
  BY <1>1, <1>2, <1>4
<1>6. \A i, j \in 1..Len(g) : g[i].id = g[j].id => i = j
  <2> SUFFICES ASSUME NEW i \in 1..n, NEW j \in 1..n, g[i].id = g[j].id PROVE i = j
    BY <1>5
  <2>1. (n - i) + 1 = (n - j) + 1
    <3> DEFINE p == (n - i) + 1
               q == (n - j) + 1
    <3>1. p \in 1..n /\ q \in 1..n /\ g[i] = f[p] /\ g[j] = f[q]
      BY <1>4, <1>5
    <3> HIDE DEF p, q, n
    <3>2. f[p].id = f[q].id
      BY <3>1
    <3>3. p = q
      BY <1>1, <3>1, <3>2 DEF n
    <3> QED
      BY <3>3 DEF p, q
  <2> QED
    BY <1>4, <2>1
<1>7. Reported(Refound(input, g)) = Reported(input)
  <2>1. Reported(input) = {f[i] : i \in 1..n}
    BY DEF Reported, f
  <2>2. Reported(Refound(input, g)) = {g[i] : i \in 1..n}
    BY <1>5, RefoundParts DEF Reported
  <2>3. \A i \in 1..n : \E j \in 1..n : g[i] = f[j]
    BY <1>4, <1>5
  <2>4. \A i \in 1..n : \E j \in 1..n : f[i] = g[j]
    <3> SUFFICES ASSUME NEW i \in 1..n PROVE f[i] = g[(n - i) + 1] /\ (n - i) + 1 \in 1..n
      OBVIOUS
    <3>1. g[(n - i) + 1] = f[(n - ((n - i) + 1)) + 1]
      BY <1>4, <1>5
    <3> QED
      BY <1>4, <3>1
  <2> HIDE DEF n
  <2> QED
    BY <2>1, <2>2, <2>3, <2>4
<1>8. Alleged(Refound(input, g)) = Alleged(input)
  BY <1>7 DEF Alleged
<1>9. FindingCase!ScoreFindings(Refound(input, g)) = FindingCase!ScoreFindings(input)
  BY <1>5, <1>6, <1>7, <1>8, SameScore
<1> QED
  BY <1>3, <1>9 DEF f, g

LEMMA SuggestionsOut ==
    ASSUME Shaped(input)
    PROVE  FindingCase!SuggestionsDoNotCount
<1> SUFFICES ASSUME input.review # None
             PROVE  LET f == input.review.findings IN
                    FindingCase!ScoreFindings([input EXCEPT !.review.findings =
                        FindingCase!Only(f, {x \in FindingCase!ToSet(f) :
                                                 x.kind = "defect" \/ ~x.anchored})])
                        = FindingCase!ScoreFindings(input)
  BY DEF FindingCase!SuggestionsDoNotCount, FindingCase!Score
<1> DEFINE f == input.review.findings
           set == {x \in FindingCase!ToSet(f) : x.kind = "defect" \/ ~x.anchored}
           g == Only(f, set)
<1>1. f \in Seq(Findings) /\ \A i, j \in 1..Len(f) : f[i].id = f[j].id => i = j
  BY DEF Shaped, Sound
<1>2. FindingCase!Only(f, set) = g
  BY FindingOps
<1>3. [input EXCEPT !.review.findings = g] = Refound(input, g)
  BY DEF Refound
<1>4. Reported(input) = {f[i] : i \in 1..Len(f)}
  BY DEF Reported
<1>5. set = {x \in Reported(input) : x.kind = "defect" \/ ~x.anchored}
  <2>1. FindingCase!ToSet(f) = {f[i] : i \in DOMAIN f}
    BY DEF FindingCase!ToSet
  <2>2. DOMAIN f = 1..Len(f)
    BY <1>1
  <2> QED
    BY <1>4, <2>1, <2>2
<1> HIDE DEF f, set
<1>6. g \in Seq(Findings) /\ \E at : Picks(at, g, f, set, Len(f))
  BY <1>1, OnlyPicks
<1> HIDE DEF g
<1>7. PICK at : Picks(at, g, f, set, Len(f))
  BY <1>6
<1>8. /\ at \in [1..Len(g) -> 1..Len(f)]
      /\ \A k \in 1..Len(g) : g[k] = f[at[k]] /\ f[at[k]] \in set
      /\ \A j, k \in 1..Len(g) : at[j] = at[k] => j = k
      /\ \A i \in 1..Len(f) : f[i] \in set => \E k \in 1..Len(g) : at[k] = i
  <2>1. Len(f) \in Nat /\ Len(g) \in Nat
    BY <1>1, <1>6
  <2>2. Stands(at, g, f, set)
    BY <1>7, <2>1, PickedMembers
  <2> QED
    BY <2>2 DEF Stands
<1>9. ASSUME NEW i \in 1..Len(g), NEW j \in 1..Len(g), g[i].id = g[j].id
      PROVE  i = j
  <2>1. at[i] \in 1..Len(f) /\ at[j] \in 1..Len(f)
    BY <1>8
  <2>2. f[at[i]].id = f[at[j]].id
    BY <1>8, <1>9
  <2>3. at[i] = at[j]
    BY <1>1, <2>1, <2>2
  <2> QED
    BY <1>8, <2>3
<1>10. Reported(Refound(input, g)) = set
  <2>1. Reported(Refound(input, g)) = {g[i] : i \in 1..Len(g)}
    BY <1>6, RefoundParts DEF Reported
  <2>2. \A i \in 1..Len(g) : g[i] \in set
    BY <1>8
  <2>3. ASSUME NEW x \in set
        PROVE  \E k \in 1..Len(g) : g[k] = x
    <3>1. PICK i \in 1..Len(f) : f[i] = x
      BY <1>4, <1>5
    <3>2. PICK k \in 1..Len(g) : at[k] = i
      BY <1>8, <3>1
    <3> QED
      BY <1>8, <3>1, <3>2
  <2> QED
    BY <2>1, <2>2, <2>3
<1>11. Alleged(Refound(input, g)) = Alleged(input)
  BY <1>5, <1>10 DEF Alleged
<1>12. (\A x \in Reported(Refound(input, g)) : x.anchored) <=> \A x \in Reported(input) : x.anchored
  BY <1>5, <1>10
<1>13. FindingCase!ScoreFindings(Refound(input, g)) = FindingCase!ScoreFindings(input)
  BY <1>6, <1>9, <1>11, <1>12, SameScore
<1> QED
  BY <1>2, <1>3, <1>13 DEF f, g, set

-----------------------------------------------------------------------------
(* What an assessed score rests on.                                         *)

(* With nothing pending, a row is what it was judged to be. *)
LEMMA NonePending ==
    ASSUME NEW c, Sound(c), PendingOf(c) = {}, NEW f \in Alleged(c)
    PROVE  /\ FindingCase!Judgment(c, f.id).state \in {"matched", "spurious"}
           /\ FindingCase!Judgment(c, f.id).state = FindingCase!RowState(c, f)
<1>1. FindingCase!RowState(c, f) \notin {"unassessed", "ambiguous"}
  <2>1. RowsIn(c, {"unassessed", "ambiguous"}) = {}
    BY DEF PendingOf
  <2> QED
    BY <2>1 DEF RowsIn
<1> QED
  BY <1>1 DEF FindingCase!RowState

LEMMA AuthorityOne ==
    ASSUME Shaped(input)
    PROVE  FindingCase!OneAuthority
<1> SUFFICES ASSUME FindingCase!ScoreFindings(input).precision.state # "unassessed"
             PROVE  /\ input.reference.producer = input.alignment.producer
                    /\ input.reference.producer # "none"
                    /\ LET rows == FindingCase!Predicted(input) IN
                       \A i \in DOMAIN rows :
                          /\ rows[i].anchored
                          /\ FindingCase!Judgment(input, rows[i].id).state \in {"matched", "spurious"}
                          /\ \A j \in DOMAIN rows \ {i} :
                                FindingCase!Judgment(input, rows[i].id).state = "matched" =>
                                    FindingCase!Judgment(input, rows[j].id)
                                        # FindingCase!Judgment(input, rows[i].id)
  BY DEF FindingCase!OneAuthority, FindingCase!Score
<1>1. Sound(input)
  BY DEF Shaped
<1>2. AssessedOf(input)
  BY <1>1, RatesHold
<1>3. /\ Grounded(input) /\ PendingOf(input) = {}
      /\ FindingCase!ReferenceScope(input.reference) # "unassessed"
      /\ FindingCase!ReferenceScope(input.reference) = FindingCase!AlignmentScope(input)
  BY <1>2 DEF AssessedOf, FindingCase!Assessed
<1>4. input.reference.producer = input.alignment.producer /\ input.reference.producer # "none"
  <2>1. FindingCase!AlignmentScope(input) = FindingCase!ReferenceScope(input.alignment)
    BY <1>3 DEF FindingCase!AlignmentScope
  <2>2. /\ input.reference.independence = "independent" /\ input.alignment.independence = "independent"
        /\ input.reference.producer \in {"none", "human", "model", "workflow", "synthetic"}
        /\ input.alignment.producer \in {"none", "human", "model", "workflow", "synthetic"}
    BY FindingsAssumption DEF Shaped
  <2> QED
    BY <1>3, <2>1, <2>2 DEF FindingCase!ReferenceScope
<1> DEFINE rows == FindingCase!Predicted(input)
           judged(i) == FindingCase!Judgment(input, rows[i].id)
<1>5. /\ rows \in Seq(Findings)
      /\ \A i, j \in 1..Len(rows) : rows[i].id = rows[j].id => i = j
      /\ {rows[i] : i \in 1..Len(rows)} = Alleged(input)
  BY <1>1, PredictedRows
<1> HIDE DEF rows
<1>6. DOMAIN rows = 1..Len(rows) /\ \A i \in DOMAIN rows : rows[i] \in Alleged(input)
  BY <1>5
<1>7. ASSUME NEW i \in DOMAIN rows
      PROVE  /\ rows[i].anchored
             /\ judged(i).state \in {"matched", "spurious"}
             /\ judged(i).state = FindingCase!RowState(input, rows[i])
  BY <1>1, <1>3, <1>6, NonePending DEF Grounded, Alleged
<1>8. ASSUME NEW i \in DOMAIN rows, NEW j \in DOMAIN rows \ {i}, judged(i).state = "matched",
             judged(j) = judged(i)
      PROVE  FALSE
  <2>1. FindingCase!RowState(input, rows[i]) = "matched"
    BY <1>7, <1>8
  <2>2. /\ judged(i) = [state |-> "matched", defect |-> judged(i).defect]
        /\ ~(FindingCase!Claims(input, judged(i).defect, rows[i]) > 1)
    BY <1>1, <2>1, MatchedRow
  <2>3. rows[i] \in Claimers(input, judged(i).defect) /\ rows[j] \in Claimers(input, judged(i).defect)
    BY <1>6, <1>8, <2>2 DEF Claimers
  <2>4. rows[i] # rows[j]
    BY <1>5, <1>6
  <2> QED
    BY <1>1, <2>2, <2>3, <2>4, TwoClaims
<1> QED
  BY <1>4, <1>7, <1>8 DEF rows

LEMMA MissesMissed ==
    ASSUME Shaped(input)
    PROVE  FindingCase!MissesAreMisses
<1> DEFINE score == FindingCase!ScoreFindings(input)
           rows == FindingCase!Predicted(input)
           recall == FindingCase!RecallAssessed(input, AssessedOf(input))
           found == input.reference.defects
           judgments == input.alignment.judgments
           missed == {d \in found :
               /\ d.severity = "critical"
               /\ \A id \in DOMAIN judgments :
                     \/ judgments[id].defect # d.id
                     \/ \A i \in DOMAIN rows : rows[i].id # id}
<1>1. Sound(input)
  BY DEF Shaped
<1>2. score.recall.state # "unassessed" => recall
  BY <1>1, RatesHold
<1>3. score.critical_missed = IF recall THEN Cardinality(CriticalIds(input) \ Taken(input)) ELSE None
  <2>1. score = ScoreGiven(input, AssessedOf(input), recall)
    BY <1>1, ScoreIs
  <2> HIDE DEF score, recall
  <2> QED
    BY <2>1 DEF ScoreGiven
<1>4. recall => /\ input.reference.inventory = "complete"
                /\ FindingCase!Effective(input) \in {"pass", "edit", "block"}
  BY DEF FindingCase!RecallAssessed, FindingCase!Coverage
<1>5. ASSUME recall
      PROVE  Cardinality(CriticalIds(input) \ Taken(input)) = Cardinality(missed)
  <2>1. /\ PendingOf(input) = {} /\ input.alignment # None
    BY <1>5 DEF FindingCase!RecallAssessed, AssessedOf, FindingCase!Assessed,
          FindingCase!AlignmentScope
  <2>2. /\ rows \in Seq(Findings)
        /\ {rows[i] : i \in 1..Len(rows)} = Alleged(input)
    BY <1>1, PredictedRows
  <2> HIDE DEF rows
  <2>3. DOMAIN rows = 1..Len(rows)
    BY <2>2
  <2>4. ASSUME NEW d \in found
        PROVE  d.id \in Taken(input) <=>
                   \E id \in DOMAIN judgments :
                       judgments[id].defect = d.id /\ \E i \in DOMAIN rows : rows[i].id = id
    <3>1. ASSUME d.id \in Taken(input)
          PROVE  \E id \in DOMAIN judgments :
                     judgments[id].defect = d.id /\ \E i \in DOMAIN rows : rows[i].id = id
      <4>1. PICK f \in RowsIn(input, {"matched"}) : FindingCase!Judgment(input, f.id).defect = d.id
        BY <3>1 DEF Taken
      <4>2. f \in Alleged(input) /\ FindingCase!Judgment(input, f.id).state = "matched"
        BY <1>1, <2>1, <4>1, NonePending DEF RowsIn
      <4>3. f.id \in DOMAIN judgments /\ FindingCase!Judgment(input, f.id) = judgments[f.id]
        BY <4>2 DEF FindingCase!Judgment
      <4>4. \E i \in DOMAIN rows : rows[i] = f
        BY <2>2, <2>3, <4>2
      <4> QED
        BY <4>1, <4>3, <4>4
    <3>2. ASSUME NEW id \in DOMAIN judgments, judgments[id].defect = d.id,
                 NEW i \in DOMAIN rows, rows[i].id = id
          PROVE  d.id \in Taken(input)
      <4>1. rows[i] \in Alleged(input)
        BY <2>2, <2>3
      <4>2. FindingCase!Judgment(input, id) = judgments[id]
        BY <2>1 DEF FindingCase!Judgment
      <4>3. FindingCase!Judgment(input, id).state = FindingCase!RowState(input, rows[i])
        BY <1>1, <2>1, <3>2, <4>1, NonePending
      <4>4. FindingCase!Judgment(input, id).state = "matched"
        <5>1. SoundJudgment(input, FindingCase!Judgment(input, id))
          BY <1>1 DEF Sound
        <5>2. d.id # None
          BY <1>1, FindingsAssumption DEF Sound
        <5> QED
          BY <3>2, <4>2, <5>1, <5>2 DEF SoundJudgment
      <4>5. rows[i] \in RowsIn(input, {"matched"})
        BY <4>1, <4>3, <4>4 DEF RowsIn
      <4> QED
        BY <3>2, <4>2, <4>5 DEF Taken
    <3> QED
      BY <3>1, <3>2
  <2>5. missed = {d \in found : d.severity = "critical" /\ d.id \notin Taken(input)}
    BY <2>4
  <2>6. CriticalIds(input) \ Taken(input) = {d.id : d \in missed}
    <3> DEFINE severe == {d \in found : d.severity = "critical"}
    <3>1. missed = {d \in severe : d.id \notin Taken(input)}
      BY <2>5
    <3>2. CriticalIds(input) = {d.id : d \in severe}
      BY DEF CriticalIds
    <3> HIDE DEF missed, severe
    <3> QED
      BY <3>1, <3>2
  <2>7. missed \in SUBSET input.reference.defects
    OBVIOUS
  <2> HIDE DEF missed
  <2>8. Cardinality({d.id : d \in missed}) = Cardinality(missed)
    BY <1>1, <2>7, IdsCounted
  <2> QED
    BY <2>6, <2>8
<1>6. score.critical_missed # None => score.critical_missed = Cardinality(missed)
  <2> HIDE DEF score, recall, missed
  <2> QED
    BY <1>3, <1>5
<1>7. score.recall.state # "unassessed" \/ score.critical_missed # None =>
          /\ input.reference.inventory = "complete"
          /\ FindingCase!Effective(input) \in {"pass", "edit", "block"}
  <2> HIDE DEF score, recall
  <2> QED
    BY <1>2, <1>3, <1>4
<1> QED
  BY <1>6, <1>7, FindingOps DEF FindingCase!MissesAreMisses, FindingCase!Score, score, rows

-----------------------------------------------------------------------------
(* The subjects in a behaviour of Parts.                                    *)

(* A behaviour of the whole is one of the store: what is proved of put and of  *)
(* what power losses leave holds of it.                                      *)
THEOREM StoreIsPart == PartsSpec => Spec
<1>1. PartsInit => Init
  BY DEF PartsInit
<1>2. [PartsNext]_partsVars => [Next]_vars
  BY DEF PartsNext, partsVars
<1> QED
  BY <1>1, <1>2, PTL DEF PartsSpec, Spec

(* A plan is accepted if and only if its ids are distinct, its dependencies    *)
(* known and its items can be done in some order, whatever its rows and the    *)
(* order in which they name their dependencies (_validate_plan, a queue).     *)
THEOREM PlansAreJudged == PartsSpec => []VerdictIsRight
<1> DEFINE I == subject = "plan" => PlanInv
<1>1. PartsInit => I
  BY PlanInit, PlansAssumption DEF PartsInit
<1>2. I /\ [PartsNext]_partsVars => I'
  <2> SUFFICES ASSUME I, [PartsNext]_partsVars, subject' = "plan" PROVE PlanInv'
    OBVIOUS
  <2>1. CASE subject = "plan" /\ Plan!Next
    BY <2>1, ScanStep, PopStep, DecideStep DEF Plan!Next
  <2>2. CASE UNCHANGED <<subject, inputs>>
    <3>1. PlanInv /\ UNCHANGED planVars
      BY <2>2 DEF inputs
    <3> QED
      BY <3>1, PlanRests
  <2> QED
    BY <2>1, <2>2 DEF PartsNext, partsVars
<1>3. I => VerdictIsRight
  BY VerdictFollows DEF VerdictIsRight
<1> HIDE DEF I
<1> QED
  BY <1>1, <1>2, <1>3, PTL DEF PartsSpec

(* Only the store and the judgement of a plan take steps. *)
LEMMA InputsRest ==
    ASSUME [PartsNext]_partsVars
    PROVE  /\ subject' = subject
           /\ subject # "plan" => UNCHANGED inputs
BY DEF PartsNext, partsVars

(* No two findings take one defect, whatever their order, the counts add up    *)
(* and a suggestion neither helps nor harms; a rate is claimed only under one  *)
(* authority, and a miss only of a complete inventory and a complete review    *)
(* (score_findings, for reviews and references of any size).                 *)
THEOREM FindingsStayFair == PartsSpec => []FindingsAreFair
<1> DEFINE I == subject = "findings" => Shaped(input)
<1>1. PartsInit => I
  BY FindingMade DEF PartsInit
<1>2. I /\ [PartsNext]_partsVars => I'
  <2> SUFFICES ASSUME I, [PartsNext]_partsVars, subject' = "findings" PROVE Shaped(input)'
    OBVIOUS
  <2>1. Shaped(input) /\ input' = input
    BY InputsRest DEF inputs
  <2> QED
    BY <2>1
<1>3. I => FindingsAreFair
  <2> SUFFICES ASSUME Shaped(input)
               PROVE  /\ FindingCase!MatchingIsOneToOne /\ FindingCase!OrderFree
                      /\ FindingCase!SuggestionsDoNotCount
                      /\ FindingCase!OneAuthority /\ FindingCase!MissesAreMisses
    BY DEF FindingsAreFair
  <2>1. Sound(input)
    BY DEF Shaped
  <2> QED
    BY <2>1, OneToOne, OrderFreed, SuggestionsOut, AuthorityOne, MissesMissed
<1> HIDE DEF I
<1> QED
  BY <1>1, <1>2, <1>3, PTL DEF PartsSpec

(* A pass is earned by the review itself, the counts of a cohort agree, its    *)
(* rates have one authority, and a reviewer who abstains does not leave the    *)
(* denominator (assess_decision, score_decisions and the grouping of          *)
(* score_bundle, over bundles of any size).                                  *)
THEOREM DecisionsStayFair == PartsSpec => []DecisionsAreFair
<1> DEFINE I == subject = "decisions" => BundleShape
<1>1. PartsInit => I
  BY BundleMade DEF PartsInit
<1>2. I /\ [PartsNext]_partsVars => I'
  <2> SUFFICES ASSUME I, [PartsNext]_partsVars, subject' = "decisions" PROVE BundleShape'
    OBVIOUS
  <2>1. BundleShape /\ input' = input
    BY InputsRest DEF inputs
  <2> QED
    BY <2>1 DEF BundleShape
<1>3. I => DecisionsAreFair
  BY PassEarned, CountsAgreeing, OneScope, NoEscape DEF DecisionsAreFair
<1> HIDE DEF I
<1> QED
  BY <1>1, <1>2, <1>3, PTL DEF PartsSpec

(* Exactly the required checks of a rubric gate, a pass rests on a source that *)
(* was supplied, and what was not supplied refutes nothing (_evaluate and     *)
(* score_deterministic, over rubrics of any length).                         *)
THEOREM ChecksStayEvident == PartsSpec => []ChecksNeedEvidence
<1> DEFINE I == subject = "checks" => RubricShape
<1>1. PartsInit => I
  BY RubricMade DEF PartsInit
<1>2. I /\ [PartsNext]_partsVars => I'
  <2> SUFFICES ASSUME I, [PartsNext]_partsVars, subject' = "checks" PROVE RubricShape'
    OBVIOUS
  <2>1. RubricShape /\ input' = input
    BY InputsRest DEF inputs
  <2> QED
    BY <2>1 DEF RubricShape
<1>3. I => ChecksNeedEvidence
  BY RequiredDecided, OptionalOut, PassRests, AbsenceUnknown DEF ChecksNeedEvidence
<1> HIDE DEF I
<1> QED
  BY <1>1, <1>2, <1>3, PTL DEF PartsSpec

(* What the judges' adapters accept answers every criterion of the panel       *)
(* exactly once with a value that the report can count, whatever the order of  *)
(* the rows, and a value whose quotation is nowhere counts as unknown          *)
(* (generative._verdicts and _scores, row by row into a dictionary; jev).     *)
THEOREM RepliesStayWhole == PartsSpec => []RepliesAreWhole
<1> DEFINE I == subject = "replies" => ReplyShape
<1>1. PartsInit => I
  BY ReplyMade DEF PartsInit
<1>2. I /\ [PartsNext]_partsVars => I'
  <2> SUFFICES ASSUME I, [PartsNext]_partsVars, subject' = "replies" PROVE ReplyShape'
    OBVIOUS
  <2>1. ReplyShape /\ mode' = mode /\ judge' = judge /\ reply' = reply
    BY InputsRest DEF inputs, judgeVars
  <2> QED
    BY <2>1 DEF ReplyShape
<1>3. I => RepliesAreWhole
  BY Indexed, Complete, EvidenceScored DEF RepliesAreWhole
<1> HIDE DEF I
<1> QED
  BY <1>1, <1>2, <1>3, PTL DEF PartsSpec

-----------------------------------------------------------------------------
(* The figures of a panel.  What they add up, as sums over finite sets.      *)
Comparison(C) == \A c \in C : c.weight \in Nat

WinsOf(who, C) == [c \in C |-> IF c.winner = who THEN c.weight ELSE 0]

LEMMA WinsAreSum ==
    ASSUME NEW C, IsFiniteSet(C), Comparison(C), NEW who
    PROVE  Panel!Wins(who, C) = SumOf(WinsOf(who, C), C)
<1> DEFINE f == WinsOf(who, C)
           Pick(s) == CHOOSE c \in s : TRUE
           Unfolded(t) == [s \in SUBSET C |->
               IF s = {} THEN 0
               ELSE (IF Pick(s).winner = who THEN Pick(s).weight ELSE 0) + t[s \ {Pick(s)}]]
           t == CHOOSE iter : iter = Unfolded(iter)
<1>1. Panel!Wins(who, C) = t[C]
  BY DEF Panel!Wins, Panel!MapThenSumSet, Panel!MapThenFoldSet
<1>2. Weighs(f, C)
  BY DEF Weighs, WinsOf, Comparison
<1>3. PICK g : Additive(g, f, C)
  BY <1>2, AdditiveExists
<1>4. ASSUME NEW s \in SUBSET C, s # {}
      PROVE  Pick(s) \in s /\ Pick(s) \in C
  BY <1>4
<1>5. g = Unfolded(g)
  BY <1>3, <1>4 DEF Additive, WinsOf
<1>6. t = Unfolded(t)
  <2> HIDE DEF Unfolded
  <2> QED
    BY <1>5
<1>7. Tallies(t, f, C)
  <2> HIDE DEF t
  <2> QED
    BY <1>4, <1>6 DEF Tallies, WinsOf
<1>8. t[C] = SumOf(f, C)
  <2> HIDE DEF t, f
  <2> QED
    BY <1>2, <1>7, SumComputed
<1> QED
  BY <1>1, <1>8

WeightsOf(C) == [c \in C |-> c.weight]

LEMMA WeightIsSum ==
    ASSUME NEW C, IsFiniteSet(C), Comparison(C)
    PROVE  Panel!Weight(C) = SumOf(WeightsOf(C), C)
<1> DEFINE f == WeightsOf(C)
           Pick(s) == CHOOSE c \in s : TRUE
           Unfolded(t) == [s \in SUBSET C |->
                           IF s = {} THEN 0 ELSE Pick(s).weight + t[s \ {Pick(s)}]]
           t == CHOOSE iter : iter = Unfolded(iter)
<1>1. Panel!Weight(C) = t[C]
  BY DEF Panel!Weight, Panel!MapThenSumSet, Panel!MapThenFoldSet
<1>2. Weighs(f, C)
  BY DEF Weighs, WeightsOf, Comparison
<1>3. PICK g : Additive(g, f, C)
  BY <1>2, AdditiveExists
<1>4. ASSUME NEW s \in SUBSET C, s # {}
      PROVE  Pick(s) \in s /\ Pick(s) \in C
  BY <1>4
<1>5. g = Unfolded(g)
  BY <1>3, <1>4 DEF Additive, WeightsOf
<1>6. t = Unfolded(t)
  <2> HIDE DEF Unfolded
  <2> QED
    BY <1>5
<1>7. Tallies(t, f, C)
  <2> HIDE DEF t
  <2> QED
    BY <1>4, <1>6 DEF Tallies, WeightsOf
<1>8. t[C] = SumOf(f, C)
  <2> HIDE DEF t, f
  <2> QED
    BY <1>2, <1>7, SumComputed
<1> QED
  BY <1>1, <1>8

LEMMA FunctionIsSummed ==
    ASSUME NEW f, IsFiniteSet(DOMAIN f), Weighs(f, DOMAIN f)
    PROVE  Panel!SumFunction(f) = SumOf(f, DOMAIN f)
<1> DEFINE S == DOMAIN f
           Pick(s) == CHOOSE i \in s : TRUE
           Unfolded(t) == [s \in SUBSET S |->
                           IF s = {} THEN 0 ELSE f[Pick(s)] + t[s \ {Pick(s)}]]
           t == CHOOSE iter : iter = Unfolded(iter)
<1>1. Panel!SumFunction(f) = t[S]
  BY DEF Panel!SumFunction, Panel!SumFunctionOnSet, Panel!FoldFunctionOnSet, Panel!MapThenFoldSet
<1> HIDE DEF S
<1>2. IsFiniteSet(S) /\ Weighs(f, S)
  BY DEF S
<1>3. PICK g : Additive(g, f, S)
  BY <1>2, AdditiveExists
<1>4. ASSUME NEW s \in SUBSET S, s # {}
      PROVE  Pick(s) \in s /\ Pick(s) \in S
  BY <1>4
<1>5. g = Unfolded(g)
  BY <1>3, <1>4 DEF Additive
<1>6. t = Unfolded(t)
  <2> HIDE DEF Unfolded
  <2> QED
    BY <1>5
<1>7. Tallies(t, f, S)
  <2> HIDE DEF t
  <2> QED
    BY <1>4, <1>6 DEF Tallies
<1>8. t[S] = SumOf(f, S)
  <2> HIDE DEF t
  <2> QED
    BY <1>2, <1>7, SumComputed
<1> QED
  BY <1>1, <1>8 DEF S

-----------------------------------------------------------------------------
(* Parts has the library's operators, and through its instances again. *)
LEMMA PanelOps ==
    /\ \A S : Panel!Cardinality(S) = Cardinality(S)
    /\ \A s, set : Panel!Only(s, set) = Only(s, set)
BY DEF Cardinality, Panel!Cardinality, Only, Panel!Only

PanelCase == [names : Custodies, records : Tables]

PanelShape ==
    /\ names \in Custodies /\ records \in Tables /\ other \in PanelCase
    /\ scores \in [Candidates -> Seq((0..3) \cup {None})] /\ strength \in [Candidates -> Int]

LEMMA PanelMade == Panel!Init => PanelShape
<1> SUFFICES ASSUME Panel!Init PROVE PanelShape
  OBVIOUS
<1>1. names \in Custodies
  BY PanelsAssumption DEF Panel!Init
<1>2. records \in Tables /\ other \in PanelCase /\ strength \in [Candidates -> Int]
  <2> DEFINE r == CHOOSE x \in Recorded : TRUE
             o == CHOOSE x \in OtherCases : TRUE
             s == CHOOSE x \in Strengths : TRUE
  <2>1. r \in Recorded /\ o \in OtherCases /\ s \in Strengths
    BY PanelsAssumption
  <2>2. records \in Recorded /\ other \in OtherCases /\ strength \in Strengths
    <3>1. \/ records \in Recorded /\ other \in OtherCases /\ strength \in {s}
          \/ records \in {r} /\ other \in {o} /\ strength \in Strengths
      BY DEF Panel!Init
    <3> HIDE DEF r, o, s
    <3> QED
      BY <2>1, <3>1
  <2> QED
    BY <2>2, PanelsAssumption DEF PanelCase
<1>3. scores \in [Candidates -> Seq((0..3) \cup {None})]
  <2>1. scores = [c \in Candidates |-> <<>>] \/ scores \in Scored
    BY DEF Panel!Init, Panel!Neutral
  <2>2. <<>> \in Seq((0..3) \cup {None})
    OBVIOUS
  <2>3. CASE scores = [c \in Candidates |-> <<>>]
    BY <2>2, <2>3
  <2>4. CASE scores \in Scored
    BY <2>4, PanelsAssumption
  <2> QED
    BY <2>1, <2>3, <2>4
<1> QED
  BY <1>1, <1>2, <1>3 DEF PanelShape

(* The presentations and the judges are finitely many. *)
LEMMA PanelFinite ==
    /\ IsFiniteSet(Panel!Presentations) /\ IsFiniteSet(Panel!Pooled)
    /\ IsFiniteSet(Panel!Presentations \X Panel!Pooled)
    /\ \A exclude : IsFiniteSet(Panel!Shown(exclude))
<1>1. IsFiniteSet(Candidates \X Candidates)
  BY PanelsAssumption, FS_Product
<1>2. IsFiniteSet(Panel!Presentations)
  BY <1>1, FS_Subset DEF Panel!Presentations
<1>3. IsFiniteSet(Panel!Pooled)
  <2>1. Panel!Pooled \subseteq DOMAIN Kind
    BY DEF Panel!Pooled, Panel!Judges
  <2> QED
    BY <2>1, PanelsAssumption, FS_Subset
<1>4. IsFiniteSet(Panel!Presentations \X Panel!Pooled)
  BY <1>2, <1>3, FS_Product
<1>5. \A exclude : IsFiniteSet(Panel!Shown(exclude))
  BY <1>2, FS_Subset DEF Panel!Shown
<1> QED
  BY <1>2, <1>3, <1>4, <1>5

(* What a verdict compares. *)
Beats(j, p, winner, loser, weight) ==
    [judge |-> j, shown |-> p, winner |-> winner, loser |-> loser, weight |-> weight]

LEMMA ComparedIs ==
    ASSUME NEW j, NEW p
    PROVE  /\ Panel!Compared(j, p, "a") = {Beats(j, p, p[1], p[2], 2)}
           /\ Panel!Compared(j, p, "b") = {Beats(j, p, p[2], p[1], 2)}
           /\ Panel!Compared(j, p, "tie") =
                  {Beats(j, p, p[1], p[2], 1), Beats(j, p, p[2], p[1], 1)}
           /\ Panel!Compared(j, p, "unknown") = {} /\ Panel!Compared(j, p, "missing") = {}
BY DEF Panel!Compared, Beats

(* No draft is ranked by a judge of its own family. *)
LEMMA BlindToFamily ==
    ASSUME PanelShape
    PROVE  Panel!FamilyBlind
<1> SUFFICES ASSUME NEW v \in Panel!Verdicts,
                    NEW told, told = [pj \in Panel!Presentations \X Panel!Judges |->
                        IF \E c \in Panel!PairOf(pj[1]) : FamilyOf[names[c]] = Kind[pj[2]]
                        THEN v ELSE records[pj]]
             PROVE  Panel!Consensus(told, names) = Panel!Consensus(records, names)
  BY DEF Panel!FamilyBlind
<1>1. ASSUME NEW j \in Panel!Pooled, NEW p \in Panel!Shown(Panel!Own(j, names))
      PROVE  told[<<p, j>>] = records[<<p, j>>]
  <2>1. <<p, j>> \in Panel!Presentations \X Panel!Judges
    BY DEF Panel!Shown, Panel!Pooled
  <2>2. \A c \in Panel!PairOf(p) : FamilyOf[names[c]] # Kind[j]
    BY DEF Panel!Shown, Panel!PairOf, Panel!Presentations, Panel!Own
  <2> QED
    BY <2>1, <2>2
<1>2. ASSUME NEW j \in Panel!Pooled
      PROVE  Panel!Comparisons(told, j, Panel!Own(j, names))
               = Panel!Comparisons(records, j, Panel!Own(j, names))
  <2>1. \A p \in Panel!Shown(Panel!Own(j, names)) :
            Panel!Compared(j, p, told[<<p, j>>]) = Panel!Compared(j, p, records[<<p, j>>])
    BY <1>1, Zenon
  <2> QED
    BY <2>1, Zenon DEF Panel!Comparisons
<1> QED
  BY <1>2 DEF Panel!Consensus

-----------------------------------------------------------------------------
(* The part of one panel in the combination of several. *)
InCase(k, case, c) ==
    [case |-> k, judge |-> c.judge, shown |-> c.shown, weight |-> c.weight,
     winner |-> case.names[c.winner], loser |-> case.names[c.loser]]

PartOf(k, case) == {InCase(k, case, c) : c \in Panel!Consensus(case.records, case.names)}

Said == Panel!Presentations \X Panel!Pooled

Says(model, case, v, n) ==
    {pj \in Said : /\ case.records[pj] = v /\ Panel!Fair(pj[1], pj[2], case.names)
                   /\ case.names[pj[1][n]] = model}

(* ... which consists of what each judge said of each presentation. *)
Piece(k, case, pj) ==
    {InCase(k, case, c) : c \in
        IF Panel!Fair(pj[1], pj[2], case.names)
        THEN Panel!Compared(pj[2], pj[1], case.records[pj]) ELSE {}}

LEMMA PartInPieces ==
    ASSUME NEW k, NEW case \in PanelCase
    PROVE  PartOf(k, case) = UNION {Piece(k, case, pj) : pj \in Said}
<1>1. ASSUME NEW j \in Panel!Pooled, NEW p \in Panel!Presentations
      PROVE  p \in Panel!Shown(Panel!Own(j, case.names)) <=> Panel!Fair(p, j, case.names)
  BY <1>1 DEF Panel!Shown, Panel!Own, Panel!Fair, Panel!PairOf, Panel!Presentations
<1>2. ASSUME NEW c
      PROVE  c \in Panel!Consensus(case.records, case.names) <=>
               \E pj \in Said : /\ Panel!Fair(pj[1], pj[2], case.names)
                                /\ c \in Panel!Compared(pj[2], pj[1], case.records[pj])
  <2>1. c \in Panel!Consensus(case.records, case.names) <=>
            \E j \in Panel!Pooled : \E p \in Panel!Shown(Panel!Own(j, case.names)) :
                c \in Panel!Compared(j, p, case.records[<<p, j>>])
    <3>1. \A j : c \in Panel!Comparisons(case.records, j, Panel!Own(j, case.names)) <=>
                   \E p \in Panel!Shown(Panel!Own(j, case.names)) :
                       c \in Panel!Compared(j, p, case.records[<<p, j>>])
      BY DEF Panel!Comparisons
    <3>2. c \in Panel!Consensus(case.records, case.names) <=>
              \E j \in Panel!Pooled :
                  c \in Panel!Comparisons(case.records, j, Panel!Own(j, case.names))
      BY DEF Panel!Consensus
    <3> QED
      BY <3>1, <3>2, Zenon
  <2>2. c \in Panel!Consensus(case.records, case.names) <=>
            \E j \in Panel!Pooled : \E p \in Panel!Presentations :
                /\ Panel!Fair(p, j, case.names)
                /\ c \in Panel!Compared(j, p, case.records[<<p, j>>])
    BY <1>1, <2>1 DEF Panel!Shown
  <2>3. /\ \A pj \in Said : /\ pj[1] \in Panel!Presentations /\ pj[2] \in Panel!Pooled
                             /\ pj = <<pj[1], pj[2]>>
        /\ \A j \in Panel!Pooled, p \in Panel!Presentations :
               <<p, j>> \in Said /\ <<p, j>>[1] = p /\ <<p, j>>[2] = j
    BY DEF Said
  <2> DEFINE Q(p, j) == /\ Panel!Fair(p, j, case.names)
                        /\ c \in Panel!Compared(j, p, case.records[<<p, j>>])
  <2>4. \A pj \in Said :
            Q(pj[1], pj[2]) <=> /\ Panel!Fair(pj[1], pj[2], case.names)
                                /\ c \in Panel!Compared(pj[2], pj[1], case.records[pj])
    BY <2>3, Zenon
  <2>5. c \in Panel!Consensus(case.records, case.names) <=>
            \E j \in Panel!Pooled : \E p \in Panel!Presentations : Q(p, j)
    BY <2>2, Zenon
  <2> HIDE DEF Q
  <2>6. (\E j \in Panel!Pooled : \E p \in Panel!Presentations : Q(p, j))
           <=> \E pj \in Said : Q(pj[1], pj[2])
    <3>1. ASSUME NEW j \in Panel!Pooled, NEW p \in Panel!Presentations, Q(p, j)
          PROVE  \E pj \in Said : Q(pj[1], pj[2])
      <4>1. <<p, j>> \in Said /\ Q(<<p, j>>[1], <<p, j>>[2])
        BY <2>3, <3>1, Zenon
      <4> QED
        BY <4>1, Zenon
    <3>2. ASSUME NEW pj \in Said, Q(pj[1], pj[2])
          PROVE  \E j \in Panel!Pooled : \E p \in Panel!Presentations : Q(p, j)
      BY <2>3, <3>2, Zenon
    <3> QED
      BY <3>1, <3>2, Zenon
  <2> QED
    BY <2>4, <2>5, <2>6, Zenon
<1> QED
  BY <1>2 DEF PartOf, Piece

(* What a piece consists of, and how it weighs for a model. *)
Worth(model, case, pj) ==
    IF ~Panel!Fair(pj[1], pj[2], case.names) THEN 0
    ELSE IF case.records[pj] = "a" THEN (IF case.names[pj[1][1]] = model THEN 2 ELSE 0)
    ELSE IF case.records[pj] = "b" THEN (IF case.names[pj[1][2]] = model THEN 2 ELSE 0)
    ELSE IF case.records[pj] = "tie"
         THEN (IF case.names[pj[1][1]] = model THEN 1 ELSE 0)
                  + (IF case.names[pj[1][2]] = model THEN 1 ELSE 0)
    ELSE 0

LEMMA PieceWeighs ==
    ASSUME NEW k, NEW case \in PanelCase, NEW pj \in Said, NEW model,
           NEW f, \A c \in Piece(k, case, pj) : f[c] = IF c.winner = model THEN c.weight ELSE 0
    PROVE  /\ IsFiniteSet(Piece(k, case, pj))
           /\ \A c \in Piece(k, case, pj) :
                  c.weight \in Nat /\ c.case = k /\ c.shown = pj[1] /\ c.judge = pj[2]
           /\ SumOf(f, Piece(k, case, pj)) = Worth(model, case, pj)
<1> DEFINE p == pj[1]
           j == pj[2]
           own(n) == case.names[p[n]]
           row(winner, loser, weight) ==
               [case |-> k, judge |-> j, shown |-> p, weight |-> weight,
                winner |-> winner, loser |-> loser]
           P == Piece(k, case, pj)
<1>1. /\ p[1] \in Candidates /\ p[2] \in Candidates /\ p[1] # p[2]
      /\ case.records[pj] \in {"a", "b", "tie", "unknown", "missing"}
  BY DEF Said, Panel!Presentations, PanelCase, Tables, Panel!Pooled, Panel!Judges, Panel!Verdicts
<1>2. own(1) # own(2)
  BY <1>1 DEF PanelCase, Custodies
<1>3. CASE ~Panel!Fair(p, j, case.names) \/ case.records[pj] \in {"unknown", "missing"}
  <2>1. P = {}
    BY <1>3, ComparedIs DEF Piece
  <2>2. Worth(model, case, pj) = 0
    BY <1>3 DEF Worth
  <2> HIDE DEF P
  <2> QED
    BY <2>1, <2>2, SumEmpty, FS_EmptySet DEF P
<1>4. CASE Panel!Fair(p, j, case.names) /\ case.records[pj] \in {"a", "b"}
  <2> DEFINE c == IF case.records[pj] = "a" THEN row(own(1), own(2), 2) ELSE row(own(2), own(1), 2)
  <2>1. P = {c}
    <3>1. Panel!Compared(j, p, case.records[pj])
            = {IF case.records[pj] = "a" THEN Beats(j, p, p[1], p[2], 2) ELSE Beats(j, p, p[2], p[1], 2)}
      BY <1>4, ComparedIs
    <3> QED
      BY <1>4, <3>1 DEF Piece, InCase, Beats
  <2>2. c.weight = 2 /\ c.case = k /\ c.shown = p /\ c.judge = j
    OBVIOUS
  <2>3. (IF c.winner = model THEN c.weight ELSE 0) = Worth(model, case, pj)
    BY <1>4 DEF Worth
  <2> HIDE DEF P, c
  <2>4. f[c] = Worth(model, case, pj)
    BY <2>1, <2>3 DEF P
  <2>5. Worth(model, case, pj) \in Nat
    BY DEF Worth
  <2>6. SumOf(f, {c}) = f[c]
    BY <2>4, <2>5, SumFew
  <2>7. IsFiniteSet({c})
    BY FS_Singleton
  <2> QED
    BY <2>1, <2>2, <2>4, <2>6, <2>7 DEF P
<1>5. CASE Panel!Fair(p, j, case.names) /\ case.records[pj] = "tie"
  <2> DEFINE c == row(own(1), own(2), 1)
             d == row(own(2), own(1), 1)
  <2>1. P = {c, d}
    <3>1. Panel!Compared(j, p, case.records[pj])
            = {Beats(j, p, p[1], p[2], 1), Beats(j, p, p[2], p[1], 1)}
      BY <1>5, ComparedIs
    <3>2. P = {InCase(k, case, x) : x \in {Beats(j, p, p[1], p[2], 1), Beats(j, p, p[2], p[1], 1)}}
      BY <1>5, <3>1 DEF Piece
    <3>3. /\ InCase(k, case, Beats(j, p, p[1], p[2], 1)) = c
          /\ InCase(k, case, Beats(j, p, p[2], p[1], 1)) = d
      BY DEF InCase, Beats
    <3> HIDE DEF P, c, d
    <3> QED
      BY <3>2, <3>3
  <2>2. /\ c.weight = 1 /\ c.case = k /\ c.shown = p /\ c.judge = j /\ c.winner = own(1)
        /\ d.weight = 1 /\ d.case = k /\ d.shown = p /\ d.judge = j /\ d.winner = own(2)
    OBVIOUS
  <2> HIDE DEF P, c, d
  <2>3. c # d
    BY <1>2, <2>2
  <2>4. /\ f[c] = IF own(1) = model THEN 1 ELSE 0
        /\ f[d] = IF own(2) = model THEN 1 ELSE 0
    BY <2>1, <2>2 DEF P
  <2>5. Worth(model, case, pj) = f[c] + f[d]
    BY <1>5, <2>4 DEF Worth
  <2>6. SumOf(f, {c, d}) = f[c] + f[d]
    <3>1. f[c] \in Nat /\ f[d] \in Nat
      BY <2>4
    <3> QED
      BY <2>3, <3>1, SumFew
  <2>7. IsFiniteSet({c, d})
    <3>1. {c, d} = {c} \cup {d} /\ IsFiniteSet({c}) /\ IsFiniteSet({d})
      BY FS_Singleton
    <3> QED
      BY <3>1, FS_Union
  <2> QED
    BY <2>1, <2>2, <2>5, <2>6, <2>7 DEF P
<1> QED
  BY <1>1, <1>3, <1>4, <1>5

(* What a part gives a model is what the verdicts give it. *)
LEMMA PartCounted ==
    ASSUME NEW k, NEW case \in PanelCase, NEW model,
           NEW f, \A c \in PartOf(k, case) : f[c] = IF c.winner = model THEN c.weight ELSE 0
    PROVE  /\ IsFiniteSet(PartOf(k, case))
           /\ \A c \in PartOf(k, case) : c.weight \in Nat /\ c.case = k
           /\ SumOf(f, PartOf(k, case)) = Panel!Named(model, case)
<1> DEFINE C == [pj \in Said |-> Piece(k, case, pj)]
           h == [pj \in Said |-> Worth(model, case, pj)]
<1>1. \A c : c \in PartOf(k, case) <=> \E pj \in Said : c \in C[pj]
  BY PartInPieces
<1>2. ASSUME NEW pj \in Said
      PROVE  /\ IsFiniteSet(C[pj])
             /\ \A c \in C[pj] : c.weight \in Nat /\ c.case = k /\ c.shown = pj[1] /\ c.judge = pj[2]
             /\ SumOf(f, C[pj]) = h[pj]
  <2>1. \A c \in Piece(k, case, pj) : f[c] = IF c.winner = model THEN c.weight ELSE 0
    BY PartInPieces
  <2> QED
    BY <2>1, PieceWeighs
<1>3. \A x, y \in Said : x # y => C[x] \cap C[y] = {}
  <2> SUFFICES ASSUME NEW x \in Said, NEW y \in Said, NEW c, c \in C[x], c \in C[y]
               PROVE  x = y
    OBVIOUS
  <2>1. x[1] = y[1] /\ x[2] = y[2]
    <3> HIDE DEF C
    <3>1. c.shown = x[1] /\ c.judge = x[2]
      BY <1>2
    <3>2. c.shown = y[1] /\ c.judge = y[2]
      BY <1>2
    <3> QED
      BY <3>1, <3>2
  <2> QED
    BY <2>1 DEF Said
<1> HIDE DEF C
<1>4. \A c \in PartOf(k, case) : c.weight \in Nat /\ c.case = k
  BY <1>1, <1>2
<1>5. Weighs(f, PartOf(k, case))
  BY <1>4 DEF Weighs
<1>6. IsFiniteSet(Said)
  BY PanelFinite DEF Said
<1>7. IsFiniteSet(PartOf(k, case)) /\ SumOf(f, PartOf(k, case)) = SumOf(h, Said)
  <2>1. Family(C, Said, PartOf(k, case)) /\ SumsOver(h, f, C, Said)
    BY <1>1, <1>2, <1>3 DEF Family, SumsOver
  <2> HIDE DEF h
  <2> QED
    BY <1>5, <1>6, <2>1, SumOfUnion
<1> DEFINE wins(v, n, weight) == [pj \in Said |-> IF pj \in Says(model, case, v, n) THEN weight ELSE 0]
           N(v, n) == Cardinality(Says(model, case, v, n))
<1>8. ASSUME NEW v, NEW n, NEW weight \in Nat
      PROVE  /\ Weighs(wins(v, n, weight), Said)
             /\ SumOf(wins(v, n, weight), Said) = weight * N(v, n) /\ N(v, n) \in Nat
  <2>1. Says(model, case, v, n) \in SUBSET Said
    BY DEF Says
  <2>2. \A pj \in Said :
            wins(v, n, weight)[pj] = IF pj \in Says(model, case, v, n) THEN weight ELSE 0
    OBVIOUS
  <2>3. Weighs(wins(v, n, weight), Said)
    BY DEF Weighs
  <2>4. N(v, n) \in Nat
    BY <1>6, <2>1, FS_Subset, FS_CardinalityType
  <2> HIDE DEF wins
  <2>5. SumOf(wins(v, n, weight), Said) = weight * N(v, n)
    BY <1>6, <2>1, <2>2, SumConstant
  <2> QED
    BY <2>3, <2>4, <2>5
<1> DEFINE a == wins("a", 1, 2)
           b == wins("b", 2, 2)
           s == wins("tie", 1, 1)
           t == wins("tie", 2, 1)
           ab == [pj \in Said |-> a[pj] + b[pj]]
           abs == [pj \in Said |-> ab[pj] + s[pj]]
<1>9. \A pj \in Said : h[pj] = abs[pj] + t[pj]
  <2> TAKE pj \in Said
  <2>1. h[pj] = Worth(model, case, pj) /\ abs[pj] + t[pj] = ((a[pj] + b[pj]) + s[pj]) + t[pj]
    OBVIOUS
  <2>2. /\ a[pj] = IF pj \in Says(model, case, "a", 1) THEN 2 ELSE 0
        /\ b[pj] = IF pj \in Says(model, case, "b", 2) THEN 2 ELSE 0
        /\ s[pj] = IF pj \in Says(model, case, "tie", 1) THEN 1 ELSE 0
        /\ t[pj] = IF pj \in Says(model, case, "tie", 2) THEN 1 ELSE 0
    OBVIOUS
  <2> HIDE DEF a, b, s, t, ab, abs, h
  <2> QED
    BY <2>1, <2>2 DEF Says, Worth
<1>10. SumOf(h, Said) = ((SumOf(a, Said) + SumOf(b, Said)) + SumOf(s, Said)) + SumOf(t, Said)
  <2>1. Weighs(a, Said) /\ Weighs(b, Said) /\ Weighs(s, Said) /\ Weighs(t, Said)
    BY <1>8
  <2> HIDE DEF a, b, s, t, h
  <2>2. \A pj \in Said : ab[pj] = a[pj] + b[pj] /\ abs[pj] = ab[pj] + s[pj]
    OBVIOUS
  <2>3. Weighs(ab, Said) /\ Weighs(abs, Said)
    BY <2>1, <2>2 DEF Weighs
  <2> HIDE DEF ab, abs
  <2>4. SumOf(ab, Said) = SumOf(a, Said) + SumOf(b, Said)
    BY <1>6, <2>1, <2>2, SumPlus
  <2>5. SumOf(abs, Said) = SumOf(ab, Said) + SumOf(s, Said)
    BY <1>6, <2>1, <2>2, <2>3, SumPlus
  <2>6. SumOf(h, Said) = SumOf(abs, Said) + SumOf(t, Said)
    BY <1>6, <1>9, <2>1, <2>3, SumPlus
  <2> QED
    BY <2>4, <2>5, <2>6
<1>11. /\ SumOf(a, Said) = 2 * N("a", 1) /\ SumOf(b, Said) = 2 * N("b", 2)
       /\ SumOf(s, Said) = 1 * N("tie", 1) /\ SumOf(t, Said) = 1 * N("tie", 2)
       /\ N("tie", 1) \in Nat /\ N("tie", 2) \in Nat
  BY <1>8
<1>12. Panel!Named(model, case) = 2 * N("a", 1) + 2 * N("b", 2) + N("tie", 1) + N("tie", 2)
  BY PanelOps DEF Panel!Named, Says, Said
<1> HIDE DEF h, a, b, s, t, N
<1>13. SumOf(h, Said) = Panel!Named(model, case)
  BY <1>10, <1>11, <1>12
<1> QED
  BY <1>4, <1>7, <1>13

(* The ranking over several panels is what a count over their verdicts gives. *)
LEMMA CombinedCounted ==
    ASSUME PanelShape
    PROVE  Panel!CombinedIsCount
<1> SUFFICES ASSUME NEW model
             PROVE  Panel!Wins(model, Panel!Combined(Panel!Cases))
                      = Panel!Named(model, Panel!Cases[1]) + Panel!Named(model, Panel!Cases[2])
  BY DEF Panel!CombinedIsCount
<1> DEFINE one == Panel!Cases[1]
           two == Panel!Cases[2]
           C == Panel!Combined(Panel!Cases)
           f == WinsOf(model, C)
<1>1. one \in PanelCase /\ two \in PanelCase /\ DOMAIN Panel!Cases = {1, 2}
  BY DEF Panel!Cases, PanelShape, PanelCase
<1>2. C = PartOf(1, one) \cup PartOf(2, two)
  <2>1. C = UNION {PartOf(k, Panel!Cases[k]) : k \in DOMAIN Panel!Cases}
    BY Zenon DEF Panel!Combined, PartOf, InCase
  <2> HIDE DEF C
  <2> QED
    BY <1>1, <2>1
<1> HIDE DEF one, two, C
<1>3. /\ \A c \in PartOf(1, one) : f[c] = IF c.winner = model THEN c.weight ELSE 0
      /\ \A c \in PartOf(2, two) : f[c] = IF c.winner = model THEN c.weight ELSE 0
  BY <1>2 DEF WinsOf
<1> HIDE DEF f
<1>4. /\ IsFiniteSet(PartOf(1, one))
      /\ \A c \in PartOf(1, one) : c.weight \in Nat /\ c.case = 1
      /\ SumOf(f, PartOf(1, one)) = Panel!Named(model, one)
  BY <1>1, <1>3, PartCounted
<1>5. /\ IsFiniteSet(PartOf(2, two))
      /\ \A c \in PartOf(2, two) : c.weight \in Nat /\ c.case = 2
      /\ SumOf(f, PartOf(2, two)) = Panel!Named(model, two)
  BY <1>1, <1>3, PartCounted
<1>6. PartOf(1, one) \cap PartOf(2, two) = {}
  BY <1>4, <1>5
<1>7. Comparison(C) /\ IsFiniteSet(C)
  <2>1. IsFiniteSet(PartOf(1, one) \cup PartOf(2, two))
    BY <1>4, <1>5, FS_Union
  <2> QED
    BY <1>2, <1>4, <1>5, <2>1 DEF Comparison
<1>8. Panel!Wins(model, C) = SumOf(f, C)
  BY <1>7, WinsAreSum DEF f
<1>9. Weighs(f, PartOf(1, one) \cup PartOf(2, two))
  BY <1>3, <1>4, <1>5 DEF Weighs
<1>10. SumOf(f, PartOf(1, one) \cup PartOf(2, two))
         = SumOf(f, PartOf(1, one)) + SumOf(f, PartOf(2, two))
  BY <1>4, <1>5, <1>6, <1>9, SumApart
<1> QED
  BY <1>2, <1>4, <1>5, <1>8, <1>10 DEF C, one, two

-----------------------------------------------------------------------------
(* What a judge said of the presentations that are shown.                    *)
Table == records \in Tables

SaidOf(j, exclude, set) == {p \in Panel!Shown(exclude) : records[<<p, j>>] \in set}

LEMMA SaidIs ==
    ASSUME Table, NEW j \in Panel!Judges, NEW exclude
    PROVE  /\ \A p \in Panel!Presentations : records[<<p, j>>] \in Panel!Verdicts
           /\ Panel!Shown(exclude) \subseteq Panel!Presentations
           /\ \A set : IsFiniteSet(SaidOf(j, exclude, set))
<1>1. \A p \in Panel!Presentations : <<p, j>> \in Panel!Presentations \X Panel!Judges
  OBVIOUS
<1>2. \A set : SaidOf(j, exclude, set) \subseteq Panel!Shown(exclude)
  BY DEF SaidOf
<1>3. IsFiniteSet(Panel!Shown(exclude))
  BY PanelFinite
<1> QED
  BY <1>1, <1>2, <1>3, FS_Subset DEF Table, Tables, Panel!Shown

LEMMA CountIs ==
    ASSUME Table, NEW j \in Panel!Judges, NEW exclude
    PROVE  LET counts == Panel!Counts(records, j, exclude)
           IN  /\ DOMAIN counts = Panel!Verdicts
               /\ \A v \in Panel!Verdicts : /\ counts[v] = Cardinality(SaidOf(j, exclude, {v}))
                                            /\ counts[v] \in Nat
               /\ Panel!ScoredPresentations(counts)
                      = Cardinality(SaidOf(j, exclude, {"a", "b", "tie"}))
<1> DEFINE counts == Panel!Counts(records, j, exclude)
           N(set) == Cardinality(SaidOf(j, exclude, set))
<1>1. \A set : IsFiniteSet(SaidOf(j, exclude, set)) /\ N(set) \in Nat
  BY SaidIs, FS_CardinalityType
<1>2. ASSUME NEW v \in Panel!Verdicts
      PROVE  counts[v] = N({v})
  <2>1. SaidOf(j, exclude, {v}) = {p \in Panel!Shown(exclude) : records[<<p, j>>] = v}
    BY DEF SaidOf
  <2>2. counts[v] = Panel!Cardinality({p \in Panel!Shown(exclude) : records[<<p, j>>] = v})
    BY DEF Panel!Counts
  <2> QED
    BY <2>1, <2>2, PanelOps, Zenon
<1>3. DOMAIN counts = Panel!Verdicts
  BY DEF Panel!Counts
<1>4. ASSUME NEW S, NEW T, S \cap T = {}
      PROVE  N(S \cup T) = N(S) + N(T)
  <2>1. /\ SaidOf(j, exclude, S \cup T) = SaidOf(j, exclude, S) \cup SaidOf(j, exclude, T)
        /\ SaidOf(j, exclude, S) \cap SaidOf(j, exclude, T) = {}
    BY <1>4 DEF SaidOf
  <2>2. Cardinality(SaidOf(j, exclude, S) \cup SaidOf(j, exclude, T))
          = N(S) + N(T) - Cardinality(SaidOf(j, exclude, S) \cap SaidOf(j, exclude, T))
    BY <1>1, FS_Union
  <2>3. Cardinality(SaidOf(j, exclude, S) \cap SaidOf(j, exclude, T)) = 0
    BY <2>1, FS_EmptySet
  <2>4. N(S) \in Nat /\ N(T) \in Nat
    BY <1>1
  <2> HIDE DEF N
  <2>5. Cardinality(SaidOf(j, exclude, S) \cup SaidOf(j, exclude, T)) = N(S) + N(T)
    BY <2>2, <2>3, <2>4
  <2> QED
    BY <2>1, <2>5, Zenon DEF N
<1>5. N({"a"} \cup {"b"}) = N({"a"}) + N({"b"})
  <2>1. {"a"} \cap {"b"} = {}
    OBVIOUS
  <2> QED
    BY <1>4, <2>1
<1>6. N({"a", "b"} \cup {"tie"}) = N({"a", "b"}) + N({"tie"})
  <2>1. {"a", "b"} \cap {"tie"} = {}
    OBVIOUS
  <2> QED
    BY <1>4, <2>1
<1>7. N({"a", "b", "tie"}) = N({"a"}) + N({"b"}) + N({"tie"})
  <2>1. {"a", "b"} = {"a"} \cup {"b"} /\ {"a", "b", "tie"} = {"a", "b"} \cup {"tie"}
    OBVIOUS
  <2> HIDE DEF N
  <2> QED
    BY <1>5, <1>6, <2>1, Zenon
<1>8. {"a", "b", "tie"} \subseteq Panel!Verdicts
  BY DEF Panel!Verdicts
<1>9. Panel!ScoredPresentations(counts) = N({"a", "b", "tie"})
  <2>1. counts["a"] = N({"a"}) /\ counts["b"] = N({"b"}) /\ counts["tie"] = N({"tie"})
    BY <1>2, <1>8
  <2>2. Panel!ScoredPresentations(counts) = counts["a"] + counts["b"] + counts["tie"]
    BY DEF Panel!ScoredPresentations
  <2> HIDE DEF N, counts
  <2> QED
    BY <1>7, <2>1, <2>2
<1> HIDE DEF counts
<1> QED
  BY <1>1, <1>2, <1>3, <1>9 DEF counts

LEMMA VerdictsFinite == IsFiniteSet(Panel!Verdicts)
<1>1. IsFiniteSet({"a"}) /\ IsFiniteSet({"b"}) /\ IsFiniteSet({"tie"})
      /\ IsFiniteSet({"unknown"}) /\ IsFiniteSet({"missing"})
  BY FS_Singleton
<1>2. IsFiniteSet((({"a"} \cup {"b"}) \cup {"tie"}) \cup ({"unknown"} \cup {"missing"}))
  BY <1>1, FS_Union
<1>3. Panel!Verdicts = (({"a"} \cup {"b"}) \cup {"tie"}) \cup ({"unknown"} \cup {"missing"})
  BY DEF Panel!Verdicts
<1> QED
  BY <1>2, <1>3, Zenon

(* Every presentation that is shown is counted once. *)
LEMMA ShownCounted ==
    ASSUME Table, NEW j \in Panel!Judges, NEW exclude
    PROVE  Panel!SumFunction(Panel!Counts(records, j, exclude))
             = Panel!Cardinality(Panel!Shown(exclude))
<1> DEFINE counts == Panel!Counts(records, j, exclude)
           With == [v \in Panel!Verdicts |-> SaidOf(j, exclude, {v})]
<1>1. /\ DOMAIN counts = Panel!Verdicts
      /\ \A v \in Panel!Verdicts : counts[v] = Cardinality(With[v]) /\ counts[v] \in Nat
  BY CountIs
<1>2. Family(With, Panel!Verdicts, Panel!Shown(exclude))
  <2>1. \A v \in Panel!Verdicts : IsFiniteSet(With[v])
    BY SaidIs
  <2>2. \A p \in Panel!Shown(exclude) : records[<<p, j>>] \in Panel!Verdicts
    BY SaidIs
  <2>3. \A v \in Panel!Verdicts : \A e :
            e \in With[v] <=> e \in Panel!Shown(exclude) /\ records[<<e, j>>] = v
    BY DEF SaidOf
  <2> HIDE DEF With
  <2>4. \A v, w \in Panel!Verdicts : v # w => With[v] \cap With[w] = {}
    BY <2>3
  <2>5. \A e : e \in Panel!Shown(exclude) <=> \E v \in Panel!Verdicts : e \in With[v]
    BY <2>2, <2>3
  <2> QED
    BY <2>1, <2>4, <2>5, Zenon DEF Family
<1> HIDE DEF counts, With
<1>3. SumOf(counts, Panel!Verdicts) = Cardinality(Panel!Shown(exclude))
  BY <1>1, <1>2, VerdictsFinite, CountOfUnion
<1>4. IsFiniteSet(DOMAIN counts) /\ Weighs(counts, DOMAIN counts)
  BY <1>1, VerdictsFinite DEF Weighs
<1>5. Panel!SumFunction(counts) = SumOf(counts, DOMAIN counts)
  BY <1>4, FunctionIsSummed
<1> QED
  BY <1>1, <1>3, <1>5, PanelOps DEF counts

(* Every scored presentation gives one win or two halves. *)
LEMMA ScoredWeighTwo ==
    ASSUME Table, NEW j \in Panel!Judges, NEW exclude
    PROVE  Panel!Weight(Panel!Comparisons(records, j, exclude))
             = 2 * Panel!ScoredPresentations(Panel!Counts(records, j, exclude))
<1> DEFINE S == Panel!Shown(exclude)
           C == [p \in S |-> Panel!Compared(j, p, records[<<p, j>>])]
           U == Panel!Comparisons(records, j, exclude)
           f == WeightsOf(U)
           Scored1 == SaidOf(j, exclude, {"a", "b", "tie"})
           h == [p \in S |-> IF p \in Scored1 THEN 2 ELSE 0]
<1>1. \A e : e \in U <=> \E p \in S : e \in C[p]
  BY DEF Panel!Comparisons
<1>2. ASSUME NEW p \in S
      PROVE  /\ IsFiniteSet(C[p]) /\ \A c \in C[p] : c.weight \in Nat /\ c.shown = p
             /\ h[p] = SumOf(f, C[p])
  <2> DEFINE v == records[<<p, j>>]
             x == Beats(j, p, p[1], p[2], 1)
             y == Beats(j, p, p[2], p[1], 1)
             w == IF v = "a" THEN Beats(j, p, p[1], p[2], 2) ELSE Beats(j, p, p[2], p[1], 2)
  <2>1. v \in {"a", "b", "tie", "unknown", "missing"} /\ p[1] # p[2]
    BY SaidIs DEF Panel!Verdicts, Panel!Presentations
  <2>2. /\ v \in {"a", "b"} => C[p] = {w}
        /\ v = "tie" => C[p] = {x, y}
        /\ v \in {"unknown", "missing"} => C[p] = {}
    BY ComparedIs
  <2>3. h[p] = IF v \in {"a", "b", "tie"} THEN 2 ELSE 0
    BY DEF SaidOf
  <2>4. /\ x.weight = 1 /\ x.shown = p /\ y.weight = 1 /\ y.shown = p
        /\ w.weight = 2 /\ w.shown = p /\ (p[1] # p[2] => x # y)
    BY DEF Beats
  <2>5. \A c \in C[p] : f[c] = c.weight
    BY <1>1 DEF WeightsOf
  <2> HIDE DEF C, v, x, y, w, f, h, S
  <2>6. CASE v \in {"a", "b"}
    <3>1. f[w] = 2 /\ SumOf(f, {w}) = f[w]
      <4>1. f[w] = 2
        BY <2>2, <2>4, <2>5, <2>6
      <4> QED
        BY <4>1, SumFew
    <3>2. IsFiniteSet({w})
      BY FS_Singleton
    <3> QED
      BY <2>2, <2>3, <2>4, <2>6, <3>1, <3>2
  <2>7. CASE v = "tie"
    <3>1. f[x] = 1 /\ f[y] = 1
      BY <2>2, <2>4, <2>5, <2>7
    <3>2. SumOf(f, {x, y}) = 2
      <4>1. x # y /\ f[x] \in Nat /\ f[y] \in Nat
        BY <2>1, <2>4, <3>1
      <4>2. SumOf(f, {x, y}) = f[x] + f[y]
        BY <4>1, SumFew, Zenon
      <4> QED
        BY <3>1, <4>2
    <3>3. IsFiniteSet({x, y})
      <4>1. {x, y} = {x} \cup {y} /\ IsFiniteSet({x}) /\ IsFiniteSet({y})
        BY FS_Singleton
      <4> QED
        BY <4>1, FS_Union
    <3> QED
      BY <2>2, <2>3, <2>4, <2>7, <3>2, <3>3
  <2>8. CASE v \in {"unknown", "missing"}
    BY <2>2, <2>3, <2>8, SumEmpty, FS_EmptySet
  <2> QED
    BY <2>1, <2>6, <2>7, <2>8
<1>3. IsFiniteSet(S)
  BY PanelFinite
<1>4. \A p \in S : h[p] = IF p \in Scored1 THEN 2 ELSE 0
  OBVIOUS
<1>5. Scored1 \in SUBSET S
  BY DEF SaidOf
<1>6. Panel!ScoredPresentations(Panel!Counts(records, j, exclude)) = Cardinality(Scored1)
  BY CountIs
<1> HIDE DEF C, S, h, f, U, Scored1
<1>7. Family(C, S, U) /\ SumsOver(h, f, C, S)
  <2>1. \A x, y \in S : x # y => C[x] \cap C[y] = {}
    <3> SUFFICES ASSUME NEW x \in S, NEW y \in S, NEW c, c \in C[x], c \in C[y]
                 PROVE  x = y
      OBVIOUS
    <3> QED
      BY <1>2
  <2> QED
    BY <1>1, <1>2, <2>1 DEF Family, SumsOver
<1>8. Comparison(U) /\ Weighs(f, U)
  <2>1. \A c \in U : c.weight \in Nat
    BY <1>1, <1>2
  <2> QED
    BY <2>1 DEF Comparison, Weighs, f, WeightsOf
<1>9. IsFiniteSet(U) /\ SumOf(f, U) = SumOf(h, S)
  BY <1>3, <1>7, <1>8, SumOfUnion
<1>10. Panel!Weight(U) = SumOf(f, U)
  BY <1>8, <1>9, WeightIsSum DEF f
<1>11. SumOf(h, S) = 2 * Cardinality(Scored1)
  BY <1>3, <1>4, <1>5, SumConstant
<1> QED
  BY <1>6, <1>9, <1>10, <1>11 DEF U

-----------------------------------------------------------------------------
(* What a judge said of a pair in both orders. *)
LEMMA OutcomeIs ==
    ASSUME NEW table, NEW j, NEW p
    PROVE  LET v == table[<<p, j>>]
               outcome == Panel!Outcome(table, j, p)
           IN  /\ v = "a" => outcome = [kind |-> "candidate", id |-> p[1], position |-> "a"]
               /\ v = "b" => outcome = [kind |-> "candidate", id |-> p[2], position |-> "b"]
               /\ v = "tie" => outcome = [kind |-> "tie", id |-> None, position |-> "tie"]
BY DEF Panel!Outcome

LEMMA PairIs ==
    ASSUME Table, NEW j \in Panel!Judges, NEW exclude,
           NEW p \in Panel!BothOrders(records, j, exclude)
    PROVE  LET q == Panel!Mirrored(p)
               first == Panel!Outcome(records, j, p)
               second == Panel!Outcome(records, j, q)
               said == <<records[<<p, j>>], records[<<q, j>>]>>
           IN  /\ Panel!Consistent(first, second)
                      <=> said \in {<<"a", "b">>, <<"b", "a">>, <<"tie", "tie">>}
               /\ Panel!PositionBiased(first, second) <=> said \in {<<"a", "a">>, <<"b", "b">>}
<1> DEFINE q == Panel!Mirrored(p)
           first == Panel!Outcome(records, j, p)
           second == Panel!Outcome(records, j, q)
           v == records[<<p, j>>]
           w == records[<<q, j>>]
           row(x, u) == IF u = "a" THEN [kind |-> "candidate", id |-> x[1], position |-> "a"]
                        ELSE IF u = "b" THEN [kind |-> "candidate", id |-> x[2], position |-> "b"]
                        ELSE [kind |-> "tie", id |-> None, position |-> "tie"]
<1>1. /\ v \in {"a", "b", "tie"} /\ w \in {"a", "b", "tie"}
      /\ q[1] = p[2] /\ q[2] = p[1] /\ p[1] # p[2]
  BY DEF Panel!BothOrders, Panel!Shown, Panel!Mirrored, Panel!Presentations
<1>2. first = row(p, v) /\ second = row(q, w)
  BY <1>1, OutcomeIs
<1> HIDE DEF first, second, v, w, q
<1>3. Panel!Consistent(first, second) <=> <<v, w>> \in {<<"a", "b">>, <<"b", "a">>, <<"tie", "tie">>}
  <2>1. Panel!Consistent(first, second)
          <=> (v = "a" /\ w = "b") \/ (v = "b" /\ w = "a") \/ (v = "tie" /\ w = "tie")
    BY <1>1, <1>2 DEF Panel!Consistent
  <2> QED
    BY <2>1
<1>4. Panel!PositionBiased(first, second) <=> <<v, w>> \in {<<"a", "a">>, <<"b", "b">>}
  <2>1. Panel!PositionBiased(first, second) <=> (v = "a" /\ w = "a") \/ (v = "b" /\ w = "b")
    BY <1>1, <1>2 DEF Panel!PositionBiased
  <2> QED
    BY <2>1
<1> QED
  BY <1>3, <1>4 DEF first, second, v, w, q

(* No pair is both consistent and biased. *)
LEMMA PairsApart ==
    ASSUME Table, NEW j \in Panel!Judges, NEW exclude
    PROVE  Panel!PairCount(records, j, exclude, Panel!Consistent)
             + Panel!PairCount(records, j, exclude, Panel!PositionBiased)
               <= Panel!Cardinality(Panel!BothOrders(records, j, exclude))
<1> DEFINE B == Panel!BothOrders(records, j, exclude)
           first(p) == Panel!Outcome(records, j, p)
           second(p) == Panel!Outcome(records, j, Panel!Mirrored(p))
           S == {p \in B : Panel!Consistent(first(p), second(p))}
           T == {p \in B : Panel!PositionBiased(first(p), second(p))}
<1>1. IsFiniteSet(B)
  <2>1. B \subseteq Panel!Shown(exclude)
    BY DEF Panel!BothOrders
  <2> QED
    BY <2>1, PanelFinite, FS_Subset
<1>2. S \cap T = {}
  BY PairIs
<1>3. /\ Panel!PairCount(records, j, exclude, Panel!Consistent) = Panel!Cardinality(S)
      /\ Panel!PairCount(records, j, exclude, Panel!PositionBiased) = Panel!Cardinality(T)
  BY DEF Panel!PairCount
<1>4. S \in SUBSET B /\ T \in SUBSET B
  OBVIOUS
<1> HIDE DEF S, T, B
<1>5. IsFiniteSet(S) /\ IsFiniteSet(T)
  BY <1>1, <1>4, FS_Subset
<1>6. Cardinality(S \cup T) = Cardinality(S) + Cardinality(T) - Cardinality(S \cap T)
  BY <1>5, FS_Union
<1>7. Cardinality(S \cap T) = 0
  BY <1>2, FS_EmptySet
<1>8. Cardinality(S \cup T) <= Cardinality(B)
  <2>1. S \cup T \in SUBSET B
    BY <1>4
  <2> QED
    BY <1>1, <2>1, FS_Subset
<1>9. Cardinality(S) \in Nat /\ Cardinality(T) \in Nat /\ Cardinality(B) \in Nat
  BY <1>1, <1>5, FS_CardinalityType
<1>10. Cardinality(S) + Cardinality(T) <= Cardinality(B)
  BY <1>6, <1>7, <1>8, <1>9
<1> QED
  BY <1>3, <1>10, PanelOps DEF B

-----------------------------------------------------------------------------
LEMMA CountsRight == ASSUME Table, PanelShape PROVE Panel!CountsAddUp
<1> SUFFICES ASSUME NEW j \in Panel!Judges, NEW exclude \in {{}, Panel!Own(j, names)}
             PROVE  LET counts == Panel!Counts(records, j, exclude) IN
                    /\ Panel!SumFunction(counts) = Panel!Cardinality(Panel!Shown(exclude))
                    /\ Panel!Weight(Panel!Comparisons(records, j, exclude))
                         = 2 * Panel!ScoredPresentations(counts)
                    /\ Panel!PairCount(records, j, exclude, Panel!Consistent)
                         + Panel!PairCount(records, j, exclude, Panel!PositionBiased)
                           <= Panel!Cardinality(Panel!BothOrders(records, j, exclude))
  BY DEF Panel!CountsAddUp
<1>1. Panel!SumFunction(Panel!Counts(records, j, exclude)) = Panel!Cardinality(Panel!Shown(exclude))
  BY ShownCounted
<1>2. Panel!Weight(Panel!Comparisons(records, j, exclude))
        = 2 * Panel!ScoredPresentations(Panel!Counts(records, j, exclude))
  BY ScoredWeighTwo
<1>3. Panel!PairCount(records, j, exclude, Panel!Consistent)
        + Panel!PairCount(records, j, exclude, Panel!PositionBiased)
          <= Panel!Cardinality(Panel!BothOrders(records, j, exclude))
  BY PairsApart
<1> QED
  BY <1>1, <1>2, <1>3

(* Counted from the outcomes or from the positions, the pairs are the same. *)
LEMMA PositionsRight == ASSUME Table PROVE Panel!PositionsAreRight
<1> SUFFICES ASSUME NEW j \in Panel!Judges
             PROVE  LET Heard(p) == <<records[<<p, j>>], records[<<Panel!Mirrored(p), j>>]>>
                        Pairs(answers) == Panel!Cardinality(
                            {p \in Panel!Presentations : p[1] < p[2] /\ Heard(p) \in answers})
                    IN  /\ Panel!PairCount(records, j, {}, Panel!Consistent)
                              = Pairs({<<"a", "b">>, <<"b", "a">>, <<"tie", "tie">>})
                        /\ Panel!PairCount(records, j, {}, Panel!PositionBiased)
                              = Pairs({<<"a", "a">>, <<"b", "b">>})
  BY DEF Panel!PositionsAreRight
<1> DEFINE B == Panel!BothOrders(records, j, {})
           Heard(p) == <<records[<<p, j>>], records[<<Panel!Mirrored(p), j>>]>>
           first(p) == Panel!Outcome(records, j, p)
           second(p) == Panel!Outcome(records, j, Panel!Mirrored(p))
           Steady == {<<"a", "b">>, <<"b", "a">>, <<"tie", "tie">>}
           Biased == {<<"a", "a">>, <<"b", "b">>}
           Heards(answers) == {p \in Panel!Presentations : p[1] < p[2] /\ Heard(p) \in answers}
<1>1. \A p \in B : /\ Panel!Consistent(first(p), second(p)) <=> Heard(p) \in Steady
                   /\ Panel!PositionBiased(first(p), second(p)) <=> Heard(p) \in Biased
  BY PairIs
<1>2. \A p : p \in B <=> /\ p \in Panel!Presentations /\ p[1] < p[2]
                         /\ records[<<p, j>>] \in {"a", "b", "tie"}
                         /\ records[<<Panel!Mirrored(p), j>>] \in {"a", "b", "tie"}
  <2>1. Panel!Shown({}) = Panel!Presentations
    BY DEF Panel!Shown
  <2> QED
    BY <2>1 DEF Panel!BothOrders
<1>3. \A p : Heard(p) \in Steady \cup Biased =>
               /\ records[<<p, j>>] \in {"a", "b", "tie"}
               /\ records[<<Panel!Mirrored(p), j>>] \in {"a", "b", "tie"}
  OBVIOUS
<1>4. /\ Panel!PairCount(records, j, {}, Panel!Consistent)
            = Panel!Cardinality({p \in B : Panel!Consistent(first(p), second(p))})
      /\ Panel!PairCount(records, j, {}, Panel!PositionBiased)
            = Panel!Cardinality({p \in B : Panel!PositionBiased(first(p), second(p))})
  BY DEF Panel!PairCount
<1> HIDE DEF B, Heard, first, second, Steady, Biased
<1>5. {p \in B : Panel!Consistent(first(p), second(p))} = Heards(Steady)
  BY <1>1, <1>2, <1>3
<1>6. {p \in B : Panel!PositionBiased(first(p), second(p))} = Heards(Biased)
  BY <1>1, <1>2, <1>3
<1>7. /\ Panel!PairCount(records, j, {}, Panel!Consistent) = Panel!Cardinality(Heards(Steady))
      /\ Panel!PairCount(records, j, {}, Panel!PositionBiased) = Panel!Cardinality(Heards(Biased))
  BY <1>4, <1>5, <1>6, Zenon
<1> QED
  BY <1>7 DEF Heard, Steady, Biased

(* Two judges are compared on what both have scored. *)
LEMMA AgreementRight == ASSUME Table PROVE Panel!AgreementOverScored
<1> SUFFICES ASSUME NEW j \in Panel!Judges, NEW k \in Panel!Judges
             PROVE  /\ Panel!Cardinality(Panel!ComparedBy(records, j, k))
                          <= Panel!ScoredPresentations(Panel!Counts(records, j, {}))
                    /\ Panel!ComparedBy(records, j, k) = Panel!ComparedBy(records, k, j)
                    /\ Panel!AgreedBy(records, j, j) = Panel!ComparedBy(records, j, j)
  BY DEF Panel!AgreementOverScored
<1>1. Panel!ComparedBy(records, j, k) = Panel!ComparedBy(records, k, j)
  BY DEF Panel!ComparedBy, Panel!Compares
<1>2. Panel!AgreedBy(records, j, j) = Panel!ComparedBy(records, j, j)
  BY DEF Panel!AgreedBy
<1>3. Panel!ComparedBy(records, j, k) \in SUBSET SaidOf(j, {}, {"a", "b", "tie"})
  <2>1. Panel!Shown({}) = Panel!Presentations
    BY DEF Panel!Shown
  <2> QED
    BY <2>1 DEF Panel!ComparedBy, Panel!Compares, SaidOf
<1>4. Cardinality(Panel!ComparedBy(records, j, k)) <= Cardinality(SaidOf(j, {}, {"a", "b", "tie"}))
  <2>1. IsFiniteSet(SaidOf(j, {}, {"a", "b", "tie"}))
    BY SaidIs
  <2> QED
    BY <1>3, <2>1, FS_Subset
<1>5. Panel!ScoredPresentations(Panel!Counts(records, j, {}))
        = Cardinality(SaidOf(j, {}, {"a", "b", "tie"}))
  BY CountIs
<1> QED
  BY <1>1, <1>2, <1>4, <1>5, PanelOps

-----------------------------------------------------------------------------
(* A stable sort gives every candidate a rank of its own. *)
RanksOf(ids, value) == [c \in ids |-> Panel!Rank(ids, value, c)]

LEMMA RanksNumber ==
    ASSUME NEW ids, IsFiniteSet(ids), ids \subseteq Int,
           NEW value, \A c \in ids : value[c] \in Int
    PROVE  Numbering(RanksOf(ids, value), ids)
<1> DEFINE n == Cardinality(ids)
           Before(c) == {d \in ids : value[c] < value[d] \/ (value[c] = value[d] /\ d < c)}
           rank == RanksOf(ids, value)
<1>1. n \in Nat
  BY FS_CardinalityType
<1>2. \A c \in ids : rank[c] = 1 + Cardinality(Before(c))
  <2>1. \A c \in ids : Panel!Rank(ids, value, c) = 1 + Panel!Cardinality(Before(c))
    BY DEF Panel!Rank
  <2> QED
    BY <2>1, PanelOps DEF RanksOf
<1>3. \A c \in ids : c \notin Before(c) /\ Before(c) \in SUBSET ids
  OBVIOUS
<1>4. \A c, d \in ids : c # d => c \in Before(d) \/ d \in Before(c)
  OBVIOUS
<1>5. ASSUME NEW c \in ids, NEW d \in ids, c \in Before(d)
      PROVE  Before(c) \in SUBSET Before(d)
  <2> SUFFICES ASSUME NEW e \in Before(c) PROVE e \in Before(d)
    OBVIOUS
  <2>1. /\ e \in ids /\ c \in Int /\ d \in Int /\ e \in Int
        /\ value[c] \in Int /\ value[d] \in Int /\ value[e] \in Int
    OBVIOUS
  <2>2. /\ value[c] < value[e] \/ (value[c] = value[e] /\ e < c)
        /\ value[d] < value[c] \/ (value[d] = value[c] /\ c < d)
    BY <1>5
  <2>3. value[d] < value[e] \/ (value[d] = value[e] /\ e < d)
    BY <2>1, <2>2
  <2> QED
    BY <2>1, <2>3
<1> HIDE DEF Before, rank
<1>6. ASSUME NEW c \in ids
      PROVE  IsFiniteSet(Before(c)) /\ Cardinality(Before(c)) \in Nat /\ rank[c] \in 1..n
  <2>1. IsFiniteSet(Before(c)) /\ Cardinality(Before(c)) <= n /\ (n = Cardinality(Before(c)) => ids = Before(c))
    BY <1>3, FS_Subset
  <2>2. Cardinality(Before(c)) \in Nat
    BY <2>1, FS_CardinalityType
  <2>3. Cardinality(Before(c)) # n
    BY <1>3, <2>1
  <2> HIDE DEF n
  <2> QED
    BY <1>1, <1>2, <2>1, <2>2, <2>3
<1>7. ASSUME NEW c \in ids, NEW d \in ids, c \in Before(d)
      PROVE  rank[c] # rank[d]
  <2>1. Before(c) \in SUBSET Before(d) /\ Before(c) # Before(d)
    BY <1>3, <1>5, <1>7
  <2>2. Cardinality(Before(c)) # Cardinality(Before(d))
    BY <1>6, <2>1, FS_Subset
  <2> QED
    BY <1>2, <1>6, <2>2
<1>8. \A c, d \in ids : rank[c] = rank[d] => c = d
  BY <1>4, <1>7
<1> QED
  BY <1>6, <1>8 DEF Numbering, rank

(* The sum of the squared distances of two rankings. *)
DistancesOf(ids, v, w) ==
    [c \in ids |-> (RanksOf(ids, v)[c] - RanksOf(ids, w)[c])
                     * (RanksOf(ids, v)[c] - RanksOf(ids, w)[c])]

LEMMA SpearmanIs ==
    ASSUME NEW ids, IsFiniteSet(ids), ids \subseteq Int,
           NEW v, \A c \in ids : v[c] \in Int, NEW w, \A c \in ids : w[c] \in Int
    PROVE  Panel!Spearman(ids, v, w)
             = Panel!Size(ids) - 6 * SumOf(DistancesOf(ids, v, w), ids)
<1> DEFINE f == DistancesOf(ids, v, w)
           D(c) == Panel!Rank(ids, v, c) - Panel!Rank(ids, w, c)
           Pick(s) == CHOOSE c \in s : TRUE
           Unfolded(t) == [s \in SUBSET ids |->
               IF s = {} THEN 0 ELSE (D(Pick(s)) * D(Pick(s))) + t[s \ {Pick(s)}]]
           t == CHOOSE iter : iter = Unfolded(iter)
<1>1. Panel!Spearman(ids, v, w) = Panel!Size(ids) - 6 * t[ids]
  BY DEF Panel!Spearman, Panel!MapThenSumSet, Panel!MapThenFoldSet
<1>2. \A c \in ids : f[c] = D(c) * D(c)
  BY DEF DistancesOf, RanksOf
<1>3. Weighs(f, ids)
  <2>1. \A c \in ids : D(c) \in Int
    <3>1. Numbering(RanksOf(ids, v), ids) /\ Numbering(RanksOf(ids, w), ids)
      BY RanksNumber
    <3>2. \A c \in ids : /\ RanksOf(ids, v)[c] = Panel!Rank(ids, v, c)
                         /\ RanksOf(ids, w)[c] = Panel!Rank(ids, w, c)
      BY DEF RanksOf
    <3>3. \A c \in ids : Panel!Rank(ids, v, c) \in Int /\ Panel!Rank(ids, w, c) \in Int
      BY <3>1, <3>2, FS_CardinalityType DEF Numbering
    <3> QED
      BY <3>3
  <2>2. \A i \in Int : i * i \in Nat
    OBVIOUS
  <2> HIDE DEF D, f
  <2> QED
    BY <1>2, <2>1, <2>2 DEF Weighs
<1> HIDE DEF D, f
<1>4. PICK g : Additive(g, f, ids)
  BY <1>3, AdditiveExists
<1>5. ASSUME NEW s \in SUBSET ids, s # {}
      PROVE  Pick(s) \in s /\ Pick(s) \in ids
  BY <1>5
<1>6. g = Unfolded(g)
  <2> DEFINE e == Unfolded(g)
  <2>1. \A s \in SUBSET ids : e[s] = g[s]
    BY <1>2, <1>4, <1>5 DEF Additive
  <2>2. DOMAIN e = SUBSET ids /\ e = [s \in SUBSET ids |-> e[s]]
    OBVIOUS
  <2>3. g = [s \in SUBSET ids |-> g[s]]
    BY <1>4 DEF Additive
  <2> HIDE DEF e
  <2>4. g = e
    BY <2>1, <2>2, <2>3
  <2> QED
    BY <2>4 DEF e
<1>7. t = Unfolded(t)
  <2> HIDE DEF Unfolded
  <2> QED
    BY <1>6
<1>8. Tallies(t, f, ids)
  <2> HIDE DEF t
  <2> QED
    BY <1>2, <1>5, <1>7 DEF Tallies
<1>9. t[ids] = SumOf(f, ids)
  <2> HIDE DEF t
  <2> QED
    BY <1>3, <1>8, SumComputed
<1> QED
  BY <1>1, <1>9 DEF f

(* The mean of the known answers of a candidate. *)
LEMMA MeansAreNumbers ==
    ASSUME PanelShape, NEW c \in Panel!Ranked(scores)
    PROVE  Panel!Mean(scores)[c] \in Int
<1> DEFINE answers == scores[c]
           known == Panel!Known(answers)
           wanted == Panel!Range(answers) \ {None}
<1>1. c \in Candidates /\ known # <<>> /\ answers \in Seq((0..3) \cup {None})
  BY DEF Panel!Ranked, PanelShape
<1>2. known = Only(answers, wanted)
  BY PanelOps DEF Panel!Known
<1>3. wanted \subseteq 0..3
  BY <1>1 DEF Panel!Range
<1>4. Panel!Mean(scores)[c] = (2000 * Panel!SumFunction(known) + Len(known)) \div (2 * Len(known))
  BY DEF Panel!Mean
<1> HIDE DEF answers, known, wanted
<1>5. known \in Seq((0..3) \cup {None}) /\ \E at : Picks(at, known, answers, wanted, Len(answers))
  BY <1>1, <1>2, OnlyPicks
<1>6. DOMAIN known = 1..Len(known) /\ Len(known) \in Nat /\ Len(known) > 0
  BY <1>1, <1>5
<1>7. \A k \in 1..Len(known) : known[k] \in Nat
  <2>1. PICK at : Picks(at, known, answers, wanted, Len(answers))
    BY <1>5
  <2>2. \A k \in 1..Len(known) : known[k] \in wanted
    BY <2>1 DEF Picks
  <2>3. \A i \in 0..3 : i \in Nat
    OBVIOUS
  <2>4. \A i \in wanted : i \in Nat
    BY <1>3, <2>3, Zenon
  <2> QED
    BY <2>2, <2>4, Zenon
<1>8. IsFiniteSet(DOMAIN known) /\ Weighs(known, DOMAIN known)
  <2>1. IsFiniteSet(1..Len(known))
    BY <1>6, FS_Interval
  <2>2. IsFiniteSet(DOMAIN known)
    BY <1>6, <2>1, Zenon
  <2>3. \A k \in DOMAIN known : known[k] \in Nat
    BY <1>6, <1>7, Zenon
  <2> QED
    BY <2>2, <2>3 DEF Weighs
<1>9. Panel!SumFunction(known) \in Nat
  BY <1>8, FunctionIsSummed, SumType
<1>10. \A i, k \in Nat : k > 0 => (2000 * i + k) \div (2 * k) \in Int
  OBVIOUS
<1> QED
  BY <1>4, <1>6, <1>9, <1>10

LEMMA SpearmanRight == ASSUME PanelShape PROVE Panel!SpearmanIsCorrelation
<1> DEFINE ids == Panel!Ranked(scores)
           v == Panel!Mean(scores)
           w == strength
           n == Panel!Cardinality(ids)
           Cen(u, c) == 2 * Panel!Rank(ids, u, c) - n - 1
           Pick(s) == CHOOSE c \in s : TRUE
           Unfolded(t) == [s \in SUBSET ids |->
               IF s = {} THEN 0 ELSE (Cen(v, Pick(s)) * Cen(w, Pick(s))) + t[s \ {Pick(s)}]]
           t == CHOOSE iter : iter = Unfolded(iter)
           f == [c \in ids |-> Cen(v, c) * Cen(w, c)]
<1>1. SUFFICES Panel!Spearman(ids, v, w) = 3 * t[ids]
  BY DEF Panel!SpearmanIsCorrelation, Panel!MapThenSumSet, Panel!MapThenFoldSet
<1>2. IsFiniteSet(ids) /\ ids \subseteq Int
  <2>1. ids \in SUBSET Candidates
    BY DEF Panel!Ranked
  <2> QED
    BY <2>1, PanelsAssumption, FS_Subset
<1>3. (\A c \in ids : v[c] \in Int) /\ (\A c \in ids : w[c] \in Int)
  <2>1. \A c \in ids : w[c] \in Int
    BY DEF PanelShape, Panel!Ranked
  <2> QED
    BY <2>1, MeansAreNumbers
<1>4. n = Cardinality(ids)
  BY PanelOps
<1> HIDE DEF ids, v, w, n
<1>5. Numbering(RanksOf(ids, v), ids) /\ Numbering(RanksOf(ids, w), ids)
  BY <1>2, <1>3, RanksNumber
<1>6. \A c \in ids : /\ f[c] = Cen(v, c) * Cen(w, c)
                     /\ RanksOf(ids, v)[c] = Panel!Rank(ids, v, c)
                     /\ RanksOf(ids, w)[c] = Panel!Rank(ids, w, c)
  BY DEF RanksOf
<1>7. \A c \in ids : f[c] = (2 * RanksOf(ids, v)[c] - Cardinality(ids) - 1)
                               * (2 * RanksOf(ids, w)[c] - Cardinality(ids) - 1)
  BY <1>4, <1>6
<1> HIDE DEF Cen, f
<1>8. t = Unfolded(t)
  <2>1. \A c \in ids : f[c] \in Int
    <3>1. \A c \in ids : RanksOf(ids, v)[c] \in Int /\ RanksOf(ids, w)[c] \in Int
      BY <1>2, <1>5, FS_CardinalityType DEF Numbering
    <3>2. Cardinality(ids) \in Nat
      BY <1>2, FS_CardinalityType
    <3>3. \A i, k \in Int : \A m \in Nat : (2 * i - m - 1) * (2 * k - m - 1) \in Int
      OBVIOUS
    <3> QED
      BY <1>7, <3>1, <3>2, <3>3
  <2>2. PICK g : Grows([s \in SUBSET ids |-> g[s]], f, ids)
    BY <1>2, <2>1, GrowsExists
  <2> DEFINE h == [s \in SUBSET ids |-> g[s]]
             e == Unfolded(h)
  <2>3. /\ h[{}] = 0 /\ DOMAIN h = SUBSET ids /\ h = [s \in SUBSET ids |-> h[s]]
        /\ \A s \in SUBSET ids : \A c \in s : h[s] = f[c] + h[s \ {c}]
    BY <2>2 DEF Grows
  <2> HIDE DEF h
  <2>4. \A s \in SUBSET ids : s # {} => Pick(s) \in s /\ Pick(s) \in ids
    OBVIOUS
  <2>5. \A s \in SUBSET ids : e[s] = h[s]
    BY <1>6, <2>3, <2>4
  <2>6. e = [s \in SUBSET ids |-> e[s]]
    OBVIOUS
  <2> HIDE DEF e
  <2>7. h = e
    BY <2>3, <2>5, <2>6
  <2>8. h = Unfolded(h)
    BY <2>7 DEF e
  <2> HIDE DEF Unfolded
  <2> QED
    BY <2>8
<1>9. Tallies(t, f, ids)
  <2>1. ASSUME NEW s \in SUBSET ids, s # {}
        PROVE  Pick(s) \in s /\ Pick(s) \in ids
    BY <2>1
  <2> HIDE DEF t
  <2> QED
    BY <1>6, <1>8, <2>1 DEF Tallies
<1>10. \A c \in ids : DistancesOf(ids, v, w)[c]
                          = (RanksOf(ids, v)[c] - RanksOf(ids, w)[c])
                              * (RanksOf(ids, v)[c] - RanksOf(ids, w)[c])
  BY DEF DistancesOf
<1>14. Products(f, RanksOf(ids, v), RanksOf(ids, w), ids)
  BY <1>7 DEF Products
<1>15. SquaredDistances(DistancesOf(ids, v, w), RanksOf(ids, v), RanksOf(ids, w), ids)
  BY <1>10 DEF SquaredDistances
<1> HIDE DEF t
<1>11. Cardinality(ids) * (Cardinality(ids) * Cardinality(ids) - 1)
         - 6 * SumOf(DistancesOf(ids, v, w), ids) = 3 * t[ids]
  BY <1>2, <1>5, <1>9, <1>14, <1>15, NumberingsCompared
<1>12. Panel!Spearman(ids, v, w) = Panel!Size(ids) - 6 * SumOf(DistancesOf(ids, v, w), ids)
  BY <1>2, <1>3, SpearmanIs
<1>13. Panel!Size(ids) = Cardinality(ids) * (Cardinality(ids) * Cardinality(ids) - 1)
  BY PanelOps DEF Panel!Size
<1> QED
  BY <1>11, <1>12, <1>13

-----------------------------------------------------------------------------
(* A judge never moves the rank of a draft of its own family: whatever it      *)
(* said of the presentations that show one, the consensus is the same; and     *)
(* what a model gets over several panels is a count over the verdicts of the   *)
(* judges outside both families (_blind, _consensus, build_combined and _wins  *)
(* of judge/report.py), for any panel, any custody and any verdicts.          *)
THEOREM ConsensusStaysBlind == PartsSpec => []ConsensusIsBlind
<1> DEFINE I == subject = "report" => PanelShape
<1>1. PartsInit => I
  BY PanelMade DEF PartsInit
<1>2. I /\ [PartsNext]_partsVars => I'
  <2> SUFFICES ASSUME I, [PartsNext]_partsVars, subject' = "report" PROVE PanelShape'
    OBVIOUS
  <2>1. PanelShape /\ UNCHANGED reportVars
    BY InputsRest DEF inputs
  <2> QED
    BY <2>1 DEF PanelShape, reportVars
<1>3. I => ConsensusIsBlind
  BY BlindToFamily, CombinedCounted DEF ConsensusIsBlind
<1> HIDE DEF I
<1> QED
  BY <1>1, <1>2, <1>3, PTL DEF PartsSpec

(* The figures about a judge are what they are said to be, for any panel, any  *)
(* verdicts, any pointwise answers and any strengths: every presentation is    *)
(* counted once and a scored one weighs two (_tally), position bias is told    *)
(* from consistency as the answers tell it, the agreement of two judges is     *)
(* over what both scored (_agreement), and spearman's closed formula is the    *)
(* correlation of the two rankings.                                          *)
THEOREM JudgeFiguresStayRight == PartsSpec => []JudgeFiguresRight
<1> DEFINE I == subject = "report" => PanelShape
<1>1. PartsInit => I
  BY PanelMade DEF PartsInit
<1>2. I /\ [PartsNext]_partsVars => I'
  <2> SUFFICES ASSUME I, [PartsNext]_partsVars, subject' = "report" PROVE PanelShape'
    OBVIOUS
  <2>1. PanelShape /\ UNCHANGED reportVars
    BY InputsRest DEF inputs
  <2> QED
    BY <2>1 DEF PanelShape, reportVars
<1>3. PanelShape => Table
  BY DEF PanelShape, Table
<1>4. I => JudgeFiguresRight
  BY <1>3, CountsRight, PositionsRight, AgreementRight, SpearmanRight DEF JudgeFiguresRight
<1> HIDE DEF I
<1> QED
  BY <1>1, <1>2, <1>4, PTL DEF PartsSpec

-----------------------------------------------------------------------------
(* Decimal digits: a number below the k-th power of the base has at most k of  *)
(* them, and a precision of k leaves it alone.                               *)
Powers(f, n) == f = [i \in 0..n |-> IF i = 0 THEN 1 ELSE Base * f[i - 1]]

LEMMA PowersExist ==
    ASSUME NEW n \in Nat
    PROVE  \E f : Powers(f, n)
<1> DEFINE X == {k \in 0..n : \E f : Powers(f, k)}
<1>1. 0 \in X
  <2> DEFINE f == [i \in 0..0 |-> 1]
  <2>1. Powers(f, 0)
    BY DEF Powers
  <2> QED
    BY <2>1
<1>2. ASSUME NEW k \in 0..(n - 1), k \in X
      PROVE  k + 1 \in X
  <2>1. PICK f : Powers(f, k)
    BY <1>2
  <2> DEFINE g == [i \in 0..(k + 1) |-> IF i = k + 1 THEN Base * f[k] ELSE f[i]]
  <2>2. \A i \in 0..k : f[i] = IF i = 0 THEN 1 ELSE Base * f[i - 1]
    BY <2>1 DEF Powers
  <2>3. \A i \in 0..k : g[i] = f[i]
    OBVIOUS
  <2>4. ASSUME NEW i \in 0..(k + 1)
        PROVE  g[i] = IF i = 0 THEN 1 ELSE Base * g[i - 1]
    <3>1. CASE i = k + 1
      <4>1. i # 0 /\ i - 1 = k /\ g[k] = f[k]
        BY <2>3, <3>1
      <4> QED
        BY <3>1, <4>1
    <3>2. CASE i = 0
      BY <2>2, <2>3, <3>2
    <3>3. CASE i \in 1..k
      <4>1. g[i] = f[i] /\ g[i - 1] = f[i - 1] /\ i # 0 /\ i \in 0..k
        BY <2>3, <3>3
      <4> HIDE DEF g
      <4> QED
        BY <2>2, <4>1
    <3> QED
      BY <3>1, <3>2, <3>3
  <2>5. Powers(g, k + 1)
    <3>1. g = [i \in 0..(k + 1) |-> g[i]]
      OBVIOUS
    <3> HIDE DEF g
    <3> QED
      BY <2>4, <3>1 DEF Powers
  <2> QED
    BY <2>5
<1>3. 0..n \subseteq X
  <2> HIDE DEF X
  <2> QED
    BY <1>1, <1>2, UpTo
<1> QED
  BY <1>3

LEMMA PowersAgree ==
    ASSUME NEW m \in Nat, NEW n \in Nat, NEW f, NEW g, Powers(f, m), Powers(g, n),
           m <= n
    PROVE  f[m] = g[m]
<1> DEFINE X == {k \in 0..m : f[k] = g[k]}
<1>1. /\ \A i \in 0..m : f[i] = IF i = 0 THEN 1 ELSE Base * f[i - 1]
      /\ \A i \in 0..n : g[i] = IF i = 0 THEN 1 ELSE Base * g[i - 1]
  BY DEF Powers
<1>2. 0 \in X
  BY <1>1
<1>3. ASSUME NEW k \in 0..(m - 1), k \in X
      PROVE  k + 1 \in X
  <2>1. k + 1 \in 0..m /\ k + 1 \in 0..n /\ k + 1 # 0 /\ (k + 1) - 1 = k
    OBVIOUS
  <2> QED
    BY <1>1, <1>3, <2>1
<1>4. 0..m \subseteq X
  <2> HIDE DEF X
  <2> QED
    BY <1>2, <1>3, UpTo
<1> QED
  BY <1>4

LEMMA PowerIs ==
    ASSUME NEW n \in Nat
    PROVE  \E f : Powers(f, n) /\ Budget!Power(n) = f[n]
<1> DEFINE f == CHOOSE f : Powers(f, n)
<1>1. Powers(f, n)
  BY PowersExist
<1>2. Budget!Power(n) = f[n]
  BY DEF Budget!Power, Powers
<1> QED
  BY <1>1, <1>2

LEMMA PowerStep ==
    /\ Budget!Power(0) = 1
    /\ \A n \in Nat : Budget!Power(n + 1) = Base * Budget!Power(n)
<1>1. ASSUME NEW n \in Nat
      PROVE  Budget!Power(n + 1) = Base * Budget!Power(n)
  <2>1. PICK f : Powers(f, n) /\ Budget!Power(n) = f[n]
    BY PowerIs
  <2>2. PICK g : Powers(g, n + 1) /\ Budget!Power(n + 1) = g[n + 1]
    BY PowerIs
  <2>3. f[n] = g[n]
    BY <2>1, <2>2, PowersAgree
  <2>4. g[n + 1] = Base * g[n]
    BY <2>2 DEF Powers
  <2> QED
    BY <2>1, <2>2, <2>3, <2>4
<1>2. Budget!Power(0) = 1
  <2>1. PICK f : Powers(f, 0) /\ Budget!Power(0) = f[0]
    BY PowerIs
  <2> QED
    BY <2>1 DEF Powers
<1> QED
  BY <1>1, <1>2

LEMMA PowerPositive ==
    ASSUME NEW n \in Nat
    PROVE  Budget!Power(n) \in Nat /\ Budget!Power(n) >= 1
<1> DEFINE X == {k \in 0..n : Budget!Power(k) \in Nat /\ Budget!Power(k) >= 1}
<1>1. 0 \in X
  BY PowerStep
<1>2. ASSUME NEW k \in 0..(n - 1), k \in X
      PROVE  k + 1 \in X
  <2>1. PICK b \in Nat, p \in Nat : b = Base /\ b >= 10 /\ p = Budget!Power(k) /\ p >= 1
    BY <1>2, PoliciesAssumption
  <2>2. b * p \in Nat /\ b * p >= 1
    BY <2>1
  <2>3. Budget!Power(k + 1) = b * p
    BY <2>1, PowerStep
  <2> QED
    BY <2>2, <2>3
<1>3. 0..n \subseteq X
  <2> HIDE DEF X
  <2> QED
    BY <1>1, <1>2, UpTo
<1> QED
  BY <1>3

LEMMA PowerSum ==
    ASSUME NEW m \in Nat, NEW n \in Nat
    PROVE  Budget!Power(m + n) = Budget!Power(m) * Budget!Power(n)
<1> DEFINE X == {k \in 0..n : Budget!Power(m + k) = Budget!Power(m) * Budget!Power(k)}
<1>1. 0 \in X
  BY PowerStep, PowerPositive
<1>2. ASSUME NEW k \in 0..(n - 1), k \in X
      PROVE  k + 1 \in X
  <2>1. PICK b \in Nat, p \in Nat, q \in Nat :
            b = Base /\ p = Budget!Power(k) /\ q = Budget!Power(m)
    BY PowerPositive, PoliciesAssumption
  <2>2. Budget!Power(m + (k + 1)) = b * (q * p)
    <3>1. m + (k + 1) = (m + k) + 1 /\ m + k \in Nat
      OBVIOUS
    <3> QED
      BY <1>2, <2>1, <3>1, PowerStep
  <2>3. Budget!Power(k + 1) = b * p
    BY <2>1, PowerStep
  <2>4. b * (q * p) = q * (b * p)
    OBVIOUS
  <2> QED
    BY <2>1, <2>2, <2>3, <2>4
<1>3. 0..n \subseteq X
  <2> HIDE DEF X
  <2> QED
    BY <1>1, <1>2, UpTo
<1> QED
  BY <1>3

LEMMA PowerGrows ==
    ASSUME NEW m \in Nat, NEW n \in Nat, m <= n
    PROVE  Budget!Power(m) <= Budget!Power(n)
<1>1. PICK d \in Nat : n = m + d
  <2>1. n - m \in Nat /\ n = m + (n - m)
    OBVIOUS
  <2> QED
    BY <2>1
<1>2. PICK p \in Nat, q \in Nat : p = Budget!Power(m) /\ q = Budget!Power(d) /\ q >= 1
  BY PowerPositive
<1>3. p <= p * q
  <2>1. PICK r \in Nat : q = r + 1
    <3>1. q - 1 \in Nat /\ q = (q - 1) + 1
      BY <1>2
    <3> QED
      BY <3>1
  <2>2. p * q = p * r + p /\ p * r \in Nat
    BY <2>1
  <2> QED
    BY <2>2
<1> QED
  BY <1>1, <1>2, <1>3, PowerSum

(* A number is below the power of as many digits as it has, and not below the  *)
(* one before.                                                               *)
HasDigits(n, d) ==
    /\ d \in Nat /\ d >= 1 /\ n < Budget!Power(d)
    /\ d = 1 \/ Budget!Power(d - 1) <= n

LEMMA DigitsExist ==
    ASSUME NEW n \in Nat
    PROVE  \E d \in 1..(n + 1) : HasDigits(n, d)
<1> DEFINE X == {m \in 0..n : \E d \in 1..(m + 1) : HasDigits(m, d)}
<1>0. Base \in Nat /\ Base >= 10 /\ Budget!Power(1) = Base
  <2>1. Budget!Power(0 + 1) = Base * Budget!Power(0) /\ Budget!Power(0) = 1
    BY PowerStep
  <2> QED
    BY <2>1, PoliciesAssumption
<1>1. 0 \in X
  <2>1. HasDigits(0, 1)
    BY <1>0 DEF HasDigits
  <2> QED
    BY <2>1
<1>2. ASSUME NEW m \in 0..(n - 1), m \in X
      PROVE  m + 1 \in X
  <2>1. PICK d \in 1..(m + 1) : HasDigits(m, d)
    BY <1>2
  <2>2. d \in Nat /\ Budget!Power(d) \in Nat /\ m < Budget!Power(d)
    BY <2>1, PowerPositive DEF HasDigits
  <2>3. CASE m + 1 < Budget!Power(d)
    <3>1. d = 1 \/ Budget!Power(d - 1) <= m
      BY <2>1 DEF HasDigits
    <3>2. d = 1 \/ (Budget!Power(d - 1) \in Nat /\ Budget!Power(d - 1) <= m + 1)
      <4>1. CASE d # 1
        <5>1. d - 1 \in Nat
          BY <2>1
        <5>2. Budget!Power(d - 1) \in Nat
          BY <5>1, PowerPositive
        <5> QED
          BY <3>1, <4>1, <5>2
      <4> QED
        BY <4>1
    <3>3. HasDigits(m + 1, d)
      BY <2>1, <2>2, <2>3, <3>2 DEF HasDigits
    <3> QED
      BY <2>1, <3>3
  <2>4. CASE ~(m + 1 < Budget!Power(d))
    <3>1. Budget!Power(d) = m + 1
      BY <2>2, <2>4
    <3>2. Budget!Power(d + 1) = Base * (m + 1)
      BY <2>2, <3>1, PowerStep
    <3>3. m + 1 < Base * (m + 1)
      <4>1. PICK b \in Nat : Base = b + 2
        <5>1. Base - 2 \in Nat /\ Base = (Base - 2) + 2
          BY <1>0
        <5> QED
          BY <5>1
      <4>2. Base * (m + 1) = b * (m + 1) + 2 * (m + 1) /\ b * (m + 1) \in Nat
        BY <4>1
      <4> QED
        BY <4>2
    <3>4. (d + 1) - 1 = d /\ d + 1 \in 1..((m + 1) + 1) /\ d + 1 >= 1 /\ d + 1 \in Nat
      BY <2>1
    <3>5. HasDigits(m + 1, d + 1)
      BY <3>1, <3>2, <3>3, <3>4 DEF HasDigits
    <3> QED
      BY <3>4, <3>5
  <2> QED
    BY <2>3, <2>4
<1>3. 0..n \subseteq X
  <2> HIDE DEF X
  <2> QED
    BY <1>1, <1>2, UpTo
<1> QED
  BY <1>3

LEMMA DivNat ==
    ASSUME NEW n \in Nat, NEW s \in Nat, s >= 1
    PROVE  \E q, r \in Nat : q = n \div s /\ r < s /\ n = q * s + r
<1> DEFINE q == n \div s
<1>1. q \in Nat /\ q * s \in Nat /\ q * s <= n /\ n < q * s + s
  OBVIOUS
<1> HIDE DEF q
<1>2. n - q * s \in Nat /\ n - q * s < s /\ n = q * s + (n - q * s)
  BY <1>1
<1>3. PICK r \in Nat : r < s /\ n = q * s + r
  BY <1>2, Zenon
<1> QED
  BY <1>1, <1>3, Zenon DEF q

(* To have fewer than Base in the place of s is to be below Base times s. *)
LEMMA Leading ==
    ASSUME NEW n \in Nat, NEW s \in Nat, s >= 1, NEW b \in Nat
    PROVE  n \div s < b <=> n < b * s
<1>1. PICK q \in Nat, r \in Nat : q = n \div s /\ r < s /\ n = q * s + r
  BY DivNat, Zenon
<1>3. ASSUME q < b
      PROVE  n < b * s
  <2>1. PICK t \in Nat : b = q + 1 + t
    <3>1. b - (q + 1) \in Nat /\ b = q + 1 + (b - (q + 1))
      BY <1>3
    <3> QED
      BY <3>1
  <2>2. b * s = q * s + s + t * s /\ t * s \in Nat /\ q * s \in Nat
    BY <2>1
  <2> QED
    BY <1>1, <2>2
<1>4. ASSUME ~(q < b)
      PROVE  ~(n < b * s)
  <2>1. PICK t \in Nat : q = b + t
    <3>1. q - b \in Nat /\ q = b + (q - b)
      BY <1>4
    <3> QED
      BY <3>1
  <2>2. q * s = b * s + t * s /\ t * s \in Nat /\ b * s \in Nat
    BY <2>1
  <2> QED
    BY <1>1, <2>2
<1> QED
  BY <1>1, <1>3, <1>4

LEMMA SameDigits ==
    ASSUME NEW n \in Nat, NEW d, NEW e, HasDigits(n, d), HasDigits(n, e)
    PROVE  d = e
<1>1. ASSUME NEW c \in Nat, NEW k \in Nat, HasDigits(n, c), HasDigits(n, k)
      PROVE  ~(c < k)
  <2> SUFFICES ASSUME c < k PROVE FALSE
    OBVIOUS
  <2>1. k - 1 \in Nat /\ c <= k - 1 /\ k # 1
    BY <1>1 DEF HasDigits
  <2>2. Budget!Power(c) <= Budget!Power(k - 1) /\ Budget!Power(k - 1) <= n
    BY <1>1, <2>1, PowerGrows DEF HasDigits
  <2>3. n < Budget!Power(c)
    BY <1>1 DEF HasDigits
  <2> QED
    BY <2>1, <2>2, <2>3, PowerPositive
<1>2. d \in Nat /\ e \in Nat
  BY DEF HasDigits
<1>3. ~(d < e) /\ ~(e < d)
  BY <1>1, <1>2
<1> QED
  BY <1>2, <1>3

LEMMA OneDigit ==
    ASSUME NEW n \in Nat, n < Base
    PROVE  HasDigits(n, 1)
<1>1. Budget!Power(0 + 1) = Base * Budget!Power(0) /\ Budget!Power(0) = 1
  BY PowerStep
<1> QED
  BY <1>1, PoliciesAssumption DEF HasDigits

LEMMA OneMoreDigit ==
    ASSUME NEW n \in Nat, ~(n < Base), NEW d, HasDigits(n \div Base, d)
    PROVE  HasDigits(n, 1 + d)
<1>0. Base \in Nat /\ Base >= 1 /\ d \in Nat /\ d >= 1
  BY PoliciesAssumption DEF HasDigits
<1>1. PICK p \in Nat : p = Budget!Power(d)
  BY <1>0, PowerPositive
<1>2. Budget!Power(1 + d) = Base * p /\ Base * p = p * Base
  <2>1. 1 + d = d + 1
    BY <1>0
  <2> QED
    BY <1>0, <1>1, <2>1, PowerStep
<1>3. n < p * Base
  <2>1. n \div Base < p
    BY <1>1 DEF HasDigits
  <2> QED
    BY <1>0, <2>1, Leading
<1>4. p <= n
  <2>1. CASE d = 1
    <3>1. Budget!Power(0 + 1) = Base * Budget!Power(0) /\ Budget!Power(0) = 1
      BY PowerStep
    <3> QED
      BY <1>0, <1>1, <2>1, <3>1
  <2>2. CASE d # 1
    <3>1. d - 1 \in Nat /\ d = (d - 1) + 1
      BY <1>0
    <3>2. PICK o \in Nat : o = Budget!Power(d - 1)
      BY <3>1, PowerPositive
    <3>3. p = Base * o /\ Base * o = o * Base
      BY <1>0, <1>1, <3>1, <3>2, PowerStep
    <3>4. PICK q \in Nat, r \in Nat : q = n \div Base /\ r < Base /\ n = q * Base + r
      BY <1>0, DivNat, Zenon
    <3>5. ~(q < o)
      BY <2>2, <3>2, <3>4 DEF HasDigits
    <3>6. ~(n < o * Base)
      BY <1>0, <3>2, <3>4, <3>5, Leading
    <3> QED
      BY <1>0, <1>1, <3>2, <3>3, <3>6
  <2> QED
    BY <2>1, <2>2
<1>5. (1 + d) - 1 = d /\ 1 + d \in Nat /\ 1 + d >= 1
  BY <1>0
<1> QED
  BY <1>1, <1>2, <1>3, <1>4, <1>5 DEF HasDigits

(* The recursion of Digits counts them. *)
Counting(f, n) == f = [m \in 0..n |-> IF m < Base THEN 1 ELSE 1 + f[m \div Base]]

LEMMA Shorter ==
    ASSUME NEW n \in Nat, NEW m \in 0..n, ~(m < Base)
    PROVE  m \div Base \in 0..n /\ m \div Base < m
<1>1. Base \in Nat /\ Base >= 10 /\ m \in Nat
  BY PoliciesAssumption
<1>2. PICK q \in Nat, r \in Nat : q = m \div Base /\ r < Base /\ m = q * Base + r
  BY <1>1, DivNat
<1>3. q < m
  <2>1. PICK b \in Nat : Base = b + 2
    <3>1. Base - 2 \in Nat /\ Base = (Base - 2) + 2
      BY <1>1
    <3> QED
      BY <3>1
  <2>2. q * Base = q * b + 2 * q /\ q * b \in Nat
    BY <2>1
  <2> QED
    BY <1>1, <1>2, <2>2
<1> QED
  BY <1>2, <1>3

LEMMA CountingExists ==
    ASSUME NEW n \in Nat
    PROVE  \E f : Counting(f, n)
<1> DEFINE f == [m \in 0..n |-> CHOOSE d : HasDigits(m, d)]
<1>1. \A m \in 0..n : HasDigits(m, f[m])
  <2>1. \A m \in 0..n : \E d : HasDigits(m, d)
    BY DigitsExist
  <2> QED
    BY <2>1
<1>2. ASSUME NEW m \in 0..n
      PROVE  f[m] = IF m < Base THEN 1 ELSE 1 + f[m \div Base]
  <2> HIDE DEF f
  <2>1. CASE m < Base
    BY <1>1, <2>1, OneDigit, SameDigits
  <2>2. CASE ~(m < Base)
    <3>1. m \div Base \in 0..n
      BY <2>2, Shorter
    <3>2. HasDigits(m \div Base, f[m \div Base])
      BY <1>1, <3>1
    <3>3. HasDigits(m, 1 + f[m \div Base])
      BY <2>2, <3>2, OneMoreDigit
    <3> QED
      BY <1>1, <2>2, <3>3, SameDigits
  <2> QED
    BY <2>1, <2>2
<1>3. f = [m \in 0..n |-> f[m]]
  OBVIOUS
<1> HIDE DEF f
<1> QED
  BY <1>2, <1>3 DEF Counting

LEMMA CountingCounts ==
    ASSUME NEW n \in Nat, NEW f, Counting(f, n)
    PROVE  \A m \in 0..n : HasDigits(m, f[m])
<1> DEFINE X == {k \in 0..n : \A m \in 0..k : HasDigits(m, f[m])}
<1>0. \A m \in 0..n : f[m] = IF m < Base THEN 1 ELSE 1 + f[m \div Base]
  BY DEF Counting
<1>1. 0 \in X
  <2>1. 0 < Base
    BY PoliciesAssumption
  <2>2. HasDigits(0, f[0])
    BY <1>0, <2>1, OneDigit
  <2>3. \A m \in 0..0 : m = 0
    OBVIOUS
  <2> QED
    BY <2>2, <2>3
<1>2. ASSUME NEW k \in 0..(n - 1), k \in X
      PROVE  k + 1 \in X
  <2>1. k + 1 \in 0..n /\ k + 1 \in Nat
    OBVIOUS
  <2>2. HasDigits(k + 1, f[k + 1])
    <3>1. CASE k + 1 < Base
      BY <1>0, <2>1, <3>1, OneDigit
    <3>2. CASE ~(k + 1 < Base)
      <4>1. (k + 1) \div Base \in 0..n /\ (k + 1) \div Base < k + 1
        BY <2>1, <3>2, Shorter
      <4>2. (k + 1) \div Base \in 0..k
        BY <4>1
      <4>3. HasDigits((k + 1) \div Base, f[(k + 1) \div Base])
        BY <1>2, <4>2
      <4>4. f[k + 1] = 1 + f[(k + 1) \div Base]
        BY <1>0, <2>1, <3>2
      <4> QED
        BY <2>1, <3>2, <4>3, <4>4, OneMoreDigit
    <3> QED
      BY <3>1, <3>2
  <2>3. \A m \in 0..(k + 1) : m \in 0..k \/ m = k + 1
    OBVIOUS
  <2> QED
    BY <1>2, <2>1, <2>2, <2>3
<1>3. 0..n \subseteq X
  <2> HIDE DEF X
  <2> QED
    BY <1>1, <1>2, UpTo
<1> QED
  BY <1>3

LEMMA DigitsAre ==
    ASSUME NEW n \in Nat
    PROVE  HasDigits(n, Budget!Digits(n))
<1> DEFINE f == CHOOSE f : Counting(f, n)
<1>1. Counting(f, n)
  BY CountingExists
<1>2. Budget!Digits(n) = f[n]
  BY DEF Budget!Digits, Counting
<1> QED
  BY <1>1, <1>2, CountingCounts

(* What a precision has room for is not rounded. *)
LEMMA RoomForAll ==
    ASSUME NEW n \in Nat, NEW prec \in Nat, prec >= 1, n < Budget!Power(prec)
    PROVE  Budget!Rounded(n, prec) = n
<1>1. PICK d \in Nat : d = Budget!Digits(n) /\ HasDigits(n, d)
  BY DigitsAre DEF HasDigits
<1>2. d <= prec
  <2> SUFFICES ASSUME ~(d <= prec) PROVE FALSE
    OBVIOUS
  <2>1. d - 1 \in Nat /\ prec <= d - 1 /\ d # 1
    OBVIOUS
  <2>2. Budget!Power(prec) <= Budget!Power(d - 1)
    BY <2>1, PowerGrows
  <2>3. Budget!Power(d - 1) <= n
    BY <1>1, <2>1 DEF HasDigits
  <2> QED
    BY <2>1, <2>2, <2>3, PowerPositive
<1> QED
  BY <1>1, <1>2 DEF Budget!Rounded

LEMMA LargerOfTwo ==
    ASSUME NEW a \in Nat, NEW b \in Nat
    PROVE  /\ Budget!Max({a, b}) \in Nat
           /\ a <= Budget!Max({a, b}) /\ b <= Budget!Max({a, b})
<1>1. \E x \in {a, b} : \A y \in {a, b} : x >= y
  <2>1. CASE a <= b
    BY <2>1
  <2>2. CASE ~(a <= b)
    BY <2>2
  <2> QED
    BY <2>1, <2>2
<1>2. Budget!Max({a, b}) \in {a, b} /\ \A y \in {a, b} : Budget!Max({a, b}) >= y
  BY <1>1 DEF Budget!Max
<1> QED
  BY <1>2

LEMMA ProductsBelow ==
    ASSUME NEW x \in Nat, NEW y \in Nat, NEW a \in Nat, NEW b \in Nat, x < a, y < b
    PROVE  x * y \in Nat /\ x * y < a * b
<1>1. PICK c \in Nat : a = x + 1 + c
  <2>1. a - (x + 1) \in Nat /\ a = x + 1 + (a - (x + 1))
    OBVIOUS
  <2> QED
    BY <2>1
<1>2. PICK d \in Nat : b = y + 1 + d
  <2>1. b - (y + 1) \in Nat /\ b = y + 1 + (b - (y + 1))
    OBVIOUS
  <2> QED
    BY <2>1
<1>3. a * b = x * y + x + x * d + y + 1 + d + c * y + c + c * d
  BY <1>1, <1>2
<1>4. x * y \in Nat /\ x * d \in Nat /\ c * y \in Nat /\ c * d \in Nat
  BY <1>1, <1>2
<1> QED
  BY <1>1, <1>2, <1>3, <1>4

LEMMA TermBelow ==
    ASSUME NEW v \in Nat, NEW n \in Nat, NEW k \in Nat, NEW m \in Nat,
           v < Budget!Power(k), n < Budget!Power(m)
    PROVE  v * n * 100 \in Nat /\ v * n * 100 < Budget!Power((k + m) + 2)
<1>1. PICK a \in Nat, b \in Nat : a = Budget!Power(k) /\ b = Budget!Power(m)
  BY PowerPositive
<1>2. v * n \in Nat /\ v * n < Budget!Power(k + m)
  <2>1. v * n \in Nat /\ v * n < a * b
    BY <1>1, ProductsBelow
  <2>2. Budget!Power(k + m) = a * b
    BY <1>1, PowerSum
  <2> QED
    BY <2>1, <2>2
<1>3. PICK c \in Nat : c = Budget!Power(k + m)
  BY PowerPositive
<1>4. PICK h \in Nat : h = Budget!Power(2) /\ h >= 100
  <2>1. /\ Budget!Power(0 + 1) = Base * Budget!Power(0) /\ Budget!Power(0) = 1
        /\ Budget!Power(1 + 1) = Base * Budget!Power(1)
    BY PowerStep
  <2>2. PICK d \in Nat : Base = 10 + d
    <3>1. Base - 10 \in Nat /\ Base = 10 + (Base - 10)
      BY PoliciesAssumption
    <3> QED
      BY <3>1
  <2>3. Base * Base = 100 + 20 * d + d * d /\ d * d \in Nat
    BY <2>2
  <2>4. Budget!Power(2) = Base * Base
    BY <2>1, <2>2
  <2>5. Base * Base \in Nat /\ Base * Base >= 100
    BY <2>2, <2>3
  <2> QED
    BY <2>4, <2>5
<1>5. Budget!Power((k + m) + 2) = c * h
  <2>1. PICK i \in Nat : i = k + m
    OBVIOUS
  <2>2. Budget!Power(i + 2) = Budget!Power(i) * Budget!Power(2)
    BY PowerSum
  <2> QED
    BY <1>3, <1>4, <2>1, <2>2
<1>6. PICK t \in Nat : t = v * n
  BY <1>2
<1>7. t * 100 < c * 100
  BY <1>2, <1>3, <1>6
<1>8. c * 100 <= c * h
  <2>1. PICK d \in Nat : h = 100 + d
    <3>1. h - 100 \in Nat /\ h = 100 + (h - 100)
      BY <1>4
    <3> QED
      BY <3>1
  <2>2. c * h = c * 100 + c * d /\ c * d \in Nat
    BY <2>1
  <2> QED
    BY <2>2
<1>9. c * h \in Nat /\ t * 100 \in Nat
  OBVIOUS
<1> QED
  BY <1>5, <1>6, <1>7, <1>8, <1>9

(* token_cost rounds nothing away: its precision has room for the products,    *)
(* for their sum and for the quotient.                                       *)
LEMMA CostIsExact ==
    ASSUME NEW p, p.input_per_million \in Budget!Money, p.output_per_million \in Budget!Money,
           NEW in \in Nat, NEW out \in Nat, NEW den \in {1, 2}
    PROVE  Budget!TokenCost(p, in, out, den) =
             (p.input_per_million.value * in * 100 + p.output_per_million.value * out * 100)
               \div den
<1>1. PICK v \in Nat, k \in Nat : /\ v = p.input_per_million.value
                                  /\ k = p.input_per_million.length
                                  /\ v < Budget!Power(k + Fraction)
  BY DEF Budget!Money
<1>2. PICK w \in Nat, l \in Nat : /\ w = p.output_per_million.value
                                  /\ l = p.output_per_million.length
                                  /\ w < Budget!Power(l + Fraction)
  BY DEF Budget!Money
<1>3. PICK f \in Nat : f = Fraction /\ f >= 3
  BY PoliciesAssumption
<1>4. PICK s \in Nat : s = Budget!Max({k, l}) /\ k <= s /\ l <= s
  BY LargerOfTwo
<1>5. Budget!Digits(in) \in Nat /\ Budget!Digits(out) \in Nat /\ Budget!Digits(in) >= 1
  BY DigitsAre DEF HasDigits
<1>6. PICK m \in Nat : /\ m = Budget!Max({Budget!Digits(in), Budget!Digits(out)})
                       /\ Budget!Digits(in) <= m /\ Budget!Digits(out) <= m /\ m >= 1
  BY <1>5, LargerOfTwo
<1>7. v < Budget!Power(s + f) /\ w < Budget!Power(s + f)
  <2>1. /\ k + f \in Nat /\ l + f \in Nat /\ s + f \in Nat
        /\ k + f <= s + f /\ l + f <= s + f
    BY <1>4
  <2>2. /\ Budget!Power(k + f) <= Budget!Power(s + f)
        /\ Budget!Power(l + f) <= Budget!Power(s + f)
    BY <2>1, PowerGrows
  <2> QED
    BY <1>1, <1>2, <1>3, <2>1, <2>2, PowerPositive
<1>8. in < Budget!Power(m) /\ out < Budget!Power(m)
  <2>1. /\ Budget!Power(Budget!Digits(in)) <= Budget!Power(m)
        /\ Budget!Power(Budget!Digits(out)) <= Budget!Power(m)
    BY <1>5, <1>6, PowerGrows
  <2>2. in < Budget!Power(Budget!Digits(in)) /\ out < Budget!Power(Budget!Digits(out))
    BY DigitsAre DEF HasDigits
  <2> QED
    BY <1>5, <2>1, <2>2, PowerPositive
<1>9. PICK j \in Nat : j = ((s + f) + m) + 2
  OBVIOUS
<1>10. PICK x \in Nat, y \in Nat :
           /\ x = v * in * 100 /\ x < Budget!Power(j)
           /\ y = w * out * 100 /\ y < Budget!Power(j)
  <2>1. v * in * 100 \in Nat /\ v * in * 100 < Budget!Power(((s + f) + m) + 2)
    BY <1>7, <1>8, TermBelow
  <2>2. w * out * 100 \in Nat /\ w * out * 100 < Budget!Power(((s + f) + m) + 2)
    BY <1>7, <1>8, TermBelow
  <2> QED
    BY <1>9, <2>1, <2>2
<1>11. PICK prec \in Nat : prec = s + m + 2 * f /\ prec >= 1
  BY <1>6
<1>12. x + y < Budget!Power(prec)
  <2>1. j + 1 \in Nat /\ j + 1 <= prec
    BY <1>3, <1>9, <1>11
  <2>2. PICK o \in Nat : o = Budget!Power(j)
    BY PowerPositive
  <2>3. Budget!Power(j + 1) = Base * o
    BY <2>2, PowerStep
  <2>4. 2 * o <= Base * o
    <3>1. PICK d \in Nat : Base = 2 + d
      <4>1. Base - 2 \in Nat /\ Base = 2 + (Base - 2)
        BY PoliciesAssumption
      <4> QED
        BY <4>1
    <3>2. Base * o = 2 * o + d * o /\ d * o \in Nat
      BY <3>1
    <3> QED
      BY <3>2
  <2>5. Budget!Power(j + 1) <= Budget!Power(prec)
    BY <2>1, PowerGrows
  <2>6. Budget!Power(j + 1) \in Nat /\ Budget!Power(prec) \in Nat
    BY <2>1, PowerPositive
  <2> QED
    BY <1>10, <2>2, <2>3, <2>4, <2>5, <2>6
<1>13. PICK z \in Nat : z = (x + y) \div den /\ z <= x + y
  BY SMTT(30)
<1>14. /\ Budget!Rounded(x, prec) = x /\ Budget!Rounded(y, prec) = y
       /\ Budget!Rounded(x + y, prec) = x + y /\ Budget!Rounded(z, prec) = z
  <2>1. Budget!Power(prec) \in Nat
    BY PowerPositive
  <2>2. x < Budget!Power(prec) /\ y < Budget!Power(prec) /\ z < Budget!Power(prec)
    BY <1>12, <1>13, <2>1
  <2> QED
    BY <1>11, <1>12, <2>2, RoomForAll
<1>15. Budget!Precision(p, in, out) = prec
  BY <1>1, <1>2, <1>3, <1>4, <1>6, <1>11 DEF Budget!Precision
<1> QED
  BY <1>1, <1>2, <1>10, <1>13, <1>14, <1>15 DEF Budget!TokenCost

-----------------------------------------------------------------------------
(* What n attempts reserve is n times what one does at the highest rates.      *)
Usage == [i : Nat, w : Nat, r : Nat, o : Nat]

LEMMA HalfOfDouble ==
    ASSUME NEW n \in Nat
    PROVE  (2 * n) \div 2 = n /\ n \div 1 = n
OBVIOUS

LEMMA ReservationIs ==
    ASSUME NEW p, Budget!PolicyShape(p), ~p.tracking, NEW n \in Nat
    PROVE  /\ Budget!Dearest(p) \in Nat
           /\ Budget!ReservationTotal(p, n) = n * Budget!Dearest(p)
<1>1. PICK v \in Nat, w \in Nat : /\ v = p.input_per_million.value
                                  /\ w = p.output_per_million.value
  BY DEF Budget!PolicyShape, Budget!Money
<1>2. PICK win \in Nat, max \in Nat : win = p.window /\ max = p.max_output_tokens
  BY DEF Budget!PolicyShape
<1>3. /\ p.input_per_million \in Budget!Money /\ p.output_per_million \in Budget!Money
      /\ p.kind \in {"gpt", "anthropic", "inspect"}
  BY DEF Budget!PolicyShape
<1>4. v * win \in Nat /\ w * max \in Nat /\ n * win \in Nat /\ n * max \in Nat
      /\ v * (win + max) \in Nat
  OBVIOUS
<1>5. CASE p.kind = "gpt"
  <2>1. PICK d \in Nat : d = 250 * v * win + 150 * w * max
    <3>1. 250 * v * win = 250 * (v * win) /\ 150 * w * max = 150 * (w * max)
      OBVIOUS
    <3>2. 250 * (v * win) + 150 * (w * max) \in Nat
      BY <1>4
    <3> QED
      BY <3>1, <3>2
  <2>2. Budget!Dearest(p) = d
    BY <1>1, <1>2, <1>5, <2>1 DEF Budget!Dearest
  <2>3. n * win * 5 \in Nat /\ n * max * 3 \in Nat
    BY <1>4
  <2>4. PICK in \in Nat, out \in Nat : in = n * win * 5 /\ out = n * max * 3
    BY <2>3
  <2>5. (v * in * 100 + w * out * 100) = 2 * (n * d)
    BY <2>1, <2>4
  <2>6. PICK z \in Nat : z = n * d
    OBVIOUS
  <2>7. Budget!ReservationTotal(p, n) = (v * in * 100 + w * out * 100) \div 2
    <3>1. Budget!ReservationTotal(p, n) = Budget!TokenCost(p, in, out, 2)
      BY <1>2, <1>5, <2>4 DEF Budget!ReservationTotal
    <3>2. Budget!TokenCost(p, in, out, 2) = (v * in * 100 + w * out * 100) \div 2
      BY <1>1, <1>3, CostIsExact
    <3> QED
      BY <3>1, <3>2, Zenon
  <2>8. Budget!ReservationTotal(p, n) = (2 * z) \div 2
    BY <2>5, <2>6, <2>7
  <2>9. (2 * z) \div 2 = z
    BY HalfOfDouble
  <2> QED
    BY <2>2, <2>6, <2>8, <2>9
<1>6. CASE p.kind = "anthropic"
  <2>1. PICK d \in Nat : d = 200 * v * win + 100 * w * max
    <3>1. 200 * v * win = 200 * (v * win) /\ 100 * w * max = 100 * (w * max)
      OBVIOUS
    <3>2. 200 * (v * win) + 100 * (w * max) \in Nat
      BY <1>4
    <3> QED
      BY <3>1, <3>2
  <2>2. Budget!Dearest(p) = d
    BY <1>1, <1>2, <1>6, <2>1 DEF Budget!Dearest
  <2>3. n * win * 2 \in Nat /\ n * max \in Nat
    BY <1>4
  <2>4. PICK in \in Nat, out \in Nat : in = n * win * 2 /\ out = n * max
    BY <2>3
  <2>5. (v * in * 100 + w * out * 100) = n * d
    BY <2>1, <2>4
  <2>6. PICK z \in Nat : z = n * d
    OBVIOUS
  <2>7. Budget!ReservationTotal(p, n) = (v * in * 100 + w * out * 100) \div 1
    <3>1. Budget!ReservationTotal(p, n) = Budget!TokenCost(p, in, out, 1)
      BY <1>2, <1>6, <2>4 DEF Budget!ReservationTotal
    <3>2. Budget!TokenCost(p, in, out, 1) = (v * in * 100 + w * out * 100) \div 1
      BY <1>1, <1>3, CostIsExact
    <3> QED
      BY <3>1, <3>2, Zenon
  <2>8. Budget!ReservationTotal(p, n) = z \div 1
    BY <2>5, <2>6, <2>7
  <2>9. z \div 1 = z
    BY HalfOfDouble
  <2> QED
    BY <2>2, <2>6, <2>8, <2>9
<1>7. CASE p.kind = "inspect"
  <2>1. PICK d \in Nat : d = 100 * v * (win + max)
    <3>1. 100 * v * (win + max) = 100 * (v * (win + max))
      OBVIOUS
    <3> QED
      BY <1>4, <3>1
  <2>2. Budget!Dearest(p) = d
    BY <1>1, <1>2, <1>7, <2>1 DEF Budget!Dearest
  <2>3. Budget!ReservationTotal(p, n) = v * n * (win + max) * 100
    BY <1>1, <1>2, <1>7 DEF Budget!ReservationTotal, Budget!ReservedTokens
  <2>4. v * n * (win + max) * 100 = n * d
    BY <2>1
  <2> QED
    BY <2>2, <2>3, <2>4
<1> QED
  BY <1>3, <1>5, <1>6, <1>7

LEMMA Monotone ==
    ASSUME NEW v \in Nat, NEW a \in Nat, NEW b \in Nat, a <= b
    PROVE  v * a \in Nat /\ v * b \in Nat /\ v * a <= v * b
<1>1. PICK d \in Nat : b = a + d
  <2>1. b - a \in Nat /\ b = a + (b - a)
    OBVIOUS
  <2> QED
    BY <2>1
<1>2. v * b = v * a + v * d /\ v * d \in Nat /\ v * a \in Nat
  BY <1>1
<1> QED
  BY <1>2

(* An answer within the window is billed no more than was reserved for it ... *)
LEMMA BillWithin ==
    ASSUME NEW p, Budget!PolicyShape(p), NEW u \in Usage
    PROVE  /\ Budget!Bill(p, u) \in Nat
           /\ ~p.tracking /\ Budget!Served(p, u) => Budget!Bill(p, u) <= Budget!Dearest(p)
<1>1. PICK v \in Nat, w \in Nat : /\ v = p.input_per_million.value
                                  /\ w = p.output_per_million.value
  BY DEF Budget!PolicyShape, Budget!Money
<1>2. PICK i \in Nat, c \in Nat, r \in Nat, o \in Nat :
           i = u.i /\ c = u.w /\ r = u.r /\ o = u.o
  BY DEF Usage
<1>3. p.kind \in {"gpt", "anthropic", "inspect"} /\ p.tracking \in BOOLEAN
  BY DEF Budget!PolicyShape
<1>4. ~p.tracking => p.window \in Nat /\ p.max_output_tokens \in Nat
  BY DEF Budget!PolicyShape
<1>5. CASE p.kind = "gpt"
  <2>1. PICK f \in {1, 2} : f = IF u.i > ShortContext THEN 2 ELSE 1
    OBVIOUS
  <2>2. PICK m \in Nat : m = Budget!Min({u.i, u.w}) /\ m <= i
    <3>1. \E x \in {u.i, u.w} : \A y \in {u.i, u.w} : x =< y
      <4>1. CASE i <= c
        BY <1>2, <4>1
      <4>2. CASE ~(i <= c)
        BY <1>2, <4>2
      <4> QED
        BY <4>1, <4>2
    <3>2. /\ Budget!Min({u.i, u.w}) \in {u.i, u.w}
          /\ \A y \in {u.i, u.w} : Budget!Min({u.i, u.w}) =< y
      BY <3>1 DEF Budget!Min
    <3> QED
      BY <1>2, <3>2
  <2>3. PICK t \in Nat : t = 4 * (i - m) + 5 * m /\ t <= 5 * i
    <3>1. i - m \in Nat /\ 4 * (i - m) + 5 * m = 4 * i + m
      BY <2>2
    <3>2. 4 * (i - m) + 5 * m \in Nat /\ 4 * (i - m) + 5 * m <= 5 * i
      BY <2>2, <3>1
    <3> QED
      BY <3>2
  <2>4. Budget!Bill(p, u) = v * 25 * f * t + w * 50 * (f + 1) * o
    BY <1>1, <1>2, <1>5, <2>1, <2>2, <2>3 DEF Budget!Bill
  <2>5. v * 25 * f * t = v * (25 * f * t) /\ w * 50 * (f + 1) * o = w * (50 * (f + 1) * o)
    BY <2>1
  <2>6. 25 * f * t \in Nat /\ 50 * (f + 1) * o \in Nat
    BY <2>1
  <2>7. v * (25 * f * t) \in Nat /\ w * (50 * (f + 1) * o) \in Nat
    BY <2>6
  <2>8. ASSUME ~p.tracking, Budget!Served(p, u)
        PROVE  Budget!Bill(p, u) <= Budget!Dearest(p)
    <3>1. PICK win \in Nat, max \in Nat : win = p.window /\ max = p.max_output_tokens
      BY <1>4, <2>8
    <3>2. i <= win /\ o <= max
      BY <1>2, <1>5, <2>8, <3>1 DEF Budget!Served, Budget!TokensOf
    <3>3. 25 * f * t <= 250 * win /\ 50 * (f + 1) * o <= 150 * max
      <4>1. CASE f = 1
        BY <2>3, <3>2, <4>1
      <4>2. CASE f = 2
        BY <2>3, <3>2, <4>2
      <4> QED
        BY <2>1, <4>1, <4>2
    <3>4. v * (25 * f * t) <= v * (250 * win) /\ v * (250 * win) \in Nat
      BY <2>6, <3>3, Monotone
    <3>5. w * (50 * (f + 1) * o) <= w * (150 * max) /\ w * (150 * max) \in Nat
      BY <2>6, <3>3, Monotone
    <3>6. Budget!Dearest(p) = 250 * v * win + 150 * w * max
      BY <1>1, <1>5, <3>1 DEF Budget!Dearest
    <3>7. 250 * v * win = v * (250 * win) /\ 150 * w * max = w * (150 * max)
      OBVIOUS
    <3> QED
      BY <2>4, <2>5, <2>7, <3>4, <3>5, <3>6, <3>7
  <2> QED
    BY <2>4, <2>5, <2>7, <2>8
<1>6. CASE p.kind = "anthropic"
  <2>1. PICK t \in Nat : t = i + 2 * c + r
    OBVIOUS
  <2>2. Budget!Bill(p, u) = 100 * (v * t + w * o)
    BY <1>1, <1>2, <1>6, <2>1 DEF Budget!Bill
  <2>3. v * t \in Nat /\ w * o \in Nat
    OBVIOUS
  <2>4. ASSUME ~p.tracking, Budget!Served(p, u)
        PROVE  Budget!Bill(p, u) <= Budget!Dearest(p)
    <3>1. PICK win \in Nat, max \in Nat : win = p.window /\ max = p.max_output_tokens
      BY <1>4, <2>4
    <3>2. t <= 2 * win /\ o <= max
      BY <1>2, <1>6, <2>1, <2>4, <3>1 DEF Budget!Served, Budget!TokensOf
    <3>3. v * t <= v * (2 * win) /\ v * (2 * win) \in Nat
      BY <3>2, Monotone
    <3>4. w * o <= w * max /\ w * max \in Nat
      BY <3>2, Monotone
    <3>5. Budget!Dearest(p) = 200 * v * win + 100 * w * max
      BY <1>1, <1>6, <3>1 DEF Budget!Dearest
    <3>6. 200 * v * win = 100 * (v * (2 * win)) /\ 100 * w * max = 100 * (w * max)
      OBVIOUS
    <3> QED
      BY <2>2, <2>3, <3>3, <3>4, <3>5, <3>6
  <2> QED
    BY <2>2, <2>3, <2>4
<1>7. CASE p.kind = "inspect"
  <2>1. Budget!Bill(p, u) = 0
    BY <1>7 DEF Budget!Bill
  <2>2. ~p.tracking => Budget!Dearest(p) \in Nat
    BY ReservationIs
  <2> QED
    BY <2>1, <2>2
<1> QED
  BY <1>3, <1>5, <1>6, <1>7

(* ... an estimate is the bill to the last digit ... *)
LEMMA EstimateIsBill ==
    ASSUME NEW p, Budget!PolicyShape(p), NEW u \in Usage, Budget!Estimate(p, u) = "known"
    PROVE  Budget!EstimatedCost(p, u) = Budget!Bill(p, u)
<1>1. PICK v \in Nat, w \in Nat : /\ v = p.input_per_million.value
                                  /\ w = p.output_per_million.value
  BY DEF Budget!PolicyShape, Budget!Money
<1>2. PICK i \in Nat, c \in Nat, r \in Nat, o \in Nat :
           i = u.i /\ c = u.w /\ r = u.r /\ o = u.o
  BY DEF Usage
<1>3. /\ p.input_per_million \in Budget!Money /\ p.output_per_million \in Budget!Money
      /\ p.kind \in {"gpt", "anthropic"}
  BY DEF Budget!PolicyShape, Budget!Estimate
<1>4. ASSUME NEW t \in Nat
      PROVE  Budget!TokenCost(p, t, o, 1) = v * t * 100 + w * o * 100
  <2>1. v * t * 100 + w * o * 100 \in Nat
    <3>1. v * t \in Nat /\ w * o \in Nat
      OBVIOUS
    <3> QED
      BY <3>1
  <2>2. Budget!TokenCost(p, t, o, 1) = (v * t * 100 + w * o * 100) \div 1
    BY <1>1, <1>3, CostIsExact
  <2> QED
    BY <2>1, <2>2, HalfOfDouble
<1>5. CASE p.kind = "gpt"
  <2>1. u.w = 0 /\ ~(u.i > ShortContext)
    BY <1>2, <1>5 DEF Budget!Estimate
  <2>2. Budget!Min({u.i, u.w}) = 0
    <3>1. \E x \in {u.i, u.w} : \A y \in {u.i, u.w} : x =< y
      BY <1>2, <2>1
    <3>2. /\ Budget!Min({u.i, u.w}) \in {u.i, u.w}
          /\ \A y \in {u.i, u.w} : Budget!Min({u.i, u.w}) =< y
      BY <3>1 DEF Budget!Min
    <3> QED
      BY <1>2, <2>1, <3>2
  <2>3. Budget!Bill(p, u) = v * 25 * 1 * (4 * (i - 0) + 5 * 0) + w * 50 * (1 + 1) * o
    BY <1>1, <1>2, <1>5, <2>1, <2>2 DEF Budget!Bill
  <2>4. v * 25 * 1 * (4 * (i - 0) + 5 * 0) + w * 50 * (1 + 1) * o = v * i * 100 + w * o * 100
    OBVIOUS
  <2> QED
    BY <1>2, <1>4, <1>5, <2>3, <2>4 DEF Budget!EstimatedCost
<1>6. CASE p.kind = "anthropic"
  <2>1. PICK t \in Nat : t = i + 2 * c + r
    OBVIOUS
  <2>2. Budget!Bill(p, u) = 100 * (v * t + w * o)
    BY <1>1, <1>2, <1>6, <2>1 DEF Budget!Bill
  <2>3. 100 * (v * t + w * o) = v * t * 100 + w * o * 100
    OBVIOUS
  <2> QED
    BY <1>2, <1>4, <1>6, <2>1, <2>2, <2>3 DEF Budget!EstimatedCost
<1> QED
  BY <1>3, <1>5, <1>6

(* ... and an answer that is accepted reports no more tokens than it was given. *)
LEMMA TokensWithin ==
    ASSUME NEW p, Budget!PolicyShape(p), NEW u \in Usage
    PROVE  /\ Budget!TokensOf(p, u) \in Nat
           /\ (~p.tracking /\ p.kind # "inspect" /\ Budget!Estimate(p, u) # "invalid") =>
                 Budget!TokensOf(p, u) <= Budget!ReservedTokens(p)
<1>1. PICK i \in Nat, c \in Nat, r \in Nat, o \in Nat :
           i = u.i /\ c = u.w /\ r = u.r /\ o = u.o
  BY DEF Usage
<1>2. Budget!TokensOf(p, u) \in Nat
  BY <1>1 DEF Budget!TokensOf
<1>3. ASSUME ~p.tracking, p.kind # "inspect", Budget!Estimate(p, u) # "invalid"
      PROVE  Budget!TokensOf(p, u) <= Budget!ReservedTokens(p)
  <2>1. PICK win \in Nat, max \in Nat : win = p.window /\ max = p.max_output_tokens
    BY <1>3 DEF Budget!PolicyShape
  <2>2. p.kind \in {"gpt", "anthropic"}
    BY <1>3 DEF Budget!PolicyShape
  <2>3. CASE p.kind = "gpt"
    <3>1. ~(i > win) /\ ~(o > max)
      BY <1>1, <1>3, <2>1, <2>3 DEF Budget!Estimate
    <3> QED
      BY <1>1, <2>1, <2>3, <3>1 DEF Budget!TokensOf, Budget!ReservedTokens
  <2>4. CASE p.kind = "anthropic"
    <3>1. ~(i + c + r > win) /\ ~(o > max)
      BY <1>1, <1>3, <2>1, <2>4 DEF Budget!Estimate
    <3> QED
      BY <1>1, <2>1, <2>4, <3>1 DEF Budget!TokensOf, Budget!ReservedTokens
  <2> QED
    BY <2>2, <2>3, <2>4
<1> QED
  BY <1>2, <1>3

-----------------------------------------------------------------------------
BudgetInv ==
    /\ runPolicy \in Policies
    /\ runCount \in Nat /\ runUsed \in Nat /\ runSettled \in Nat
    /\ runBilled \in Nat /\ runBooked \in Nat
    /\ ~runPolicy.tracking =>
          /\ runBooked = runCount * Budget!Dearest(runPolicy)
          /\ runBilled <= runBooked
          /\ runCount > 0 => Budget!Admit(runPolicy, runCount)
          /\ runPolicy.kind # "inspect" => runUsed <= runCount * Budget!ReservedTokens(runPolicy)
    /\ runLast \in {"none", "known"} => runSettled >= runBilled

LEMMA BudgetStarts == Budget!Init => BudgetInv
<1> SUFFICES ASSUME Budget!Init PROVE BudgetInv
  OBVIOUS
<1>1. /\ runPolicy \in Policies /\ runCount = 0 /\ runUsed = 0 /\ runSettled = 0
      /\ runBilled = 0 /\ runBooked = 0
  BY DEF Budget!Init
<1>2. ASSUME ~runPolicy.tracking
      PROVE  /\ 0 * Budget!Dearest(runPolicy) = 0
             /\ 0 * Budget!ReservedTokens(runPolicy) = 0
  <2>1. Budget!PolicyShape(runPolicy)
    BY <1>1, PoliciesAssumption
  <2>2. Budget!Dearest(runPolicy) \in Nat
    BY <1>2, <2>1, ReservationIs
  <2>3. Budget!ReservedTokens(runPolicy) \in Nat
    BY <1>2, <2>1 DEF Budget!ReservedTokens, Budget!PolicyShape
  <2> QED
    BY <2>2, <2>3
<1> QED
  BY <1>1, <1>2 DEF BudgetInv

LEMMA AttemptKeeps ==
    ASSUME BudgetInv, NEW u \in Usages, Budget!Attempt(u)
    PROVE  BudgetInv'
<1>1. u \in Usage
  BY PoliciesAssumption DEF Usage
<1>2. PICK p \in Policies : p = runPolicy
  BY DEF BudgetInv
<1>3. Budget!PolicyShape(p) /\ p.tracking \in BOOLEAN
  BY PoliciesAssumption DEF Budget!PolicyShape
<1>4. runPolicy' = p /\ runCount' = runCount + 1 /\ Budget!Admit(p, runCount + 1)
  BY <1>2 DEF Budget!Attempt
<1>5. PICK n \in Nat, used \in Nat, settled \in Nat, billed \in Nat, booked \in Nat :
           /\ n = runCount /\ used = runUsed /\ settled = runSettled
           /\ billed = runBilled /\ booked = runBooked
  BY DEF BudgetInv
<1>6. PICK status : status = Budget!Estimate(p, u)
  OBVIOUS
<1>7. PICK b \in Nat : b = Budget!Bill(p, u)
  BY <1>1, <1>3, BillWithin
<1>8. PICK t \in Nat : t = Budget!TokensOf(p, u)
  BY <1>1, <1>3, TokensWithin
<1>9. PICK c \in Nat : /\ c = IF Budget!Served(p, u) THEN b ELSE 0
                       /\ c <= b
  OBVIOUS
<1>10. PICK e \in Nat : /\ e = IF status = "known" THEN Budget!EstimatedCost(p, u) ELSE 0
                        /\ status = "known" => e = b
  <2>1. status = "known" => Budget!EstimatedCost(p, u) = b
    BY <1>1, <1>3, <1>6, <1>7, EstimateIsBill
  <2> QED
    BY <2>1
<1>11. PICK a \in Nat : a = IF status = "invalid" THEN 0 ELSE t
  OBVIOUS
<1>12. PICK d \in Nat : /\ d = IF p.tracking THEN 0 ELSE Budget!ReservationTotal(p, 1)
                        /\ ~p.tracking => d = Budget!Dearest(p)
  <2>1. ~p.tracking => /\ Budget!Dearest(p) \in Nat
                       /\ Budget!ReservationTotal(p, 1) = 1 * Budget!Dearest(p)
    BY <1>3, ReservationIs
  <2> QED
    BY <2>1
<1>13. runUsed' = used + a /\ runSettled' = settled + e /\ runBilled' = billed + c
       /\ runBooked' = booked + d
       /\ runLast' = IF runLast \in {"none", "known"} \/ status = "invalid" THEN status ELSE runLast
  BY <1>2, <1>5, <1>6, <1>7, <1>8, <1>9, <1>10, <1>11, <1>12 DEF Budget!Attempt
<1>14. ASSUME ~p.tracking
       PROVE  /\ runBooked' = runCount' * Budget!Dearest(p)
              /\ runBilled' <= runBooked'
              /\ p.kind # "inspect" => runUsed' <= runCount' * Budget!ReservedTokens(p)
  <2>1. booked = n * d /\ billed <= booked
    BY <1>2, <1>5, <1>12, <1>14 DEF BudgetInv
  <2>2. c <= d
    <3>1. Budget!Served(p, u) => b <= d
      BY <1>1, <1>3, <1>7, <1>12, <1>14, BillWithin
    <3> QED
      BY <1>9, <3>1
  <2>3. booked + d = (n + 1) * d /\ billed + c <= booked + d
    BY <2>1, <2>2
  <2>4. ASSUME p.kind # "inspect"
        PROVE  used + a <= (n + 1) * Budget!ReservedTokens(p)
    <3>1. PICK k \in Nat : k = Budget!ReservedTokens(p)
      BY <1>3, <1>14 DEF Budget!ReservedTokens, Budget!PolicyShape
    <3>2. used <= n * k
      BY <1>2, <1>5, <1>14, <2>4, <3>1 DEF BudgetInv
    <3>3. a <= k
      BY <1>1, <1>3, <1>6, <1>8, <1>11, <1>14, <2>4, <3>1, TokensWithin
    <3>4. n * k \in Nat /\ (n + 1) * k = n * k + k
      OBVIOUS
    <3> QED
      BY <3>1, <3>2, <3>3, <3>4
  <2> QED
    BY <1>4, <1>5, <1>12, <1>13, <1>14, <2>3, <2>4
<1>15. ASSUME runLast' \in {"none", "known"}
       PROVE  runSettled' >= runBilled'
  <2>1. runLast \in {"none", "known"} /\ status \in {"none", "known"}
    BY <1>13, <1>15
  <2>2. status = "known"
    BY <1>6, <2>1 DEF Budget!Estimate
  <2>3. settled >= billed
    BY <1>5, <2>1 DEF BudgetInv
  <2> QED
    BY <1>9, <1>10, <1>13, <2>2, <2>3
<1>16. /\ runCount' \in Nat /\ runUsed' \in Nat /\ runSettled' \in Nat
       /\ runBilled' \in Nat /\ runBooked' \in Nat
  BY <1>4, <1>5, <1>13
<1> QED
  BY <1>4, <1>14, <1>15, <1>16 DEF BudgetInv

LEMMA BudgetKeeps ==
    ASSUME BudgetInv, [Budget!Next]_budgetVars
    PROVE  BudgetInv'
<1>1. CASE Budget!Refuse
  <2>1. UNCHANGED <<runPolicy, runCount, runUsed, runSettled, runBilled, runBooked>>
    BY <1>1 DEF Budget!Refuse
  <2>2. runLast' \notin {"none", "known"}
    BY <1>1 DEF Budget!Refuse
  <2> QED
    BY <2>1, <2>2 DEF BudgetInv
<1>2. ASSUME NEW u \in Usages, Budget!Attempt(u)
      PROVE  BudgetInv'
  BY <1>2, AttemptKeeps
<1>3. CASE UNCHANGED budgetVars
  BY <1>3 DEF BudgetInv, budgetVars
<1> QED
  BY <1>1, <1>2, <1>3 DEF Budget!Next

LEMMA BudgetIsExact ==
    ASSUME BudgetInv
    PROVE  Budget!AdmissionExact
<1> SUFFICES ASSUME ~runPolicy.tracking, NEW n \in 1..MaxAttempts
             PROVE  Budget!Admit(runPolicy, n) <=> Budget!Fits(runPolicy, n)
  BY DEF Budget!AdmissionExact
<1>1. n \in Nat
  BY PoliciesAssumption
<1>2. Budget!PolicyShape(runPolicy)
  BY PoliciesAssumption DEF BudgetInv
<1>3. Budget!ReservationTotal(runPolicy, n) = n * Budget!Dearest(runPolicy)
  BY <1>1, <1>2, ReservationIs
<1> QED
  BY <1>3 DEF Budget!Admit, Budget!Fits, Budget!Cap, Budget!ReservedTokens

LEMMA BudgetHolds ==
    ASSUME BudgetInv
    PROVE  /\ Budget!BilledWithinCap /\ Budget!UsedWithinCap
           /\ Budget!BooksAgree /\ Budget!EstimatesCoverBill
<1>1. Budget!EstimatesCoverBill
  BY DEF Budget!EstimatesCoverBill, BudgetInv
<1>2. PICK n \in Nat, billed \in Nat, booked \in Nat :
          n = runCount /\ billed = runBilled /\ booked = runBooked
  BY DEF BudgetInv
<1>3. Budget!PolicyShape(runPolicy)
  BY PoliciesAssumption DEF BudgetInv
<1>4. ASSUME ~runPolicy.tracking
      PROVE  /\ Budget!Dearest(runPolicy) \in Nat
             /\ Budget!ReservationTotal(runPolicy, n) = booked
             /\ billed <= booked
  BY <1>2, <1>3, <1>4, ReservationIs DEF BudgetInv
<1>5. Budget!BooksAgree
  BY <1>2, <1>4 DEF Budget!BooksAgree
<1>6. ASSUME ~runPolicy.tracking, runPolicy.max_cost # None
      PROVE  billed <= Budget!Cap(runPolicy.max_cost)
  <2>1. PICK cap \in Nat : cap = Budget!Cap(runPolicy.max_cost)
    <3>1. PICK v \in Nat, m \in Nat : v = runPolicy.max_cost.value /\ m = Million
      BY <1>3, <1>6, PoliciesAssumption DEF Budget!PolicyShape
    <3>2. v * 100 * m \in Nat
      OBVIOUS
    <3> QED
      BY <3>1, <3>2 DEF Budget!Cap
  <2>2. CASE n > 0
    <3>1. Budget!Admit(runPolicy, n)
      BY <1>2, <1>6, <2>2 DEF BudgetInv
    <3>2. booked <= cap
      BY <1>4, <1>6, <2>1, <3>1 DEF Budget!Admit
    <3> QED
      BY <1>4, <1>6, <2>1, <3>2
  <2>3. CASE n = 0
    <3>1. Budget!Dearest(runPolicy) \in Nat /\ booked = n * Budget!Dearest(runPolicy)
      BY <1>2, <1>4, <1>6 DEF BudgetInv
    <3>2. booked = 0
      BY <2>3, <3>1
    <3> QED
      BY <1>4, <1>6, <2>1, <3>2
  <2> QED
    BY <2>2, <2>3
<1>7. Budget!BilledWithinCap
  BY <1>2, <1>4, <1>6 DEF Budget!BilledWithinCap
<1>8. Budget!UsedWithinCap
  <2> SUFFICES ASSUME ~runPolicy.tracking, runPolicy.kind # "inspect"
               PROVE  runUsed <= runPolicy.max_total_tokens
    BY DEF Budget!UsedWithinCap
  <2>1. PICK used \in Nat, k \in Nat, total \in Nat :
            /\ used = runUsed /\ k = Budget!ReservedTokens(runPolicy)
            /\ total = runPolicy.max_total_tokens
    <3>1. runUsed \in Nat
      BY DEF BudgetInv
    <3>2. Budget!ReservedTokens(runPolicy) \in Nat
      BY <1>3 DEF Budget!ReservedTokens, Budget!PolicyShape
    <3>3. runPolicy.max_total_tokens \in Nat
      BY <1>3 DEF Budget!PolicyShape
    <3> QED
      BY <3>1, <3>2, <3>3, Zenon
  <2>2. used <= n * k
    BY <1>2, <2>1 DEF BudgetInv
  <2>3. CASE n > 0
    <3>1. Budget!Admit(runPolicy, n)
      BY <1>2, <2>3 DEF BudgetInv
    <3>2. n * k <= total
      BY <2>1, <3>1 DEF Budget!Admit
    <3>3. n * k \in Nat
      OBVIOUS
    <3> QED
      BY <2>1, <2>2, <3>2, <3>3
  <2>4. CASE n = 0
    BY <2>1, <2>2, <2>4
  <2> QED
    BY <2>3, <2>4
<1> QED
  BY <1>1, <1>5, <1>7, <1>8

(* Admission draws the line exactly where the attempts, at the highest rates,  *)
(* reach a cap, for every policy, precision and number of attempts.           *)
THEOREM AdmissionStaysExact == PartsSpec => []AdmissionExact
<1> DEFINE I == subject = "policy" => BudgetInv
<1>1. PartsInit => I
  BY BudgetStarts DEF PartsInit
<1>2. I /\ [PartsNext]_partsVars => I'
  <2> SUFFICES ASSUME I, [PartsNext]_partsVars, subject' = "policy" PROVE BudgetInv'
    OBVIOUS
  <2>1. subject = "policy" /\ [Budget!Next]_budgetVars
    BY DEF PartsNext, partsVars
  <2> QED
    BY <2>1, BudgetKeeps
<1>3. I => AdmissionExact
  BY BudgetIsExact DEF AdmissionExact
<1> QED
  BY <1>1, <1>2, <1>3, PTL DEF PartsSpec

(* No sequence of answers makes a run cost more than it reserved, or more than *)
(* its caps, and its two books agree.                                        *)
THEOREM CapsStayHeld == PartsSpec => []CapsHold
<1> DEFINE I == subject = "policy" => BudgetInv
<1>1. PartsInit => I
  BY BudgetStarts DEF PartsInit
<1>2. I /\ [PartsNext]_partsVars => I'
  <2> SUFFICES ASSUME I, [PartsNext]_partsVars, subject' = "policy" PROVE BudgetInv'
    OBVIOUS
  <2>1. subject = "policy" /\ [Budget!Next]_budgetVars
    BY DEF PartsNext, partsVars
  <2> QED
    BY <2>1, BudgetKeeps
<1>3. I => CapsHold
  BY BudgetHolds DEF CapsHold
<1> QED
  BY <1>1, <1>2, <1>3, PTL DEF PartsSpec
=============================================================================
