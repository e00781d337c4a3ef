-------------------------- MODULE ProviderRunProofs --------------------------
(***************************************************************************)
(* Proofs about ProviderRun for every plan, any number of processes,       *)
(* resumes, deaths and operator's commands.                                *)
(***************************************************************************)
EXTENDS ProviderRun, FiniteSetTheorems, TLAPS

(* What is proved of the ledger of the run and of its campaign. *)
LP == INSTANCE LedgerProofs WITH Requests <- Envelopes, Receipts <- Natives

OwnCalls == {OwnCall(a, q) : a \in Nat, q \in Envelopes}

CP == INSTANCE CampaignProofs WITH
    Calls <- OwnCalls \cup {OtherCall(o) : o \in Others},
    Scale <- 1, NoAmount <- Null, Callers <- {}, NoCall <- Null,
    asking <- [c \in {} |-> Null], granted <- {}

-----------------------------------------------------------------------------
(* The ledger that the run calls is the one the proofs are about. *)

LEMMA PlanHolds == LP!PlanAssumption /\ LP!ValueAssumption
BY RunAssumption, NullAssumption DEF LP!PlanAssumption, LP!ValueAssumption

LEMMA SameCurrent ==
    \A w : /\ LP!LastIndex(w) = L!LastIndex(w)
           /\ LP!Current(w) = L!Current(w) /\ LP!State(w) = L!State(w)
           /\ LP!DependenciesCompleted(w) <=> L!DependenciesCompleted(w)
BY DEF LP!Current, L!Current, LP!LastIndex, L!LastIndex, LP!IsLast, L!IsLast,
       LP!State, L!State, LP!DependenciesCompleted, L!DependenciesCompleted

LEMMA SameCurrentNext ==
    \A w : LP!Current(w)' = L!Current(w)' /\ LP!State(w)' = L!State(w)'
BY DEF LP!Current, L!Current, LP!LastIndex, L!LastIndex, LP!IsLast, L!IsLast,
       LP!State, L!State

LEMMA SameHolds == \A a, s : LP!Holds(a, s) <=> L!Holds(a, s)
BY SameCurrent DEF LP!Holds, L!Holds

LEMMA SameRows ==
    /\ \A e, s, r : LP!Follow(e, s, r) = L!Follow(e, s, r)
    /\ \A w, s : LP!Unattempted(w, s) = L!Unattempted(w, s)
    /\ \A w : LP!Inflight(w) = L!Inflight(w)
    /\ \A w, q : LP!ReservedEvent(w, q) = L!ReservedEvent(w, q)
    /\ \A w, q : LP!AttemptRow(w, q) = L!AttemptRow(w, q)
    /\ \A a, k : LP!RetryRow(a, k) = L!RetryRow(a, k)
    /\ \A a, r, k : LP!ReconciliationRow(a, r, k) = L!ReconciliationRow(a, r, k)
<1>1. \A e, s, r : LP!Follow(e, s, r) = L!Follow(e, s, r)
  BY DEF LP!Follow, L!Follow
<1>2. \A w, s : LP!Unattempted(w, s) = L!Unattempted(w, s)
  BY DEF LP!Unattempted, L!Unattempted
<1>3. \A w : LP!Inflight(w) = L!Inflight(w)
  BY <1>1, SameCurrent DEF LP!Inflight, L!Inflight
<1>4. \A w, q : LP!ReservedEvent(w, q) = L!ReservedEvent(w, q)
  BY <1>2 DEF LP!ReservedEvent, L!ReservedEvent
<1>5. \A w, q : LP!AttemptRow(w, q) = L!AttemptRow(w, q)
  BY DEF LP!AttemptRow, L!AttemptRow
<1>6. \A a, k : LP!RetryRow(a, k) = L!RetryRow(a, k)
  BY SameCurrent DEF LP!RetryRow, L!RetryRow
<1>7. \A a, r, k : LP!ReconciliationRow(a, r, k) = L!ReconciliationRow(a, r, k)
  BY DEF LP!ReconciliationRow, L!ReconciliationRow
<1> QED
  BY <1>1, <1>2, <1>3, <1>4, <1>5, <1>6, <1>7

LEMMA SameGuards ==
    /\ \A w : LP!AttemptsGuard(w) <=> L!AttemptsGuard(w)
    /\ \A e, as, cs, rs, v :
          LP!EventsGuard(e, as, cs, rs, v) <=> L!EventsGuard(e, as, cs, rs, v)
    /\ \A row : LP!ReconciliationsGuard(row) <=> L!ReconciliationsGuard(row)
    /\ \A row : LP!RetriesGuard(row) <=> L!RetriesGuard(row)
    /\ \A e : LP!Insert(e) <=> L!Insert(e)
<1>1. \A w : LP!AttemptsGuard(w) <=> L!AttemptsGuard(w)
  BY SameCurrent DEF LP!AttemptsGuard, L!AttemptsGuard
<1>2. \A e, as, cs, rs, v :
          LP!EventsGuard(e, as, cs, rs, v) <=> L!EventsGuard(e, as, cs, rs, v)
  <2> TAKE e, as, cs, rs, v
  <2>1. PICK w : w = e.work
    OBVIOUS
  <2>2. /\ LP!Current(w) = L!Current(w) /\ LP!LastIndex(w) = L!LastIndex(w)
        /\ LP!DependenciesCompleted(w) <=> L!DependenciesCompleted(w)
    BY SameCurrent
  <2> QED
    BY <2>1, <2>2 DEF LP!EventsGuard, L!EventsGuard
<1>3. \A row : LP!ReconciliationsGuard(row) <=> L!ReconciliationsGuard(row)
  BY SameHolds DEF LP!ReconciliationsGuard, L!ReconciliationsGuard
<1>4. \A row : LP!RetriesGuard(row) <=> L!RetriesGuard(row)
  BY SameHolds, SameCurrent DEF LP!RetriesGuard, L!RetriesGuard
<1>5. \A e : LP!Insert(e) <=> L!Insert(e)
  BY <1>2 DEF LP!Insert, L!Insert
<1> QED
  BY <1>1, <1>2, <1>3, <1>4, <1>5

LEMMA SameTransactions ==
    /\ \A w, q : LP!Reserve(w, q) <=> L!Reserve(w, q)
    /\ \A w, s : LP!Skip(w, s) <=> L!Skip(w, s)
    /\ \A a : LP!Start(a) <=> L!Start(a)
    /\ \A a : LP!Complete(a) <=> L!Complete(a)
    /\ \A a, r : LP!RecordResult(a, r) <=> L!RecordResult(a, r)
    /\ \A a, s : LP!Fail(a, s) <=> L!Fail(a, s)
    /\ LP!Recover <=> L!Recover
    /\ \A a, k : LP!AuthorizeUnsentRetry(a, k) <=> L!AuthorizeUnsentRetry(a, k)
    /\ \A a, r, k : LP!ReconcileResult(a, r, k) <=> L!ReconcileResult(a, r, k)
<1>1. \A w, q : LP!Reserve(w, q) <=> L!Reserve(w, q)
  BY SameCurrent, SameRows, SameGuards
     DEF LP!Reserve, L!Reserve, LP!CanReserve, L!CanReserve, LP!Admits, L!Admits
<1>2. \A w, s : LP!Skip(w, s) <=> L!Skip(w, s)
  BY SameCurrent, SameRows, SameGuards DEF LP!Skip, L!Skip
<1>3. \A a : LP!Start(a) <=> L!Start(a)
  BY SameHolds, SameRows, SameGuards DEF LP!Start, L!Start
<1>4. \A a : LP!Complete(a) <=> L!Complete(a)
  BY SameHolds, SameCurrent, SameGuards DEF LP!Complete, L!Complete
<1>5. \A a, r : LP!RecordResult(a, r) <=> L!RecordResult(a, r)
  BY SameHolds, SameCurrent, SameRows, SameGuards DEF LP!RecordResult, L!RecordResult
<1>6. \A a, s : LP!Fail(a, s) <=> L!Fail(a, s)
  BY SameHolds, SameCurrent, SameRows, SameGuards DEF LP!Fail, L!Fail
<1>7. LP!Recover <=> L!Recover
  <2>1. \A S : LP!SequenceOps!SetToSeqs(S) = L!SequenceOps!SetToSeqs(S)
    BY DEF LP!SequenceOps!SetToSeqs, L!SequenceOps!SetToSeqs,
           LP!SequenceOps!Cardinality, L!SequenceOps!Cardinality
  <2>2. \A s : LP!InState(s) = L!InState(s)
    BY SameCurrent DEF LP!InState, L!InState
  <2>3. \A w : LP!Follow(LP!Current(w), "uncertain", Null)
                 = L!Follow(L!Current(w), "uncertain", Null)
    BY SameCurrent, SameRows
  <2>4. \A w : LP!EventsGuard(LP!Follow(LP!Current(w), "uncertain", Null),
                              attempts, reconciliations, retries, version)
               <=> L!EventsGuard(L!Follow(L!Current(w), "uncertain", Null),
                                 attempts, reconciliations, retries, version)
    BY <2>3, SameGuards
  <2> QED
    BY <2>1, <2>2, <2>3, <2>4 DEF LP!Recover, L!Recover
<1>8. \A a, k : LP!AuthorizeUnsentRetry(a, k) <=> L!AuthorizeUnsentRetry(a, k)
  BY SameHolds, SameCurrent, SameRows, SameGuards
     DEF LP!AuthorizeUnsentRetry, L!AuthorizeUnsentRetry, LP!CanRetry, L!CanRetry,
         LP!RetryVersion, L!RetryVersion
<1>9. \A a, r, k : LP!ReconcileResult(a, r, k) <=> L!ReconcileResult(a, r, k)
  <2>1. LP!ReconcileVersion = L!ReconcileVersion
    BY DEF LP!ReconcileVersion, L!ReconcileVersion
  <2>2. \A a : LP!CanReconcile(a) <=> L!CanReconcile(a)
    BY SameHolds DEF LP!CanReconcile, L!CanReconcile
  <2> QED
    BY <2>1, <2>2, SameCurrent, SameRows, SameGuards
       DEF LP!ReconcileResult, L!ReconcileResult
<1> QED
  BY <1>1, <1>2, <1>3, <1>4, <1>5, <1>6, <1>7, <1>8, <1>9

LEMMA SameLedger ==
    /\ LP!Init <=> L!Init
    /\ LP!Next <=> L!Next
    /\ LP!vars = L!vars
<1>1. LP!Init <=> L!Init
  BY DEF LP!Init, L!Init, LP!Unattempted, L!Unattempted
<1>2. LP!Next <=> L!Next
  BY SameTransactions DEF LP!Next, L!Next
<1> QED
  BY <1>1, <1>2 DEF LP!vars, L!vars

-----------------------------------------------------------------------------
(* What a transaction does to the current rows and to the other tables *)

(* Event e of item w is the only one that is appended. *)
Appended(w, e) ==
    /\ w \in Work /\ e.work = w
    /\ events' = Append(events, e)
    /\ L!Current(w)' = e
    /\ \A v \in Work \ {w} : L!Current(v)' = L!Current(v)

(* The item of attempt a moves from state s to state t with result r. *)
Moved(a, s, t, r) ==
    /\ a \in 1..Len(attempts)
    /\ L!Current(attempts[a].work).attempt = a
    /\ L!Current(attempts[a].work).state = s
    /\ \E e \in LP!Events : /\ Appended(attempts[a].work, e)
                           /\ e.state = t /\ e.attempt = a /\ e.result = r
                           /\ e.request = L!Current(attempts[a].work).request

LEMMA SameMoved ==
    ASSUME NEW a, NEW s, NEW t, NEW r, LP!Moved(a, s, t, r)
    PROVE  Moved(a, s, t, r)
<1>1. ASSUME NEW w, NEW e, LP!Only(w, e)
      PROVE  Appended(w, e)
  BY <1>1, SameCurrent, SameCurrentNext DEF LP!Only, Appended
<1> QED
  BY <1>1, SameCurrent DEF LP!Moved, Moved

LEMMA LedgerStep ==
    ASSUME LP!RInv, [L!Next]_(L!vars)
    PROVE  LP!RInv' /\ LP!IInv /\ LP!IInv'
<1>1. [LP!Next]_(LP!vars)
  BY SameLedger DEF LP!vars, L!vars
<1>2. LP!RInv'
  BY <1>1, PlanHolds, LP!RankedStepOrStutter
<1> QED
  BY <1>2 DEF LP!RInv

LEMMA ReserveEffect ==
    ASSUME LP!RInv, NEW w \in Work, NEW q \in Envelopes, L!Reserve(w, q)
    PROVE  /\ L!Next /\ LP!RInv'
           /\ L!Current(w).state = "planned" /\ L!DependenciesCompleted(w)
           /\ \E e \in LP!Events : /\ Appended(w, e) /\ e.state = "reserved"
                                  /\ e.attempt = Len(attempts) + 1
                                  /\ e.request = q /\ e.result = Null
           /\ attempts' = Append(attempts, [work |-> w, request |-> q])
           /\ UNCHANGED <<reconciliations, retries, version>>
<1>1. L!Next
  BY DEF L!Next
<1>2. LP!RInv' /\ LP!IInv /\ LP!IInv'
  BY <1>1, LedgerStep
<1>3. LP!Reserve(w, q)
  BY SameTransactions
<1>4. /\ LP!Current(w).state = "planned" /\ LP!DependenciesCompleted(w)
      /\ \E e \in LP!Events : /\ LP!Only(w, e) /\ e.state = "reserved"
                             /\ e.attempt = Len(attempts) + 1
                             /\ e.request = q /\ e.result = Null
      /\ attempts' = Append(attempts, [work |-> w, request |-> q])
      /\ UNCHANGED <<reconciliations, retries, version>>
  BY <1>2, <1>3, PlanHolds, LP!ReserveMoves
<1> QED
  BY <1>1, <1>2, <1>4, SameCurrent, SameCurrentNext DEF LP!Only, Appended

LEMMA SkipEffect ==
    ASSUME LP!RInv, NEW w \in Work, NEW s \in {"unavailable", "blocked"}, L!Skip(w, s)
    PROVE  /\ L!Next /\ LP!RInv'
           /\ L!Current(w).state = "planned"
           /\ \E e \in LP!Events : /\ Appended(w, e) /\ e.state = s /\ e.attempt = 0
                                  /\ e.request = Null /\ e.result = Null
           /\ UNCHANGED <<attempts, reconciliations, retries, version>>
<1>1. L!Next
  BY DEF L!Next
<1>2. LP!RInv' /\ LP!IInv /\ LP!IInv'
  BY <1>1, LedgerStep
<1>3. LP!Skip(w, s)
  BY SameTransactions
<1>4. /\ LP!Current(w).state = "planned"
      /\ \E e \in LP!Events : /\ LP!Only(w, e) /\ e.state = s /\ e.attempt = 0
                             /\ e.request = Null /\ e.result = Null
      /\ UNCHANGED <<attempts, reconciliations, retries, version>>
  BY <1>2, <1>3, PlanHolds, LP!SkipMoves
<1> QED
  BY <1>1, <1>2, <1>4, SameCurrent, SameCurrentNext DEF LP!Only, Appended

LEMMA StartEffect ==
    ASSUME LP!RInv, NEW a, L!Start(a)
    PROVE  /\ L!Next /\ LP!RInv'
           /\ Moved(a, "reserved", "in_flight", Null)
           /\ UNCHANGED <<attempts, reconciliations, retries, version>>
<1>1. L!Next
  BY DEF L!Next, L!Start, L!Holds
<1>2. LP!RInv' /\ LP!IInv /\ LP!IInv'
  BY <1>1, LedgerStep
<1>3. LP!Start(a) /\ UNCHANGED <<attempts, reconciliations, retries, version>>
  BY SameTransactions DEF L!Start, L!Insert
<1> QED
  BY <1>1, <1>2, <1>3, PlanHolds, LP!StartMoves, SameMoved

LEMMA CompleteEffect ==
    ASSUME LP!RInv, NEW a, L!Complete(a)
    PROVE  /\ L!Next /\ LP!RInv'
           /\ Moved(a, "result_saved", "completed", L!Current(attempts[a].work).result)
           /\ UNCHANGED <<attempts, reconciliations, retries, version>>
<1>1. L!Next
  BY DEF L!Next, L!Complete, L!Holds
<1>2. LP!RInv' /\ LP!IInv /\ LP!IInv'
  BY <1>1, LedgerStep
<1>3. LP!Complete(a) /\ UNCHANGED <<attempts, reconciliations, retries, version>>
  BY SameTransactions DEF L!Complete, L!Insert
<1>4. LP!Moved(a, "result_saved", "completed", LP!Current(attempts[a].work).result)
  BY <1>2, <1>3, PlanHolds, LP!CompleteMoves
<1> QED
  BY <1>1, <1>2, <1>3, <1>4, SameCurrent, SameMoved

LEMMA RecordResultEffect ==
    ASSUME LP!RInv, NEW a, NEW r \in Results, L!RecordResult(a, r)
    PROVE  /\ L!Next /\ LP!RInv'
           /\ Moved(a, "in_flight", "result_saved", r)
           /\ UNCHANGED <<attempts, reconciliations, retries, version>>
<1>1. L!Next
  BY DEF L!Next, L!RecordResult, L!Holds
<1>2. LP!RInv' /\ LP!IInv /\ LP!IInv'
  BY <1>1, LedgerStep
<1>3. LP!RecordResult(a, r) /\ UNCHANGED <<attempts, reconciliations, retries, version>>
  BY SameTransactions DEF L!RecordResult, L!Insert
<1> QED
  BY <1>1, <1>2, <1>3, PlanHolds, LP!RecordResultMoves, SameMoved

LEMMA FailEffect ==
    ASSUME LP!RInv, NEW a, NEW s, L!Fail(a, s)
    PROVE  /\ L!Next /\ LP!RInv'
           /\ s \in {"failed", "limited"}
           /\ Moved(a, "in_flight", s, Null)
           /\ UNCHANGED <<attempts, reconciliations, retries, version>>
<1>1. L!Next
  BY DEF L!Next, L!Fail, L!Holds
<1>2. LP!RInv' /\ LP!IInv /\ LP!IInv'
  BY <1>1, LedgerStep
<1>3. LP!Fail(a, s) /\ UNCHANGED <<attempts, reconciliations, retries, version>>
  BY SameTransactions DEF L!Fail, L!Insert
<1> QED
  BY <1>1, <1>2, <1>3, PlanHolds, LP!FailMoves, SameMoved

LEMMA RetryEffect ==
    ASSUME LP!RInv, NEW a, NEW k \in Natives, L!AuthorizeUnsentRetry(a, k)
    PROVE  /\ L!Next /\ LP!RInv'
           /\ Moved(a, "uncertain", "reserved", Null)
           /\ \A row \in retries : row.attempt # a
           /\ retries' = retries \cup {L!RetryRow(a, k)}
           /\ UNCHANGED <<attempts, reconciliations>>
<1>1. L!Next
  BY DEF L!Next, L!AuthorizeUnsentRetry, L!CanRetry, L!Holds
<1>2. LP!RInv' /\ LP!IInv /\ LP!IInv'
  BY <1>1, LedgerStep
<1>3. LP!AuthorizeUnsentRetry(a, k)
  BY SameTransactions
<1>4. /\ LP!Moved(a, "uncertain", "reserved", Null)
      /\ \A row \in retries : row.attempt # a
      /\ retries' = retries \cup {LP!RetryRow(a, k)}
      /\ UNCHANGED <<attempts, reconciliations>>
  BY <1>2, <1>3, PlanHolds, LP!RetryMoves
<1> QED
  BY <1>1, <1>2, <1>4, SameRows, SameMoved

LEMMA ReconcileEffect ==
    ASSUME LP!RInv, NEW a, NEW r \in Results, NEW k \in Natives, L!ReconcileResult(a, r, k)
    PROVE  /\ L!Next /\ LP!RInv'
           /\ Moved(a, "uncertain", "result_saved", r)
           /\ \A row \in reconciliations : row.attempt # a
           /\ reconciliations' = reconciliations \cup {L!ReconciliationRow(a, r, k)}
           /\ UNCHANGED <<attempts, retries>>
<1>1. L!Next
  BY DEF L!Next, L!ReconcileResult, L!CanReconcile, L!Holds
<1>2. LP!RInv' /\ LP!IInv /\ LP!IInv'
  BY <1>1, LedgerStep
<1>3. LP!ReconcileResult(a, r, k)
  BY SameTransactions
<1>4. /\ LP!Moved(a, "uncertain", "result_saved", r)
      /\ \A row \in reconciliations : row.attempt # a
      /\ reconciliations' = reconciliations \cup {LP!ReconciliationRow(a, r, k)}
      /\ UNCHANGED <<attempts, retries>>
  BY <1>2, <1>3, PlanHolds, LP!ReconcileMoves
<1> QED
  BY <1>1, <1>2, <1>4, SameRows, SameMoved

(* Everything in flight becomes uncertain, and nothing else changes. *)
Interrupted ==
    /\ \A i \in 1..Len(events') : \/ i \in 1..Len(events) /\ events'[i] = events[i]
                                 \/ events'[i].state = "uncertain"
    /\ \A w \in Work : L!Current(w).state # "in_flight" => L!Current(w)' = L!Current(w)
    /\ \A w \in Work : L!Current(w).state = "in_flight" =>
          \E e \in LP!Events : /\ L!Current(w)' = e
                             /\ e.work = w /\ e.state = "uncertain" /\ e.result = Null
                             /\ e.attempt = L!Current(w).attempt
                             /\ e.request = L!Current(w).request

LEMMA RecoverEffect ==
    ASSUME LP!RInv, L!Recover
    PROVE  /\ L!Next /\ LP!RInv'
           /\ Interrupted
           /\ UNCHANGED <<attempts, reconciliations, retries, version>>
<1>1. L!Next
  BY DEF L!Next
<1>2. LP!RInv' /\ LP!IInv /\ LP!IInv'
  BY <1>1, LedgerStep
<1>3. LP!Recover
  BY SameTransactions
<1>4. /\ LP!Extension
      /\ \A i \in LP!Added : events'[i].state = "uncertain"
      /\ \A w \in Work : LP!Current(w).state # "in_flight" => LP!Current(w)' = LP!Current(w)
      /\ \A w \in Work : LP!Current(w).state = "in_flight" =>
            \E e \in LP!Events : /\ LP!Current(w)' = e
                               /\ e.work = w /\ e.state = "uncertain" /\ e.result = Null
                               /\ e.attempt = LP!Current(w).attempt
                               /\ e.request = LP!Current(w).request
      /\ UNCHANGED <<attempts, reconciliations, retries, version>>
  BY <1>2, <1>3, PlanHolds, LP!RecoverMoves
<1>5. \A i \in 1..Len(events') : \/ i \in 1..Len(events) /\ events'[i] = events[i]
                                \/ events'[i].state = "uncertain"
  <2>1. Len(events) \in Nat /\ Len(events') \in Nat
    BY <1>2 DEF LP!IInv, LP!TypeOK
  <2> QED
    BY <1>4, <2>1 DEF LP!Extension, LP!Added
<1> QED
  BY <1>1, <1>2, <1>4, <1>5, SameCurrent, SameCurrentNext DEF Interrupted

-----------------------------------------------------------------------------
(* What a run directory holds between any two steps *)

Unsent == {"planned", "unavailable", "blocked"}
Answered == {"result_saved", "completed"}

(* Which columns of a current row are filled. *)
RowShape(w) ==
    LET c == L!Current(w) IN
    /\ c.attempt = 0 <=> c.state \in Unsent
    /\ c.attempt = 0 <=> c.request = Null
    /\ c.result # Null <=> c.state \in Answered

(* The request on record is stored, and it is still the prompt of the item. *)
PromptStands(w) ==
    LET c == L!Current(w) IN
    c.attempt # 0 =>
        /\ c.request \in objects
        /\ Envelope(w, c.request.external) = c.request
        /\ L!DependenciesCompleted(w)

AnswerStored(w) == L!Current(w).result # Null => L!Current(w).result \in objects

SentAfterStart(w) ==
    received[w] # 0 => L!Current(w).state \notin {"planned", "reserved"}

(* A try that has not started has no receipt file yet. *)
FreshTry(w) == L!Current(w).state = "reserved" => Files(Slot(L!Current(w).attempt)) = {}

ClosedByReceipt(w) ==
    L!Current(w).state \in {"failed", "limited"} =>
        \E f \in Files(Slot(L!Current(w).attempt)) : f.native # Null

ItemOK(w) ==
    /\ RowShape(w) /\ PromptStands(w) /\ AnswerStored(w)
    /\ SentAfterStart(w) /\ FreshTry(w) /\ ClosedByReceipt(w)

Items == \A w \in Work : ItemOK(w)

(* A receipt file belongs to a try that was made, and there is one for each. *)
(* What was written to it names the request and is stored.                  *)
FileOK(f) ==
    /\ f.slot[2] => Retried(f.slot[1])
    /\ f.native # Null => /\ f.native \in objects
                         /\ f.native.request = attempts[f.slot[1]].request
    /\ \A g \in receipts : g.slot = f.slot => g = f

FilesSound ==
    /\ receipts \subseteq [slot : (1..Len(attempts)) \X BOOLEAN, native : Natives \cup {Null}]
    /\ \A f \in receipts : FileOK(f)

(* The receipt that an operator's command was based on stays.               *)
RetriedByReceipt ==
    \A row \in retries : [slot |-> <<row.attempt, FALSE>>, native |-> row.receipt] \in receipts

ReconciledBy(row) ==
    LET c == L!Current(attempts[row.attempt].work) IN
    /\ row.attempt \in 1..Len(attempts)
    /\ c.state \in Answered
    /\ c.result = row.result
    /\ row.receipt.result = row.result
    /\ [slot |-> Slot(row.attempt), native |-> row.receipt] \in receipts

ReconciledByReceipt == \A row \in reconciliations : ReconciledBy(row)

(* The shared reservation of an attempt. *)
Funded(a, q) == Shared!Row(OwnCall(a, q)) \in reservations

FundedSends ==
    Campaigned => \A i \in 1..Len(events) : events[i].state = "in_flight" =>
                     Funded(events[i].attempt, events[i].request)

Durable ==
    /\ Items /\ received \in [Work -> 0..1]
    /\ FilesSound /\ RetriedByReceipt /\ ReconciledByReceipt
    /\ tracking = FALSE /\ FundedSends

-----------------------------------------------------------------------------
(* Rows *)

LEMMA RowFacts ==
    ASSUME LP!RInv, NEW w \in Work
    PROVE  /\ L!Current(w) \in LP!Events
           /\ L!Current(w).work = w
           /\ L!Current(w).request \in Envelopes \cup {Null}
           /\ L!Current(w).result \in Results \cup {Null}
           /\ L!Current(w).attempt # 0 =>
                 /\ L!Current(w).attempt \in 1..Len(attempts)
                 /\ attempts[L!Current(w).attempt] =
                        [work |-> w, request |-> L!Current(w).request]
<1>1. LP!IInv /\ LP!TypeOK /\ LP!Present
  BY DEF LP!RInv, LP!IInv
<1>2. LP!Current(w) \in LP!Events /\ LP!Current(w).work = w
  BY <1>1, PlanHolds, LP!CurrentIsLast
<1>3. LP!Current(w).attempt # 0 =>
         /\ LP!Current(w).attempt \in 1..Len(attempts)
         /\ attempts[LP!Current(w).attempt] = [work |-> w, request |-> LP!Current(w).request]
  BY <1>1, PlanHolds, LP!CurrentAttempted
<1> QED
  BY <1>2, <1>3, SameCurrent DEF LP!Events

LEMMA HeldFacts ==
    ASSUME LP!RInv, NEW a, NEW s, L!Holds(a, s)
    PROVE  /\ a \in 1..Len(attempts) /\ a # 0
           /\ attempts[a].work \in Work
           /\ L!Current(attempts[a].work).attempt = a
           /\ L!Current(attempts[a].work).state = s
           /\ attempts[a].request = L!Current(attempts[a].work).request
           /\ attempts[a].request \in Envelopes
<1>1. LP!IInv
  BY DEF LP!RInv
<1>2. a \in 1..Len(attempts) /\ L!Current(attempts[a].work).attempt = a
      /\ L!Current(attempts[a].work).state = s
  BY DEF L!Holds, L!State
<1>3. attempts[a] \in LP!Attempts /\ a # 0
  BY <1>1, <1>2 DEF LP!IInv, LP!TypeOK
<1>4. attempts[a].work \in Work /\ attempts[a].request \in Envelopes
  BY <1>3 DEF LP!Attempts
<1>5. attempts[a].request = L!Current(attempts[a].work).request
  <2>1. PICK w \in Work : w = attempts[a].work
    BY <1>4
  <2>2. L!Current(w).attempt = a
    BY <1>2, <2>1
  <2>3. attempts[a] = [work |-> w, request |-> L!Current(w).request]
    BY <1>3, <2>2, RowFacts
  <2> QED
    BY <2>1, <2>3
<1> QED
  BY <1>2, <1>3, <1>4, <1>5

(* No attempt but one is an item's. *)
LEMMA OneAttemptEach ==
    ASSUME LP!RInv, NEW a \in 1..Len(attempts), NEW b \in 1..Len(attempts),
           attempts[a].work = attempts[b].work
    PROVE  a = b
<1>1. LP!IInv
  BY DEF LP!RInv
<1> QED
  BY <1>1, PlanHolds, LP!OneAttempt

LEMMA AttemptsTyped ==
    ASSUME LP!RInv
    PROVE  /\ Len(attempts) \in Nat
           /\ \A a \in 1..Len(attempts) :
                 attempts[a].work \in Work /\ attempts[a].request \in Envelopes
           /\ \A row \in retries : row \in LP!Retries /\ row.attempt \in 1..Len(attempts)
           /\ \A row \in reconciliations : row \in LP!Reconciliations
           /\ \A i \in 1..Len(events) : events[i] \in LP!Events
<1>1. LP!TypeOK /\ LP!RetriesAttempted
  BY DEF LP!RInv, LP!IInv
<1>2. \A a \in 1..Len(attempts) : attempts[a] \in LP!Attempts
  BY <1>1 DEF LP!TypeOK
<1> QED
  BY <1>1, <1>2 DEF LP!TypeOK, LP!RetriesAttempted, LP!Attempts

(* What has completed stays, so that prompts built on it do. *)
CompletedKept ==
    \A d \in Work : L!Current(d).state = "completed" => L!Current(d)' = L!Current(d)

LEMMA EnvelopeKept ==
    ASSUME CompletedKept, NEW w \in Work, L!DependenciesCompleted(w), NEW x
    PROVE  /\ L!DependenciesCompleted(w)'
           /\ Envelope(w, x)' = Envelope(w, x)
<1>1. ASSUME NEW d \in Deps[w]
      PROVE  L!Current(d)' = L!Current(d) /\ L!Current(d).state = "completed"
  <2>1. d \in Work
    BY RunAssumption
  <2> QED
    BY <2>1 DEF CompletedKept, L!DependenciesCompleted, L!State
<1> QED
  BY <1>1 DEF Envelope, L!DependenciesCompleted, L!State

(* An item that a step leaves alone. *)
LEMMA ItemKept ==
    ASSUME LP!RInv, CompletedKept, NEW w \in Work, ItemOK(w),
           L!Current(w)' = L!Current(w), objects \subseteq objects',
           received'[w] = received[w],
           L!Current(w).attempt # 0 =>
               Files(Slot(L!Current(w).attempt))' = Files(Slot(L!Current(w).attempt))
    PROVE  ItemOK(w)'
<1>1. PICK c \in LP!Events : c = L!Current(w) /\ c = L!Current(w)'
  BY RowFacts
<1>2. c.attempt # 0 => Files(Slot(c.attempt))' = Files(Slot(c.attempt))
  BY <1>1
<1>3. RowShape(w)'
  BY <1>1 DEF ItemOK, RowShape
<1>4. PromptStands(w)'
  <2> SUFFICES ASSUME c.attempt # 0
               PROVE  /\ c.request \in objects'
                      /\ Envelope(w, c.request.external)' = c.request
                      /\ L!DependenciesCompleted(w)'
    BY <1>1 DEF PromptStands
  <2>1. PICK x : x = c.request.external
    OBVIOUS
  <2>2. c.request \in objects /\ Envelope(w, x) = c.request /\ L!DependenciesCompleted(w)
    BY <1>1, <2>1 DEF ItemOK, PromptStands
  <2>3. Envelope(w, x)' = c.request /\ L!DependenciesCompleted(w)'
    BY <2>2, EnvelopeKept
  <2> QED
    BY <2>1, <2>2, <2>3
<1>5. AnswerStored(w)' /\ SentAfterStart(w)'
  BY <1>1 DEF ItemOK, AnswerStored, SentAfterStart
<1>6. c.state \in {"reserved", "failed", "limited"} => c.attempt # 0
  BY <1>1 DEF ItemOK, RowShape, Unsent
<1>7. FreshTry(w)'
  BY <1>1, <1>2, <1>6 DEF ItemOK, FreshTry
<1>8. ClosedByReceipt(w)'
  BY <1>1, <1>2, <1>6 DEF ItemOK, ClosedByReceipt
<1> QED
  BY <1>3, <1>4, <1>5, <1>7, <1>8 DEF ItemOK

(* Everything but the moved item stays. *)
LEMMA MovedKeepsCompleted ==
    ASSUME LP!RInv, NEW a, NEW s, NEW t, NEW r, Moved(a, s, t, r), s # "completed"
    PROVE  CompletedKept
<1>1. PICK w : w = attempts[a].work
  OBVIOUS
<1>2. /\ L!Current(w).state = s
      /\ \A v \in Work \ {w} : L!Current(v)' = L!Current(v)
  BY <1>1 DEF Moved, Appended
<1> QED
  BY <1>2 DEF CompletedKept

LEMMA FilesKept ==
    ASSUME FilesSound, receipts' = receipts, objects \subseteq objects',
           retries \subseteq retries', Len(attempts) \in Nat, Len(attempts') \in Nat,
           Len(attempts) <= Len(attempts'),
           \A a \in 1..Len(attempts) : attempts'[a] = attempts[a]
    PROVE  FilesSound'
<1>1. receipts' \subseteq [slot : (1..Len(attempts')) \X BOOLEAN, native : Natives \cup {Null}]
  BY DEF FilesSound
<1>2. ASSUME NEW f \in receipts
      PROVE  FileOK(f)'
  <2>1. FileOK(f) /\ f.slot \in (1..Len(attempts)) \X BOOLEAN
    BY <1>2 DEF FilesSound
  <2>2. f.slot[1] \in 1..Len(attempts)
    BY <2>1
  <2> QED
    BY <2>1, <2>2 DEF FileOK, Retried
<1> QED
  BY <1>1, <1>2 DEF FilesSound

(* An attempt's file of the try that is current, before and after. *)
LEMMA SameFiles ==
    ASSUME receipts' = receipts, NEW a, Retried(a)' <=> Retried(a)
    PROVE  Slot(a)' = Slot(a) /\ Files(Slot(a))' = Files(Slot(a))
<1>1. Slot(a)' = Slot(a)
  BY DEF Slot, Retried
<1> QED
  BY <1>1 DEF Files

LEMMA MovedItems ==
    ASSUME LP!RInv, Items, NEW a, NEW s, NEW t, NEW r, Moved(a, s, t, r),
           s # "completed", t \notin Unsent,
           attempts' = attempts, receipts' = receipts, received' = received,
           objects \subseteq objects',
           \A b \in 1..Len(attempts) : b # a => (Retried(b)' <=> Retried(b)),
           r # Null <=> t \in Answered,
           r # Null => r \in objects',
           t = "reserved" => received[attempts[a].work] = 0 /\ Files(Slot(a))' = {},
           t \in {"failed", "limited"} => \E f \in Files(Slot(a))' : f.native # Null
    PROVE  Items'
<1>1. PICK w : w = attempts[a].work
  OBVIOUS
<1>2. PICK e \in LP!Events :
         /\ Appended(w, e)
         /\ e.state = t /\ e.attempt = a /\ e.result = r
         /\ e.request = L!Current(w).request
  BY <1>1 DEF Moved
<1>3. /\ w \in Work /\ L!Current(w)' = e
      /\ \A v \in Work \ {w} : L!Current(v)' = L!Current(v)
  BY <1>2 DEF Appended
<1>4. CompletedKept
  BY MovedKeepsCompleted
<1>5. a \in 1..Len(attempts) /\ L!Current(w).attempt = a
  BY <1>1 DEF Moved
<1>6. a # 0
  BY <1>5, AttemptsTyped
<1>7. ASSUME NEW v \in Work, v # w
      PROVE  ItemOK(v)'
  <2>1. ItemOK(v) /\ L!Current(v)' = L!Current(v)
    BY <1>3, <1>7 DEF Items
  <2>2. PICK b : b = L!Current(v).attempt
    OBVIOUS
  <2>3. b # 0 => Files(Slot(b))' = Files(Slot(b))
    <3> SUFFICES ASSUME b # 0
                 PROVE  Files(Slot(b))' = Files(Slot(b))
      OBVIOUS
    <3>1. b \in 1..Len(attempts) /\ attempts[b].work = v
      <4>1. L!Current(v).attempt # 0
        BY <2>2
      <4>2. /\ L!Current(v).attempt \in 1..Len(attempts)
            /\ attempts[L!Current(v).attempt] = [work |-> v, request |-> L!Current(v).request]
        BY <1>7, <4>1, RowFacts
      <4> QED
        BY <2>2, <4>2
    <3>2. b # a
      BY <1>1, <1>7, <3>1
    <3> QED
      BY <3>1, <3>2, SameFiles
  <2> QED
    BY <1>4, <2>1, <2>2, <2>3, ItemKept
<1>8. ItemOK(w)'
  <2>1. RowShape(w) /\ PromptStands(w) /\ SentAfterStart(w)
    BY <1>3 DEF Items, ItemOK
  <2>2. e.request # Null
    BY <1>2, <1>5, <1>6, <2>1 DEF RowShape
  <2>3. RowShape(w)'
    BY <1>2, <1>3, <1>6, <2>2 DEF RowShape
  <2>4. PromptStands(w)'
    <3>1. PICK q, x : q = e.request /\ x = q.external
      OBVIOUS
    <3>2. q \in objects /\ Envelope(w, x) = q /\ L!DependenciesCompleted(w)
      BY <1>2, <1>5, <1>6, <2>1, <3>1 DEF PromptStands
    <3>3. Envelope(w, x)' = q /\ L!DependenciesCompleted(w)'
      BY <1>3, <1>4, <3>2, EnvelopeKept
    <3> QED
      BY <1>3, <3>1, <3>2, <3>3 DEF PromptStands
  <2>5. AnswerStored(w)'
    BY <1>2, <1>3 DEF AnswerStored
  <2>6. SentAfterStart(w)'
    BY <1>1, <1>2, <1>3, <2>1 DEF SentAfterStart, Unsent
  <2>7. FreshTry(w)' /\ ClosedByReceipt(w)'
    BY <1>2, <1>3 DEF FreshTry, ClosedByReceipt
  <2> QED
    BY <2>3, <2>4, <2>5, <2>6, <2>7 DEF ItemOK
<1> QED
  BY <1>7, <1>8 DEF Items

(* An answer on record stays the answer. *)
AnswersStay ==
    \A w \in Work : L!Current(w).state \in Answered =>
        L!Current(w)'.state \in Answered /\ L!Current(w)'.result = L!Current(w).result

LEMMA ReconciledKept ==
    ASSUME LP!RInv, ReconciledByReceipt, AnswersStay, receipts' = receipts,
           Len(attempts) \in Nat, Len(attempts') \in Nat, Len(attempts) <= Len(attempts'),
           \A a \in 1..Len(attempts) : attempts'[a] = attempts[a],
           \A row \in reconciliations : Retried(row.attempt)' <=> Retried(row.attempt)
    PROVE  \A row \in reconciliations : ReconciledBy(row)'
<1> SUFFICES ASSUME NEW row \in reconciliations
             PROVE  ReconciledBy(row)'
  OBVIOUS
<1>1. ReconciledBy(row)
  BY DEF ReconciledByReceipt
<1>2. PICK a : a = row.attempt
  OBVIOUS
<1>3. a \in 1..Len(attempts) /\ a \in 1..Len(attempts') /\ attempts'[a] = attempts[a]
  BY <1>1, <1>2 DEF ReconciledBy
<1>4. PICK w \in Work : w = attempts[a].work
  BY <1>3, AttemptsTyped
<1>5. L!Current(w)'.state \in Answered /\ L!Current(w)'.result = L!Current(w).result
  BY <1>1, <1>2, <1>4 DEF AnswersStay, ReconciledBy
<1>6. Slot(a)' = Slot(a)
  BY <1>2, SameFiles
<1>7. attempts'[a].work = w
  BY <1>3, <1>4
<1> QED
  BY <1>1, <1>2, <1>3, <1>4, <1>5, <1>6, <1>7 DEF ReconciledBy

(* The campaign's rows stay, and a send is funded when it is written. *)
LEMMA FundedStays ==
    ASSUME tracking' = tracking, reservations \subseteq reservations',
           NEW a, NEW q, Funded(a, q)
    PROVE  Funded(a, q)'
<1>1. Shared!Row(OwnCall(a, q))' = Shared!Row(OwnCall(a, q))
  BY DEF Shared!Row, Shared!Units, Shared!RoundedUp, OwnCall
<1> QED
  BY <1>1 DEF Funded

LEMMA FundsKept ==
    ASSUME FundedSends, tracking' = tracking, reservations \subseteq reservations',
           \A i \in 1..Len(events') :
               \/ i \in 1..Len(events) /\ events'[i] = events[i]
               \/ events'[i].state # "in_flight"
               \/ Campaigned => Funded(events'[i].attempt, events'[i].request)
    PROVE  FundedSends'
<1> SUFFICES ASSUME Campaigned, NEW i \in 1..Len(events'), events'[i].state = "in_flight"
             PROVE  Funded(events[i].attempt, events[i].request)'
  BY DEF FundedSends
<1>1. PICK a, q : a = events'[i].attempt /\ q = events'[i].request
  OBVIOUS
<1>2. Funded(a, q)
  BY <1>1 DEF FundedSends
<1>3. Funded(a, q)'
  BY <1>2, FundedStays
<1> QED
  BY <1>1, <1>3 DEF Funded

(* A step that touches neither the ledger nor the receipts. *)
LEMMA QuietStep ==
    ASSUME LP!RInv, Durable, UNCHANGED <<ledgerVars, tracking, receipts, received>>,
           objects \subseteq objects', reservations \subseteq reservations'
    PROVE  Durable' /\ LP!RInv' /\ UNCHANGED L!vars
<1>1. /\ events' = events /\ attempts' = attempts /\ retries' = retries
      /\ reconciliations' = reconciliations /\ version' = version
      /\ receipts' = receipts /\ received' = received /\ tracking' = tracking
  BY DEF ledgerVars
<1>2. UNCHANGED L!vars
  BY <1>1 DEF L!vars
<1>3. LP!RInv'
  BY <1>2, LedgerStep
<1>4. \A w : L!Current(w)' = L!Current(w)
  BY <1>1 DEF L!Current, L!LastIndex, L!IsLast
<1>5. \A a : Retried(a)' <=> Retried(a)
  BY <1>1 DEF Retried
<1>6. Items'
  <2>1. CompletedKept
    BY <1>4 DEF CompletedKept
  <2>2. ASSUME NEW w \in Work
        PROVE  ItemOK(w)'
    <3>1. PICK b : b = L!Current(w).attempt
      OBVIOUS
    <3>2. Files(Slot(b))' = Files(Slot(b))
      BY <1>1, <1>5, SameFiles
    <3>3. ItemOK(w)
      BY DEF Durable, Items
    <3> QED
      BY <1>1, <1>4, <2>1, <3>1, <3>2, <3>3, ItemKept
  <2> QED
    BY <2>2 DEF Items
<1>7. FilesSound'
  <2>1. Len(attempts) \in Nat
    BY AttemptsTyped
  <2> QED
    BY <1>1, <2>1, FilesKept DEF Durable
<1>8. RetriedByReceipt'
  BY <1>1 DEF Durable, RetriedByReceipt
<1>9. ReconciledByReceipt'
  <2>1. AnswersStay /\ Len(attempts) \in Nat
    BY <1>4, AttemptsTyped DEF AnswersStay
  <2>2. \A row \in reconciliations : ReconciledBy(row)'
    BY <1>1, <1>5, <2>1, ReconciledKept DEF Durable
  <2> QED
    BY <1>1, <2>2 DEF ReconciledByReceipt
<1>10. FundedSends'
  BY <1>1, FundsKept DEF Durable
<1> QED
  BY <1>1, <1>2, <1>3, <1>6, <1>7, <1>8, <1>9, <1>10 DEF Durable

(* A step that moves the item of one attempt: everything else stays. *)
LEMMA MovedAnswers ==
    ASSUME NEW a, NEW s, NEW t, NEW r, Moved(a, s, t, r),
           s \in Answered => t \in Answered /\ r = L!Current(attempts[a].work).result
    PROVE  AnswersStay
<1>1. PICK w : w = attempts[a].work
  OBVIOUS
<1>2. PICK e : Appended(w, e) /\ e.state = t /\ e.result = r
  BY <1>1 DEF Moved
<1>3. /\ L!Current(w)' = e /\ L!Current(w).state = s
      /\ \A v \in Work \ {w} : L!Current(v)' = L!Current(v)
  BY <1>1, <1>2 DEF Moved, Appended
<1> QED
  BY <1>1, <1>2, <1>3 DEF AnswersStay

LEMMA MovedFunds ==
    ASSUME LP!RInv, FundedSends, NEW a, NEW s, NEW t, NEW r, Moved(a, s, t, r),
           t = "in_flight" /\ Campaigned => Funded(a, L!Current(attempts[a].work).request),
           tracking' = tracking, reservations' = reservations
    PROVE  FundedSends'
<1>1. PICK w, q : w = attempts[a].work /\ q = L!Current(w).request
  OBVIOUS
<1>2. PICK e \in LP!Events : /\ events' = Append(events, e) /\ e.state = t
                            /\ e.attempt = a /\ e.request = q
  BY <1>1 DEF Moved, Appended
<1>3. events \in Seq(LP!Events)
  BY DEF LP!RInv, LP!IInv, LP!TypeOK
<1>4. ASSUME NEW i \in 1..Len(events')
      PROVE  \/ i \in 1..Len(events) /\ events'[i] = events[i]
             \/ events'[i] = e
  BY <1>2, <1>3
<1>5. e.state = "in_flight" /\ Campaigned => Funded(e.attempt, e.request)
  BY <1>1, <1>2
<1> QED
  BY <1>4, <1>5, FundsKept

LEMMA MovedStep ==
    ASSUME LP!RInv, Durable, NEW a, NEW s, NEW t, NEW r, Moved(a, s, t, r),
           s # "completed", t \notin Unsent \cup {"reserved"},
           s \in Answered => t \in Answered /\ r = L!Current(attempts[a].work).result,
           UNCHANGED <<attempts, retries, receipts, received, tracking, reservations>>,
           objects \subseteq objects',
           r # Null <=> t \in Answered,
           r # Null => r \in objects',
           t \in {"failed", "limited"} => \E f \in Files(Slot(a)) : f.native # Null,
           t = "in_flight" /\ Campaigned => Funded(a, L!Current(attempts[a].work).request),
           \A row \in reconciliations' : row \in reconciliations \/ ReconciledBy(row)'
    PROVE  Durable'
<1>1. \A b : Retried(b)' <=> Retried(b)
  BY DEF Retried
<1>2. Items'
  <2>1. Files(Slot(a))' = Files(Slot(a))
    BY <1>1, SameFiles
  <2> QED
    BY <1>1, <2>1, MovedItems DEF Durable
<1>3. Len(attempts) \in Nat
  BY AttemptsTyped
<1>4. FilesSound'
  BY <1>3, FilesKept DEF Durable
<1>5. RetriedByReceipt'
  BY DEF Durable, RetriedByReceipt
<1>6. ReconciledByReceipt'
  <2>1. AnswersStay
    BY MovedAnswers
  <2>2. \A row \in reconciliations : ReconciledBy(row)'
    BY <1>1, <1>3, <2>1, ReconciledKept DEF Durable
  <2> QED
    BY <2>2 DEF ReconciledByReceipt
<1>7. FundedSends'
  BY MovedFunds DEF Durable
<1> QED
  BY <1>2, <1>4, <1>5, <1>6, <1>7 DEF Durable

(* A new current row for one item: the others keep theirs. *)
LEMMA OthersKept ==
    ASSUME LP!RInv, Items, NEW w, NEW e, Appended(w, e),
           L!Current(w).state # "completed",
           receipts' = receipts, received' = received, objects \subseteq objects',
           retries' = retries
    PROVE  CompletedKept /\ \A v \in Work \ {w} : ItemOK(v)'
<1>1. /\ w \in Work /\ L!Current(w)' = e
      /\ \A v \in Work \ {w} : L!Current(v)' = L!Current(v)
  BY DEF Appended
<1>2. CompletedKept
  BY <1>1 DEF CompletedKept
<1>3. ASSUME NEW v \in Work \ {w}
      PROVE  ItemOK(v)'
  <2>1. ItemOK(v) /\ L!Current(v)' = L!Current(v)
    BY <1>1 DEF Items
  <2>2. PICK b : b = L!Current(v).attempt
    OBVIOUS
  <2>3. Files(Slot(b))' = Files(Slot(b))
    BY SameFiles DEF Retried
  <2> QED
    BY <1>2, <2>1, <2>2, <2>3, ItemKept
<1> QED
  BY <1>2, <1>3

(* Such a step with nothing in flight, and attempts that at most grow. *)
LEMMA AppendedStep ==
    ASSUME LP!RInv, LP!RInv', Durable, NEW w, NEW e, Appended(w, e), ItemOK(w)',
           L!Current(w).state \in Unsent, e.state # "in_flight",
           Len(attempts) <= Len(attempts'),
           \A a \in 1..Len(attempts) : attempts'[a] = attempts[a],
           UNCHANGED <<campaignVars, objects, receipts, received, retries, reconciliations>>
    PROVE  Durable'
<1>1. Len(attempts) \in Nat /\ Len(attempts') \in Nat
  BY DEF LP!RInv, LP!IInv, LP!TypeOK
<1>2. Items'
  BY OthersKept DEF Durable, Items, Unsent
<1>3. FilesSound'
  BY <1>1, FilesKept DEF Durable
<1>4. RetriedByReceipt'
  BY DEF Durable, RetriedByReceipt
<1>5. ReconciledByReceipt'
  <2>1. AnswersStay
    BY DEF Appended, AnswersStay, Unsent, Answered
  <2>2. \A row \in reconciliations : ReconciledBy(row)'
    BY <1>1, <2>1, ReconciledKept DEF Durable, Retried
  <2> QED
    BY <2>2 DEF ReconciledByReceipt
<1>6. FundedSends'
  <2>1. events \in Seq(LP!Events)
    BY DEF LP!RInv, LP!IInv, LP!TypeOK
  <2>2. events' = Append(events, e)
    BY DEF Appended
  <2>3. \A i \in 1..Len(events') : \/ i \in 1..Len(events) /\ events'[i] = events[i]
                                   \/ events'[i] = e
    BY <2>1, <2>2
  <2> QED
    BY <2>3, FundsKept DEF Durable, campaignVars
<1> QED
  BY <1>2, <1>3, <1>4, <1>5, <1>6 DEF Durable, campaignVars

-----------------------------------------------------------------------------
(* Where a process may be *)

Preparing == {"admit", "fund", "start"}
Waiting == {"send", "wait", "answered", "saved"}
Settling == {"receipt", "settle"}
Places == {"idle", "loop", "complete", "finish"} \cup Preparing \cup Waiting \cup Settling

Outcomes == Successes \cup Natives

Locals ==
    [pc : Places, at : Nat, steps : Nat, input : Externals \cup {Null},
     request : Envelopes \cup {Null}, outcome : Outcomes \cup {Null}]

(* What it has prepared, sent or been answered so far for item w. *)
PreparedFor(r, w) ==
    LET c == L!Current(w) IN
    /\ r.pc = "admit" =>
          /\ r.request \in objects
          /\ Envelope(w, r.request.external) = r.request
          /\ L!DependenciesCompleted(w)
          /\ c.state = "planned" \/ (c.state = "reserved" /\ c.request = r.request)
    /\ r.pc \in {"fund", "start"} => c.state = "reserved" /\ c.request = r.request
    /\ r.pc = "start" /\ Campaigned => Funded(c.attempt, r.request)

SentFor(r, w) ==
    LET c == L!Current(w) IN
    /\ r.pc \in Waiting \cup Settling => c.state = "in_flight" /\ c.request = r.request
    /\ r.pc \in Waiting => Files(Slot(c.attempt)) = {}
    /\ r.pc = "send" => received[w] = 0
    /\ r.pc \in {"answered", "saved"} \cup Settling =>
          r.outcome \in Outcomes /\ (r.outcome \in Natives => r.outcome.request = r.request)
    /\ r.pc \in {"saved"} \cup Settling => Stored(r.outcome) \in objects
    /\ r.pc \in Settling => r.outcome.status # "success"
    /\ r.pc = "settle" => [slot |-> Slot(c.attempt), native |-> r.outcome] \in receipts
    /\ r.pc \in {"complete", "finish"} => c.state = "result_saved"

PlaceOK(r) ==
    /\ r.pc \notin {"idle", "loop"} => r.at \in 1..Len(Plan)
    /\ r.pc = "loop" => r.at # 0
    /\ r.pc \in Preparing \cup Waiting \cup Settling => r.request \in Envelopes
    /\ PreparedFor(r, Plan[r.at]) /\ SentFor(r, Plan[r.at])

(* One process at a time, and only with the lock. *)
Running ==
    /\ proc \in [Procs -> Locals]
    /\ \A p \in Procs : (proc[p].pc # "idle" => lock = p) /\ PlaceOK(proc[p])

IInv == LP!RInv /\ Durable /\ Running

(* What every step is shown to keep. *)
StepKeeps == [L!Next]_(L!vars) /\ LP!RInv' /\ Durable'

LEMMA RestingPlace ==
    ASSUME NEW r, r.pc \in {"idle", "loop"}, r.pc = "loop" => r.at # 0
    PROVE  PlaceOK(r) /\ PlaceOK(r)'
BY DEF PlaceOK, PreparedFor, SentFor, Preparing, Waiting, Settling

(* Only the process that holds the lock moves. *)
LEMMA OneMoves ==
    ASSUME Running, NEW p \in Procs, proc[p].pc # "idle" \/ lock = Null,
           NEW r \in Locals, proc' = [proc EXCEPT ![p] = r],
           r.pc # "idle" => lock' = p, PlaceOK(r)'
    PROVE  Running'
<1>1. proc' \in [Procs -> Locals] /\ proc'[p] = r
  BY DEF Running
<1>2. ASSUME NEW q \in Procs, q # p
      PROVE  proc'[q].pc = "idle" /\ PlaceOK(proc[q])'
  <2>1. PICK s : s = proc[q] /\ s = proc'[q]
    BY <1>2 DEF Running
  <2>2. s.pc = "idle"
    BY <1>2, <2>1, NullAssumption DEF Running
  <2>3. PlaceOK(s)'
    BY <2>2, RestingPlace
  <2> QED
    BY <2>1, <2>2, <2>3
<1>3. PlaceOK(proc[p])'
  BY <1>1
<1> QED
  BY <1>1, <1>2, <1>3 DEF Running

LEMMA NextItemRuns ==
    ASSUME Running, NEW p \in Procs, proc[p].pc # "idle", NEW n \in Nat, NextItem(p, n),
           lock' = lock
    PROVE  Running'
<1>1. proc[p] \in Locals /\ lock = p
  BY DEF Running
<1>2. PICK r : r = [proc[p] EXCEPT !.pc = "loop", !.at = @ + 1, !.steps = @ + n,
                                   !.request = Null, !.outcome = Null]
  OBVIOUS
<1>3. r \in Locals /\ r.pc = "loop" /\ r.at # 0
  <2>1. PICK l \in Locals : l = proc[p]
    BY <1>1
  <2>2. r = [l EXCEPT !.pc = "loop", !.at = l.at + 1, !.steps = l.steps + n,
                      !.request = Null, !.outcome = Null]
    BY <1>2, <2>1
  <2>3. l.at + 1 \in Nat /\ l.at + 1 # 0 /\ l.steps + n \in Nat
    BY DEF Locals
  <2> QED
    BY <2>2, <2>3 DEF Locals, Places
<1>4. proc' = [proc EXCEPT ![p] = r]
  BY <1>2 DEF NextItem, Running
<1>5. PlaceOK(r)'
  BY <1>3, RestingPlace
<1> QED
  BY <1>1, <1>3, <1>4, <1>5, OneMoves

LEMMA LeaveRuns ==
    ASSUME Running, NEW p \in Procs, proc[p].pc # "idle", Leave(p)
    PROVE  Running'
<1>1. Idle \in Locals /\ Idle.pc = "idle"
  BY DEF Idle, Locals, Places
<1>2. PlaceOK(Idle)'
  <2>1. PICK r : r = Idle
    OBVIOUS
  <2> QED
    BY <1>1, <2>1, RestingPlace
<1> QED
  BY <1>1, <1>2, OneMoves DEF Leave

LEMMA GotoRuns ==
    ASSUME Running, NEW p \in Procs, proc[p].pc # "idle", NEW pc \in Places, Goto(p, pc),
           lock' = lock, NEW r, r = [proc[p] EXCEPT !.pc = pc], PlaceOK(r)'
    PROVE  Running'
<1>1. proc[p] \in Locals /\ lock = p
  BY DEF Running
<1>2. r \in Locals
  BY <1>1 DEF Locals
<1>3. proc' = [proc EXCEPT ![p] = r]
  BY DEF Goto, Running
<1> QED
  BY <1>1, <1>2, <1>3, OneMoves

LEMMA ItemsOfPlan ==
    ASSUME Running, NEW p \in Procs,
           (proc[p].pc \notin {"idle", "loop"}) \/ AtItem(p)
    PROVE  Item(p) \in Work /\ proc[p] \in Locals
<1>1. proc[p] \in Locals /\ PlaceOK(proc[p])
  BY DEF Running
<1>2. proc[p].at \in 1..Len(Plan)
  <2>1. proc[p].at \in Nat /\ Len(Plan) \in Nat
    BY <1>1, RunAssumption DEF Locals
  <2> QED
    BY <1>1, <2>1 DEF PlaceOK, AtItem
<1> QED
  BY <1>1, <1>2, RunAssumption DEF Item

(* What a process sees of a ledger that a step leaves alone. *)
LEMMA SameView ==
    ASSUME UNCHANGED ledgerVars
    PROVE  /\ \A w : L!Current(w)' = L!Current(w)
           /\ \A w : L!DependenciesCompleted(w)' <=> L!DependenciesCompleted(w)
           /\ \A w, x : Envelope(w, x)' = Envelope(w, x)
           /\ \A a : Slot(a)' = Slot(a)
<1>1. \A w : L!Current(w)' = L!Current(w)
  BY DEF ledgerVars, L!Current, L!LastIndex, L!IsLast
<1>2. \A w : L!DependenciesCompleted(w)' <=> L!DependenciesCompleted(w)
  BY <1>1 DEF L!DependenciesCompleted, L!State
<1>3. \A w, x : Envelope(w, x)' = Envelope(w, x)
  BY <1>1 DEF Envelope
<1>4. \A a : Slot(a)' = Slot(a)
  BY DEF ledgerVars, Slot, Retried
<1> QED
  BY <1>1, <1>2, <1>3, <1>4

-----------------------------------------------------------------------------
(* The loop of _drive *)

Keeps == IInv' /\ [L!Next]_(L!vars)

LEMMA PassKeeps ==
    ASSUME IInv, NEW p \in Procs, Pass(p)
    PROVE  Keeps
<1>1. Durable' /\ LP!RInv' /\ UNCHANGED L!vars
  BY QuietStep DEF IInv, Pass, campaignVars
<1>2. Running'
  BY NextItemRuns DEF IInv, Pass, AtItem
<1> QED
  BY <1>1, <1>2 DEF IInv, Keeps

(* A command that leaves with nothing but its lock changed. *)
LEMMA LeavingKeeps ==
    ASSUME IInv, NEW p \in Procs, proc[p].pc # "idle", Leave(p),
           UNCHANGED <<ledgerVars, campaignVars, objects, receipts, received>>
    PROVE  Keeps
<1>1. Durable' /\ LP!RInv' /\ UNCHANGED L!vars
  BY QuietStep DEF IInv, campaignVars
<1>2. Running'
  BY LeaveRuns DEF IInv
<1> QED
  BY <1>1, <1>2 DEF IInv, Keeps

LEMMA StopKeeps ==
    ASSUME IInv, NEW p \in Procs, Stop(p) \/ NotAdmitted(p) \/ Unfunded(p) \/ Dies(p)
    PROVE  Keeps
<1>1. CASE Stop(p)
  BY <1>1, LeavingKeeps DEF Stop, Open, Unblocked, Known, Unstopped, AtItem
<1>2. CASE NotAdmitted(p)
  BY <1>2, LeavingKeeps DEF NotAdmitted
<1>3. CASE Unfunded(p)
  BY <1>3, LeavingKeeps DEF Unfunded
<1>4. CASE Dies(p)
  BY <1>4, LeavingKeeps DEF Dies
<1> QED
  BY <1>1, <1>2, <1>3, <1>4

LEMMA EnvelopeFields ==
    ASSUME NEW q \in Envelopes, NEW w, NEW x, Envelope(w, x) = q
    PROVE  /\ q.external = x
           /\ w \in Revisions => x \in Externals
           /\ w \notin Revisions => x = Null
<1>1. q.external = x /\ q.work = w
  BY DEF Envelope
<1> QED
  BY <1>1 DEF Envelopes

LEMMA EnvelopeTyped ==
    ASSUME LP!RInv, Items, NEW w \in Work, L!DependenciesCompleted(w), NEW x,
           w \in Revisions => x \in Externals, w \notin Revisions => x = Null
    PROVE  Envelope(w, x) \in Envelopes
<1>1. ASSUME NEW d \in Deps[w]
      PROVE  L!Current(d).result \in Results
  <2>1. d \in Work
    BY RunAssumption
  <2>2. L!Current(d).state = "completed" /\ RowShape(d)
    BY <2>1 DEF L!DependenciesCompleted, L!State, Items, ItemOK
  <2>3. L!Current(d).result # Null
    BY <2>2 DEF RowShape, Answered
  <2> QED
    BY <2>1, <2>3, RowFacts
<1>2. PICK f : f = [d \in Deps[w] |-> L!Current(d).result]
  OBVIOUS
<1>3. f \in [Deps[w] -> Results]
  BY <1>1, <1>2
<1>4. Envelope(w, x) = [work |-> w, parents |-> f, external |-> x]
  BY <1>2 DEF Envelope
<1> QED
  BY <1>3, <1>4 DEF Envelopes

LEMMA PutRequestKeeps ==
    ASSUME IInv, NEW p \in Procs, PutRequest(p)
    PROVE  Keeps
<1>1. Durable' /\ LP!RInv' /\ UNCHANGED L!vars
  BY QuietStep DEF IInv, PutRequest, campaignVars
<1>2. /\ AtItem(p) /\ Unblocked(p) /\ ~Waits(p)
      /\ L!State(Item(p)) \in {"planned", "reserved"}
  BY DEF PutRequest, Unblocked, Known, Unstopped, Open
<1>3. PICK w \in Work, l \in Locals : w = Item(p) /\ l = proc[p]
  BY <1>2, ItemsOfPlan DEF IInv
<1>4. PICK x, q : x = ReviewInput(p) /\ q = Envelope(w, x)
  OBVIOUS
<1>5. PICK c : c = L!Current(w)
  OBVIOUS
<1>6. L!DependenciesCompleted(w) /\ c.state \in {"planned", "reserved"}
  BY <1>2, <1>3, <1>5 DEF Unblocked, L!State
<1>7. /\ w \notin Revisions => x = Null
      /\ w \in Revisions /\ c.request # Null => x = c.request.external
      /\ w \in Revisions /\ c.request = Null => x = l.input
      /\ w \in Revisions => x # Null
  <2>1. w \notin Revisions => x = Null
    BY <1>3, <1>4 DEF ReviewInput
  <2>2. w \in Revisions /\ c.request # Null => x = c.request.external
    BY <1>3, <1>4, <1>5 DEF ReviewInput
  <2>3. w \in Revisions /\ c.request = Null => x = l.input
    BY <1>3, <1>4, <1>5 DEF ReviewInput
  <2>4. w \in Revisions => x # Null
    BY <1>2, <1>3, <1>4 DEF Waits
  <2> QED
    BY <2>1, <2>2, <2>3, <2>4
<1>8. /\ RowShape(w) /\ PromptStands(w)
  BY DEF IInv, Durable, Items, ItemOK
<1>9. c.request # Null => /\ c.request \in Envelopes
                         /\ Envelope(w, c.request.external) = c.request
  BY <1>5, <1>8, RowFacts DEF RowShape, PromptStands, IInv
<1>10. w \in Revisions => x \in Externals
  <2>1. c.request # Null /\ w \in Revisions => c.request.external \in Externals
    BY <1>9, EnvelopeFields
  <2> QED
    BY <1>7, <2>1 DEF Locals
<1>11. q \in Envelopes
  BY <1>4, <1>6, <1>7, <1>10, EnvelopeTyped DEF IInv, Durable
<1>12. c.state = "reserved" => c.request = q
  <2>1. c.state = "reserved" => c.request # Null
    BY <1>5, <1>8 DEF RowShape, Unsent
  <2>2. c.request # Null /\ w \notin Revisions => c.request.external = Null
    BY <1>9, EnvelopeFields
  <2> QED
    BY <1>4, <1>7, <1>9, <2>1, <2>2
<1>13. PICK r : r = [l EXCEPT !.pc = "admit", !.request = q]
  OBVIOUS
<1>14. r \in Locals /\ r.pc = "admit" /\ r.request = q /\ r.at = l.at
  BY <1>11, <1>13 DEF Locals, Places, Preparing
<1>15. proc' = [proc EXCEPT ![p] = r] /\ objects' = objects \cup {q} /\ lock' = lock
       /\ UNCHANGED ledgerVars
  BY <1>3, <1>4, <1>13 DEF PutRequest, IInv, Running
<1>16. proc[p].pc # "idle" /\ lock = p /\ w = Plan[r.at] /\ r.at \in 1..Len(Plan)
  BY <1>2, <1>3, <1>14, RunAssumption DEF AtItem, Item, IInv, Running, PlaceOK, Locals
<1>17. PlaceOK(r)'
  <2>1. PreparedFor(r, w)'
    <3>1. /\ L!Current(w)' = c /\ L!DependenciesCompleted(w)'
          /\ Envelope(w, q.external)' = Envelope(w, q.external)
      BY <1>5, <1>6, <1>15, SameView
    <3>2. Envelope(w, q.external) = q
      BY <1>4, <1>11, EnvelopeFields
    <3> QED
      BY <1>6, <1>12, <1>14, <1>15, <3>1, <3>2 DEF PreparedFor
  <2>2. SentFor(r, w)'
    BY <1>14 DEF SentFor, Waiting, Settling
  <2> QED
    BY <1>11, <1>14, <1>16, <2>1, <2>2 DEF PlaceOK
<1>18. Running'
  BY <1>14, <1>15, <1>16, <1>17, OneMoves DEF IInv
<1> QED
  BY <1>1, <1>18 DEF IInv, Keeps

(* The attempt that a process works on is its item's. *)
LEMMA AttemptHeld ==
    ASSUME LP!RInv, NEW w \in Work, NEW s, L!Holds(L!Current(w).attempt, s)
    PROVE  /\ attempts[L!Current(w).attempt].work = w
           /\ L!Current(w).state = s
           /\ L!Current(w).attempt # 0
<1>1. PICK a : a = L!Current(w).attempt
  OBVIOUS
<1>2. a \in 1..Len(attempts) /\ a # 0
  BY <1>1, HeldFacts
<1>3. attempts[a] = [work |-> w, request |-> L!Current(w).request]
  BY <1>1, <1>2, RowFacts
<1>4. attempts[a].work = w
  BY <1>3
<1> QED
  BY <1>1, <1>2, <1>4 DEF L!Holds, L!State

LEMMA CompletionKeeps ==
    ASSUME LP!RInv, Durable, NEW a, L!Complete(a),
           UNCHANGED <<campaignVars, objects, receipts, received>>
    PROVE  LP!RInv' /\ Durable' /\ [L!Next]_(L!vars)
<1>1. PICK r : r = L!Current(attempts[a].work).result
  OBVIOUS
<1>2. /\ L!Next /\ LP!RInv'
      /\ Moved(a, "result_saved", "completed", r)
      /\ UNCHANGED <<attempts, reconciliations, retries, version>>
  BY <1>1, CompleteEffect
<1>3. PICK w \in Work : w = attempts[a].work
  BY <1>2, AttemptsTyped DEF Moved
<1>4. r # Null /\ r \in objects
  <2>1. L!Current(w).state = "result_saved" /\ RowShape(w) /\ AnswerStored(w)
    BY <1>2, <1>3 DEF Moved, Durable, Items, ItemOK
  <2> QED
    BY <1>1, <1>3, <2>1 DEF RowShape, AnswerStored, Answered
<1>5. Durable'
  BY <1>1, <1>2, <1>4, MovedStep DEF campaignVars, Answered, Unsent
<1> QED
  BY <1>2, <1>5

LEMMA CompleteKeeps ==
    ASSUME IInv, NEW p \in Procs, CompleteSaved(p) \/ CompleteItem(p) \/ FinishReconciled(p)
    PROVE  Keeps
<1>1. LP!RInv' /\ Durable' /\ [L!Next]_(L!vars)
  BY CompletionKeeps DEF IInv, CompleteSaved, CompleteItem, FinishReconciled, campaignVars
<1>2. Running'
  <2>1. CASE CompleteSaved(p)
    BY <2>1, NextItemRuns DEF IInv, CompleteSaved, AtItem
  <2>2. CASE CompleteItem(p)
    BY <2>2, NextItemRuns DEF IInv, CompleteItem
  <2>3. CASE FinishReconciled(p)
    BY <2>3, LeaveRuns DEF IInv, FinishReconciled
  <2> QED
    BY <2>1, <2>2, <2>3
<1> QED
  BY <1>1, <1>2 DEF IInv, Keeps

-----------------------------------------------------------------------------
(* From the admission to the answer *)

Working == Preparing \cup Waiting \cup Settling

LEMMA Worker ==
    ASSUME IInv, NEW p \in Procs, proc[p].pc \in Working
    PROVE  \E l \in Locals, w \in Work :
              /\ l = proc[p] /\ w = Item(p) /\ w = Plan[l.at]
              /\ l.at \in 1..Len(Plan) /\ l.request \in Envelopes
              /\ PreparedFor(l, w) /\ SentFor(l, w) /\ ItemOK(w)
<1>1. PICK l \in Locals : l = proc[p] /\ PlaceOK(l)
  BY DEF IInv, Running
<1>2. l.pc \in Working /\ l.pc \notin {"idle", "loop"}
  BY <1>1 DEF Working, Preparing, Waiting, Settling
<1>3. PICK w \in Work : w = Item(p)
  BY <1>1, <1>2, ItemsOfPlan DEF IInv
<1>4. w = Plan[l.at]
  BY <1>1, <1>3 DEF Item
<1>5. l.at \in 1..Len(Plan) /\ l.request \in Envelopes
  BY <1>1, <1>2 DEF PlaceOK, Working
<1>6. PreparedFor(l, w) /\ SentFor(l, w)
  BY <1>1, <1>4 DEF PlaceOK
<1>7. ItemOK(w)
  BY DEF IInv, Durable, Items
<1> QED
  BY <1>1, <1>3, <1>4, <1>5, <1>6, <1>7

LEMMA GoesOn ==
    ASSUME IInv, NEW p \in Procs, NEW l \in Locals, l = proc[p], l.pc \in Working,
           l.at \in 1..Len(Plan), l.request \in Envelopes,
           NEW pc \in Working \cup {"complete"}, Goto(p, pc), lock' = lock,
           NEW r, r = [l EXCEPT !.pc = pc],
           PreparedFor(r, Plan[l.at])', SentFor(r, Plan[l.at])'
    PROVE  Running'
<1>1. r.at = l.at /\ r.request = l.request /\ r.pc = pc
  BY DEF Locals
<1>2. pc \in Places /\ l.pc # "idle"
  BY DEF Places, Working, Preparing, Waiting, Settling
<1>3. PlaceOK(r)'
  <2>1. r.pc # "loop"
    BY <1>1 DEF Working, Preparing, Waiting, Settling
  <2> QED
    BY <1>1, <2>1 DEF PlaceOK
<1> QED
  BY <1>2, <1>3, GotoRuns DEF IInv

LEMMA ReuseReservationKeeps ==
    ASSUME IInv, NEW p \in Procs, ReuseReservation(p)
    PROVE  Keeps
<1>1. Durable' /\ LP!RInv' /\ UNCHANGED L!vars
  BY QuietStep DEF IInv, ReuseReservation, campaignVars
<1>2. PICK l \in Locals, w \in Work :
         /\ l = proc[p] /\ w = Item(p) /\ w = Plan[l.at]
         /\ l.at \in 1..Len(Plan) /\ l.request \in Envelopes
  BY Worker DEF ReuseReservation, Working, Preparing
<1>3. PICK r, pc : pc = Admitted /\ r = [l EXCEPT !.pc = pc]
  OBVIOUS
<1>4. /\ r.pc = pc /\ r.request = l.request
      /\ pc \in {"fund", "start"} /\ (pc = "start" => ~Campaigned)
  BY <1>3 DEF Admitted, Locals
<1>5. L!Current(w)' = L!Current(w) /\ L!Current(w).state = "reserved"
      /\ L!Current(w).request = l.request
  BY <1>2, SameView DEF ReuseReservation, L!State
<1>6. PreparedFor(r, w)' /\ SentFor(r, w)'
  BY <1>4, <1>5 DEF PreparedFor, SentFor, Waiting, Settling
<1>7. Goto(p, pc) /\ lock' = lock /\ l.pc \in Working /\ pc \in Working
  BY <1>2, <1>3, <1>4 DEF ReuseReservation, Working, Preparing
<1>8. Running'
  BY <1>2, <1>3, <1>6, <1>7, GoesOn
<1> QED
  BY <1>1, <1>8 DEF IInv, Keeps

LEMMA StartLocallyKeeps ==
    ASSUME IInv, NEW p \in Procs, StartLocally(p)
    PROVE  Keeps
<1>1. PICK l \in Locals, w \in Work :
         /\ l = proc[p] /\ w = Item(p) /\ w = Plan[l.at]
         /\ l.at \in 1..Len(Plan) /\ l.request \in Envelopes
         /\ PreparedFor(l, w) /\ ItemOK(w)
  BY Worker DEF StartLocally, Working, Preparing
<1>2. PICK a : a = L!Current(w).attempt
  OBVIOUS
<1>3. L!Start(a) /\ l.pc = "start"
  BY <1>1, <1>2 DEF StartLocally, AttemptAt, AttemptOf
<1>4. /\ L!Next /\ LP!RInv' /\ Moved(a, "reserved", "in_flight", Null)
      /\ UNCHANGED <<attempts, reconciliations, retries, version>>
  BY <1>3, StartEffect DEF IInv
<1>5. attempts[a].work = w /\ L!Current(w).state = "reserved"
  BY <1>2, <1>3, AttemptHeld DEF IInv, L!Start
<1>6. L!Current(w).request = l.request /\ (Campaigned => Funded(a, l.request))
  BY <1>1, <1>2, <1>3 DEF PreparedFor
<1>7. UNCHANGED <<tracking, reservations, objects, receipts, received, lock>>
  BY DEF StartLocally, campaignVars
<1>8. Durable'
  BY <1>4, <1>5, <1>6, <1>7, MovedStep DEF IInv, Answered, Unsent
<1>9. PICK r : r = [l EXCEPT !.pc = "send"]
  OBVIOUS
<1>10. r.pc = "send" /\ r.request = l.request
  BY <1>9 DEF Locals
<1>11. PICK e : L!Current(w)' = e /\ e.state = "in_flight" /\ e.request = l.request
               /\ e.attempt = a
  BY <1>4, <1>5, <1>6 DEF Moved, Appended
<1>12. Files(Slot(a))' = {} /\ received'[w] = 0
  <2>1. Files(Slot(a)) = {} /\ received[w] = 0
    BY <1>1, <1>2, <1>5 DEF ItemOK, FreshTry, SentAfterStart
  <2>2. Files(Slot(a))' = Files(Slot(a))
    BY <1>4, <1>7, SameFiles DEF Retried
  <2> QED
    BY <1>7, <2>1, <2>2
<1>13. PreparedFor(r, w)' /\ SentFor(r, w)'
  BY <1>10, <1>11, <1>12 DEF PreparedFor, SentFor, Waiting, Settling
<1>14. Goto(p, "send") /\ l.pc \in Working /\ "send" \in Working
  BY <1>3 DEF StartLocally, Working, Preparing, Waiting
<1>15. Running'
  BY <1>1, <1>7, <1>9, <1>13, <1>14, GoesOn
<1> QED
  BY <1>4, <1>8, <1>15 DEF IInv, Keeps

LEMMA FundKeeps ==
    ASSUME IInv, NEW p \in Procs, Fund(p)
    PROVE  Keeps
<1>1. PICK l \in Locals, w \in Work :
         /\ l = proc[p] /\ w = Item(p) /\ w = Plan[l.at]
         /\ l.at \in 1..Len(Plan) /\ l.request \in Envelopes /\ PreparedFor(l, w)
  BY Worker DEF Fund, Working, Preparing
<1>2. PICK a, q : a = L!Current(w).attempt /\ q = l.request
  OBVIOUS
<1>3. Shared!Reserve(OwnCall(a, q)) /\ l.pc = "fund"
  BY <1>1, <1>2 DEF Fund, AttemptAt, AttemptOf
<1>4. UNCHANGED <<ledgerVars, objects, receipts, lock, received>>
  BY DEF Fund
<1>5. tracking' = tracking /\ reservations \subseteq reservations' /\ Funded(a, q)'
  <2>1. Shared!Row(OwnCall(a, q)) \in reservations'
    BY <1>3 DEF Shared!Reserve, Shared!CanReserve, Shared!SameBinding
  <2>2. tracking' = tracking /\ reservations \subseteq reservations'
    BY <1>3 DEF Shared!Reserve
  <2>3. Shared!Row(OwnCall(a, q))' = Shared!Row(OwnCall(a, q))
    BY <2>2 DEF Shared!Row, Shared!Units, Shared!RoundedUp, OwnCall
  <2> QED
    BY <2>1, <2>2, <2>3 DEF Funded
<1>6. Durable' /\ LP!RInv' /\ UNCHANGED L!vars
  BY <1>4, <1>5, QuietStep DEF IInv
<1>7. PICK r : r = [l EXCEPT !.pc = "start"]
  OBVIOUS
<1>8. r.pc = "start" /\ r.request = q
  BY <1>2, <1>7 DEF Locals
<1>9. L!Current(w)' = L!Current(w)
  BY <1>4, SameView
<1>10. PreparedFor(r, w)'
  <2>1. L!Current(w).state = "reserved" /\ L!Current(w).request = q
    BY <1>1, <1>2, <1>3 DEF PreparedFor
  <2>2. PICK c : c = L!Current(w) /\ c = L!Current(w)'
    BY <1>9
  <2> QED
    BY <1>2, <1>5, <1>8, <2>1, <2>2 DEF PreparedFor
<1>11. SentFor(r, w)'
  BY <1>8 DEF SentFor, Waiting, Settling
<1>12. Goto(p, "start") /\ l.pc \in Working /\ "start" \in Working
  BY <1>3 DEF Fund, Working, Preparing
<1>13. Running'
  BY <1>1, <1>4, <1>7, <1>10, <1>11, <1>12, GoesOn
<1> QED
  BY <1>6, <1>13 DEF IInv, Keeps

LEMMA ReachesKeeps ==
    ASSUME IInv, NEW p \in Procs, Reaches(p)
    PROVE  Keeps
<1>1. PICK l \in Locals, w \in Work :
         /\ l = proc[p] /\ w = Item(p) /\ w = Plan[l.at]
         /\ l.at \in 1..Len(Plan) /\ l.request \in Envelopes /\ SentFor(l, w)
  BY Worker DEF Reaches, Working, Waiting
<1>2. /\ l.pc = "send" /\ received' = [received EXCEPT ![w] = @ + 1]
      /\ UNCHANGED <<ledgerVars, campaignVars, objects, receipts, lock>>
  BY <1>1 DEF Reaches
<1>3. /\ L!Current(w).state = "in_flight" /\ L!Current(w).request = l.request
      /\ Files(Slot(L!Current(w).attempt)) = {} /\ received[w] = 0
  BY <1>1, <1>2 DEF SentFor, Waiting
<1>4. received \in [Work -> 0..1]
  BY DEF IInv, Durable
<1>5. received' \in [Work -> 0..1] /\ \A v \in Work \ {w} : received'[v] = received[v]
  BY <1>2, <1>3, <1>4
<1>6. UNCHANGED L!vars
  BY <1>2 DEF L!vars, ledgerVars
<1>7. LP!RInv'
  BY <1>6, LedgerStep DEF IInv
<1>8. /\ \A v : L!Current(v)' = L!Current(v)
      /\ \A a : Slot(a)' = Slot(a)
  BY <1>2, SameView
<1>9. \A a : Files(Slot(a))' = Files(Slot(a))
  BY <1>2, <1>8 DEF Files
<1>10. \A v \in Work : /\ ItemOK(v)
                        /\ RowShape(v)' /\ PromptStands(v)' /\ AnswerStored(v)'
                        /\ FreshTry(v)' /\ ClosedByReceipt(v)'
  <2> TAKE v \in Work
  <2>1. ItemOK(v)
    BY DEF IInv, Durable, Items
  <2>2. PICK c : c = L!Current(v) /\ c = L!Current(v)'
    BY <1>8
  <2>3. RowShape(v)' /\ AnswerStored(v)'
    BY <1>2, <2>1, <2>2 DEF ItemOK, RowShape, AnswerStored
  <2>4. PromptStands(v)'
    <3>1. /\ L!DependenciesCompleted(v)' <=> L!DependenciesCompleted(v)
          /\ Envelope(v, c.request.external)' = Envelope(v, c.request.external)
      BY <1>2, SameView
    <3> QED
      BY <1>2, <2>1, <2>2, <3>1 DEF ItemOK, PromptStands
  <2>5. Files(Slot(c.attempt))' = Files(Slot(c.attempt))
    BY <1>9
  <2>6. FreshTry(v)' /\ ClosedByReceipt(v)'
    BY <2>1, <2>2, <2>5 DEF ItemOK, FreshTry, ClosedByReceipt
  <2> QED
    BY <2>1, <2>3, <2>4, <2>6
<1>11. \A v \in Work : SentAfterStart(v)'
  <2> TAKE v \in Work
  <2>1. PICK c : c = L!Current(v) /\ c = L!Current(v)'
    BY <1>8
  <2>2. CASE v = w
    BY <1>3, <2>1, <2>2 DEF SentAfterStart
  <2>3. CASE v # w
    BY <1>5, <1>10, <2>1, <2>3 DEF SentAfterStart, ItemOK
  <2> QED
    BY <2>2, <2>3
<1>12. Items'
  BY <1>10, <1>11 DEF Items, ItemOK
<1>13. FilesSound' /\ RetriedByReceipt' /\ ReconciledByReceipt' /\ FundedSends'
  <2>1. /\ events' = events /\ attempts' = attempts /\ retries' = retries
        /\ reconciliations' = reconciliations /\ receipts' = receipts
        /\ objects' = objects /\ tracking' = tracking /\ reservations' = reservations
    BY <1>2 DEF ledgerVars, campaignVars
  <2>2. Len(attempts) \in Nat /\ AnswersStay /\ (\A a : Retried(a)' <=> Retried(a))
    BY <1>8, <2>1, AttemptsTyped DEF IInv, AnswersStay, Retried
  <2>3. FilesSound' /\ RetriedByReceipt'
    <3>1. FilesSound'
      BY <2>1, <2>2, FilesKept DEF IInv, Durable
    <3>2. RetriedByReceipt'
      BY <2>1 DEF IInv, Durable, RetriedByReceipt
    <3> QED
      BY <3>1, <3>2
  <2>4. \A row \in reconciliations : ReconciledBy(row)'
    BY <2>1, <2>2, ReconciledKept DEF IInv, Durable
  <2>5. FundedSends'
    BY <2>1, FundsKept DEF IInv, Durable
  <2> QED
    BY <2>1, <2>3, <2>4, <2>5 DEF ReconciledByReceipt
<1>14. Durable'
  BY <1>2, <1>5, <1>12, <1>13 DEF IInv, Durable, campaignVars
<1>15. PICK r : r = [l EXCEPT !.pc = "wait"]
  OBVIOUS
<1>16. r.pc = "wait" /\ r.request = l.request
  BY <1>15 DEF Locals
<1>17. PreparedFor(r, w)' /\ SentFor(r, w)'
  <2>1. PICK c : c = L!Current(w) /\ c = L!Current(w)'
    BY <1>8
  <2>2. Files(Slot(c.attempt))' = {}
    BY <1>3, <1>9, <2>1
  <2> QED
    BY <1>3, <1>16, <2>1, <2>2 DEF PreparedFor, SentFor, Settling
<1>18. Goto(p, "wait") /\ l.pc \in Working /\ "wait" \in Working
  BY <1>2 DEF Reaches, Working, Waiting
<1>19. Running'
  BY <1>1, <1>2, <1>15, <1>17, <1>18, GoesOn
<1> QED
  BY <1>6, <1>7, <1>14, <1>19 DEF IInv, Keeps

(* The locals after an answer. *)
LEMMA LearnRuns ==
    ASSUME IInv, NEW p \in Procs, NEW l \in Locals, l = proc[p], l.pc \in Waiting,
           l.at \in 1..Len(Plan), l.request \in Envelopes, SentFor(l, Plan[l.at]),
           NEW o \in Outcomes, o \in Natives => o.request = l.request, Learn(p, o),
           UNCHANGED <<ledgerVars, receipts, lock>>
    PROVE  Running'
<1>1. PICK r : r = [l EXCEPT !.pc = "answered", !.outcome = o]
  OBVIOUS
<1>2. /\ r \in Locals /\ r.pc = "answered" /\ r.outcome = o
      /\ r.at = l.at /\ r.request = l.request
  BY <1>1 DEF Locals, Places, Waiting
<1>3. proc' = [proc EXCEPT ![p] = r]
  BY <1>1 DEF Learn, IInv, Running
<1>4. PICK w, c : w = Plan[l.at] /\ c = L!Current(w)
  OBVIOUS
<1>5. /\ c.state = "in_flight" /\ c.request = l.request
      /\ Files(Slot(c.attempt)) = {}
  BY <1>4 DEF SentFor
<1>6. L!Current(w)' = c /\ Files(Slot(c.attempt))' = {}
  <2>1. L!Current(w)' = c /\ Slot(c.attempt)' = Slot(c.attempt)
    BY <1>4, SameView
  <2> QED
    BY <1>5, <2>1 DEF Files
<1>7. SentFor(r, w)'
  BY <1>2, <1>5, <1>6 DEF SentFor, Waiting, Settling
<1>8. PreparedFor(r, w)'
  BY <1>2 DEF PreparedFor
<1>9. PlaceOK(r)'
  BY <1>2, <1>4, <1>7, <1>8 DEF PlaceOK
<1>10. proc[p].pc # "idle" /\ lock' = p
  BY DEF Waiting, IInv, Running
<1> QED
  BY <1>2, <1>3, <1>9, <1>10, OneMoves DEF IInv

LEMMA LearnKeeps ==
    ASSUME IInv, NEW p \in Procs, NeverLeaves(p) \/ Answers(p)
    PROVE  Keeps
<1>1. UNCHANGED <<ledgerVars, campaignVars, objects, receipts, lock, received>>
  BY DEF NeverLeaves, Answers
<1>2. Durable' /\ LP!RInv' /\ UNCHANGED L!vars
  BY <1>1, QuietStep DEF IInv, campaignVars
<1>3. proc[p].pc \in Waiting
  BY DEF NeverLeaves, Answers, Waiting
<1>4. PICK l \in Locals, w \in Work :
         /\ l = proc[p] /\ w = Plan[l.at]
         /\ l.at \in 1..Len(Plan) /\ l.request \in Envelopes /\ SentFor(l, w)
  BY <1>3, Worker DEF Working
<1>5. PICK o : /\ o \in Outcomes /\ (o \in Natives => o.request = l.request)
              /\ Learn(p, o)
  <2>1. CASE NeverLeaves(p)
    <3>1. PICK o : o = [status |-> "unsent", request |-> l.request]
      OBVIOUS
    <3>2. o \in Natives
      BY <1>4, <3>1 DEF Natives
    <3>3. Learn(p, o) /\ o.request = l.request
      BY <1>4, <2>1, <3>1 DEF NeverLeaves
    <3> QED
      BY <3>2, <3>3 DEF Outcomes
  <2>2. CASE Answers(p)
    <3>1. PICK o \in Successes \cup {n \in Natives : n.request = proc[p].request} : Learn(p, o)
      BY <2>2 DEF Answers
    <3>2. ~(o \in Natives /\ o \in Successes)
      BY DEF Natives, Successes
    <3> QED
      BY <1>4, <3>1, <3>2 DEF Outcomes
  <2> QED
    BY <2>1, <2>2
<1>6. Running'
  BY <1>1, <1>3, <1>4, <1>5, LearnRuns
<1> QED
  BY <1>2, <1>6 DEF IInv, Keeps

LEMMA PutResultKeeps ==
    ASSUME IInv, NEW p \in Procs, PutResult(p)
    PROVE  Keeps
<1>1. PICK l \in Locals, w \in Work :
         /\ l = proc[p] /\ w = Plan[l.at]
         /\ l.at \in 1..Len(Plan) /\ l.request \in Envelopes /\ SentFor(l, w)
  BY Worker DEF PutResult, Working, Waiting
<1>2. /\ l.pc = "answered" /\ objects' = objects \cup {Stored(l.outcome)}
      /\ UNCHANGED <<ledgerVars, campaignVars, receipts, lock, received>>
  BY <1>1 DEF PutResult
<1>3. Durable' /\ LP!RInv' /\ UNCHANGED L!vars
  BY <1>2, QuietStep DEF IInv, campaignVars
<1>4. PICK r : r = [l EXCEPT !.pc = "saved"]
  OBVIOUS
<1>5. r.pc = "saved" /\ r.request = l.request /\ r.outcome = l.outcome
  BY <1>4 DEF Locals
<1>6. PICK c : c = L!Current(w) /\ c = L!Current(w)'
  BY <1>2, SameView
<1>7. /\ c.state = "in_flight" /\ c.request = l.request /\ Files(Slot(c.attempt)) = {}
      /\ l.outcome \in Outcomes /\ (l.outcome \in Natives => l.outcome.request = l.request)
  BY <1>1, <1>2, <1>6 DEF SentFor, Waiting
<1>8. Files(Slot(c.attempt))' = {}
  <2>1. Slot(c.attempt)' = Slot(c.attempt)
    BY <1>2, SameView
  <2> QED
    BY <1>2, <1>7, <2>1 DEF Files
<1>9. Stored(r.outcome) \in objects'
  BY <1>2, <1>5
<1>10. PreparedFor(r, w)' /\ SentFor(r, w)'
  <2>1. PreparedFor(r, w)'
    BY <1>5 DEF PreparedFor
  <2>2. Stored(r.outcome)' = Stored(r.outcome)
    BY DEF Stored
  <2>3. SentFor(r, w)'
    BY <1>5, <1>6, <1>7, <1>8, <1>9, <2>2 DEF SentFor, Waiting, Settling
  <2> QED
    BY <2>1, <2>3
<1>11. Goto(p, "saved") /\ l.pc \in Working /\ "saved" \in Working
  BY <1>2 DEF PutResult, Working, Waiting
<1>12. Running'
  BY <1>1, <1>2, <1>4, <1>10, <1>11, GoesOn
<1> QED
  BY <1>3, <1>12 DEF IInv, Keeps

LEMMA SkipItemKeeps ==
    ASSUME IInv, NEW p \in Procs, SkipItem(p)
    PROVE  Keeps
<1>1. AtItem(p)
  BY DEF SkipItem, Unstopped, Known, Open
<1>2. PICK w \in Work : w = Item(p)
  BY <1>1, ItemsOfPlan DEF IInv
<1>3. PICK s \in {"unavailable", "blocked"} : L!Skip(w, s)
  BY <1>2 DEF SkipItem
<1>4. /\ L!Next /\ LP!RInv' /\ L!Current(w).state = "planned"
      /\ UNCHANGED <<attempts, reconciliations, retries, version>>
  BY <1>3, SkipEffect DEF IInv
<1>5. PICK e \in LP!Events : /\ Appended(w, e) /\ e.state = s /\ e.attempt = 0
                            /\ e.request = Null /\ e.result = Null
  BY <1>3, SkipEffect DEF IInv
<1>6. UNCHANGED <<campaignVars, objects, receipts, received, lock>>
  BY DEF SkipItem
<1>7. ItemOK(w)'
  <2>1. L!Current(w)' = e
    BY <1>5 DEF Appended
  <2>2. RowShape(w)' /\ PromptStands(w)' /\ AnswerStored(w)'
    BY <1>5, <2>1 DEF RowShape, PromptStands, AnswerStored, Unsent, Answered
  <2>3. SentAfterStart(w)' /\ FreshTry(w)' /\ ClosedByReceipt(w)'
    BY <1>5, <2>1 DEF SentAfterStart, FreshTry, ClosedByReceipt
  <2> QED
    BY <2>2, <2>3 DEF ItemOK
<1>8. Durable'
  <2>1. Len(attempts) \in Nat
    BY AttemptsTyped DEF IInv
  <2> QED
    BY <1>4, <1>5, <1>6, <1>7, <2>1, AppendedStep DEF IInv, Unsent
<1>9. Running'
  BY <1>1, <1>6, NextItemRuns DEF IInv, SkipItem, AtItem
<1> QED
  BY <1>4, <1>8, <1>9 DEF IInv, Keeps

LEMMA ReserveLocallyKeeps ==
    ASSUME IInv, NEW p \in Procs, ReserveLocally(p)
    PROVE  Keeps
<1>1. PICK l \in Locals, w \in Work :
         /\ l = proc[p] /\ w = Item(p) /\ w = Plan[l.at]
         /\ l.at \in 1..Len(Plan) /\ l.request \in Envelopes
         /\ PreparedFor(l, w) /\ ItemOK(w)
  BY Worker DEF ReserveLocally, Working, Preparing
<1>2. PICK q \in Envelopes : q = l.request
  BY <1>1
<1>3. L!Reserve(w, q) /\ l.pc = "admit" /\ Goto(p, Admitted)
      /\ UNCHANGED <<campaignVars, objects, receipts, lock, received>>
  BY <1>1, <1>2 DEF ReserveLocally
<1>4. /\ L!Next /\ LP!RInv' /\ L!Current(w).state = "planned"
      /\ attempts' = Append(attempts, [work |-> w, request |-> q])
      /\ UNCHANGED <<reconciliations, retries, version>>
  BY <1>3, ReserveEffect DEF IInv
<1>5. PICK e \in LP!Events : /\ Appended(w, e) /\ e.state = "reserved"
                            /\ e.attempt = Len(attempts) + 1
                            /\ e.request = q /\ e.result = Null
  BY <1>3, ReserveEffect DEF IInv
<1>6. PICK n \in Nat : n = Len(attempts)
  BY AttemptsTyped DEF IInv
<1>7. L!Current(w)' = e
  BY <1>5 DEF Appended
<1>8. attempts \in Seq(LP!Attempts)
  BY DEF IInv, LP!RInv, LP!IInv, LP!TypeOK
<1>9. Len(attempts') = n + 1 /\ \A a \in 1..n : attempts'[a] = attempts[a]
  BY <1>4, <1>6, <1>8
<1>10. /\ q \in objects /\ Envelope(w, q.external) = q /\ L!DependenciesCompleted(w)
  BY <1>1, <1>2, <1>3 DEF PreparedFor
<1>11. ItemOK(w)'
  <2>1. RowShape(w)' /\ AnswerStored(w)'
    <3>1. q # Null /\ n + 1 # 0
      BY NullAssumption
    <3> QED
      BY <1>5, <1>6, <1>7, <3>1 DEF RowShape, AnswerStored, Unsent, Answered
  <2>2. PromptStands(w)'
    <3>1. CompletedKept
      BY <1>3, <1>4, <1>5, OthersKept DEF IInv, Durable
    <3>2. PICK x : x = q.external
      OBVIOUS
    <3>3. Envelope(w, x)' = q /\ L!DependenciesCompleted(w)'
      BY <1>10, <3>1, <3>2, EnvelopeKept
    <3> QED
      BY <1>3, <1>5, <1>7, <1>10, <3>2, <3>3 DEF PromptStands
  <2>3. SentAfterStart(w)'
    BY <1>1, <1>3, <1>4, <1>5 DEF ItemOK, SentAfterStart
  <2>4. FreshTry(w)'
    <3>1. PICK k : k = Slot(n + 1)'
      OBVIOUS
    <3>2. k[1] = n + 1
      BY <3>1 DEF Slot
    <3>3. ASSUME NEW f \in receipts
          PROVE  f.slot # k
      <4>1. f.slot \in (1..n) \X BOOLEAN
        BY <1>6 DEF IInv, Durable, FilesSound
      <4>2. f.slot[1] \in 1..n
        BY <4>1
      <4> QED
        BY <3>2, <4>2
    <3>4. Files(k)' = {}
      BY <1>3, <3>3 DEF Files
    <3> QED
      BY <1>5, <1>6, <1>7, <3>1, <3>4 DEF FreshTry
  <2>5. ClosedByReceipt(w)'
    BY <1>5, <1>7 DEF ClosedByReceipt
  <2> QED
    BY <2>1, <2>2, <2>3, <2>4, <2>5 DEF ItemOK
<1>12. Durable'
  <2>1. /\ L!Current(w).state \in Unsent /\ e.state # "in_flight"
        /\ Len(attempts) <= Len(attempts')
        /\ \A a \in 1..Len(attempts) : attempts'[a] = attempts[a]
    BY <1>4, <1>5, <1>6, <1>9 DEF Unsent
  <2> QED
    BY <1>3, <1>4, <1>5, <1>11, <2>1, AppendedStep DEF IInv
<1>13. PICK r, pc : pc = Admitted /\ r = [l EXCEPT !.pc = pc]
  OBVIOUS
<1>14. /\ r.pc = pc /\ r.request = q
       /\ pc \in {"fund", "start"} /\ (pc = "start" => ~Campaigned)
  BY <1>2, <1>13 DEF Admitted, Locals
<1>15. PreparedFor(r, w)' /\ SentFor(r, w)'
  BY <1>5, <1>7, <1>14 DEF PreparedFor, SentFor, Waiting, Settling
<1>16. Goto(p, pc) /\ lock' = lock /\ l.pc \in Working /\ pc \in Working
  BY <1>3, <1>13, <1>14 DEF Working, Preparing
<1>17. Running'
  BY <1>1, <1>13, <1>15, <1>16, GoesOn
<1> QED
  BY <1>4, <1>12, <1>17 DEF IInv, Keeps

LEMMA RecordSuccessKeeps ==
    ASSUME IInv, NEW p \in Procs, RecordSuccess(p)
    PROVE  Keeps
<1>1. PICK l \in Locals, w \in Work :
         /\ l = proc[p] /\ w = Item(p) /\ w = Plan[l.at]
         /\ l.at \in 1..Len(Plan) /\ l.request \in Envelopes
         /\ SentFor(l, w) /\ ItemOK(w)
  BY Worker DEF RecordSuccess, Working, Waiting
<1>2. PICK a, o, r : a = L!Current(w).attempt /\ o = l.outcome /\ r = o.result
  OBVIOUS
<1>3. /\ L!RecordResult(a, r) /\ l.pc = "saved" /\ o.status = "success"
      /\ Goto(p, "complete")
      /\ UNCHANGED <<campaignVars, objects, receipts, lock, received>>
  BY <1>1, <1>2 DEF RecordSuccess, AttemptAt, AttemptOf, Succeeded
<1>4. o \in Outcomes /\ Stored(o) \in objects
  BY <1>1, <1>2, <1>3 DEF SentFor
<1>5. r \in Results /\ r \in objects /\ r # Null
  <2>1. o \in Successes
    BY <1>3, <1>4 DEF Outcomes, Natives
  <2> QED
    BY <1>2, <1>3, <1>4, <2>1, NullAssumption DEF Successes, Stored
<1>6. /\ L!Next /\ LP!RInv' /\ Moved(a, "in_flight", "result_saved", r)
      /\ UNCHANGED <<attempts, reconciliations, retries, version>>
  BY <1>3, <1>5, RecordResultEffect DEF IInv
<1>7. Durable'
  BY <1>3, <1>5, <1>6, MovedStep DEF IInv, Answered, Unsent, campaignVars
<1>8. attempts[a].work = w
  BY <1>2, <1>3, AttemptHeld DEF IInv, L!RecordResult
<1>9. L!Current(w)'.state = "result_saved"
  BY <1>6, <1>8 DEF Moved, Appended
<1>10. PICK s : s = [l EXCEPT !.pc = "complete"]
  OBVIOUS
<1>11. s.pc = "complete"
  BY <1>10 DEF Locals
<1>12. PreparedFor(s, w)' /\ SentFor(s, w)'
  BY <1>9, <1>11 DEF PreparedFor, SentFor, Waiting, Settling
<1>13. l.pc \in Working
  BY <1>3 DEF Working, Waiting
<1>14. Running'
  BY <1>1, <1>3, <1>10, <1>12, <1>13, GoesOn
<1> QED
  BY <1>6, <1>7, <1>14 DEF IInv, Keeps

-----------------------------------------------------------------------------
(* The receipt of a try, and what is left of it *)

(* The file of the try in flight is created, or written over itself. *)
LEMMA ReceiptStep ==
    ASSUME LP!RInv, Durable, NEW w \in Work, L!Current(w).state = "in_flight",
           NEW a, a = L!Current(w).attempt,
           NEW n \in Natives \cup {Null},
           n # Null => n \in objects /\ n.request = L!Current(w).request,
           receipts' = (receipts \ Files(Slot(a))) \cup {[slot |-> Slot(a), native |-> n]},
           UNCHANGED <<ledgerVars, campaignVars, objects, received>>
    PROVE  Durable' /\ LP!RInv' /\ UNCHANGED L!vars
<1>1. /\ events' = events /\ attempts' = attempts /\ retries' = retries
      /\ reconciliations' = reconciliations /\ version' = version
      /\ objects' = objects /\ received' = received
      /\ tracking' = tracking /\ reservations' = reservations
  BY DEF ledgerVars, campaignVars
<1>2. UNCHANGED L!vars
  BY <1>1 DEF L!vars
<1>3. LP!RInv'
  BY <1>2, LedgerStep
<1>4. \A v : L!Current(v)' = L!Current(v)
  BY SameView
<1>5. \A b : Slot(b)' = Slot(b)
  BY SameView
<1>6. RowShape(w) /\ a # 0
  BY DEF Durable, Items, ItemOK, RowShape, Unsent
<1>7. a \in 1..Len(attempts) /\ attempts[a] = [work |-> w, request |-> L!Current(w).request]
  BY <1>6, RowFacts
<1>8. PICK k : k = Slot(a)
  OBVIOUS
<1>9. PICK f : f = [slot |-> k, native |-> n]
  OBVIOUS
<1>10. receipts' = (receipts \ Files(k)) \cup {f}
  BY <1>8, <1>9
<1>11. \A g \in receipts : g.slot # k => g \in receipts'
  BY <1>10 DEF Files
<1>12. \A g \in receipts' : g = f \/ (g \in receipts /\ g.slot # k)
  BY <1>10 DEF Files
<1>13. k[1] = a /\ k[2] = Retried(a) /\ k = <<a, Retried(a)>>
  BY <1>8 DEF Slot
<1>14. ASSUME NEW v \in Work, v # w, L!Current(v).attempt # 0
       PROVE  Slot(L!Current(v).attempt)[1] # a /\ Slot(L!Current(v).attempt) # k
  <2>1. PICK b : b = L!Current(v).attempt
    OBVIOUS
  <2>2. attempts[b] = [work |-> v, request |-> L!Current(v).request]
    BY <1>14, <2>1, RowFacts
  <2>3. b # a
    BY <1>7, <1>14, <2>2
  <2> QED
    BY <1>13, <2>1, <2>3 DEF Slot
<1>15. \A h : h # k => Files(h)' = Files(h)
  <2> SUFFICES ASSUME NEW h, h # k
               PROVE  Files(h)' = Files(h)
    OBVIOUS
  <2>1. f.slot = k
    BY <1>9
  <2> QED
    BY <1>11, <1>12, <2>1 DEF Files
<1>16. CompletedKept
  BY <1>4 DEF CompletedKept
<1>17. ASSUME NEW v \in Work
       PROVE  ItemOK(v)'
  <2>1. ItemOK(v)
    BY DEF Durable, Items
  <2>2. PICK b : b = L!Current(v).attempt
    OBVIOUS
  <2>3. CASE v # w
    <3>1. b # 0 => Files(Slot(b))' = Files(Slot(b))
      BY <1>5, <1>14, <1>15, <2>2, <2>3
    <3> QED
      BY <1>1, <1>4, <1>16, <2>1, <2>2, <3>1, ItemKept
  <2>4. CASE v = w
    <3>1. PICK c : c = L!Current(w) /\ c = L!Current(w)'
      BY <1>4
    <3>2. RowShape(w)' /\ AnswerStored(w)' /\ SentAfterStart(w)'
      BY <1>1, <2>1, <2>4, <3>1 DEF ItemOK, RowShape, AnswerStored, SentAfterStart
    <3>3. PromptStands(w)'
      <4>1. /\ L!DependenciesCompleted(w)' <=> L!DependenciesCompleted(w)
            /\ Envelope(w, c.request.external)' = Envelope(w, c.request.external)
        BY SameView
      <4> QED
        BY <1>1, <2>1, <2>4, <3>1, <4>1 DEF ItemOK, PromptStands
    <3>4. FreshTry(w)' /\ ClosedByReceipt(w)'
      BY <3>1 DEF FreshTry, ClosedByReceipt
    <3> QED
      BY <2>4, <3>2, <3>3, <3>4 DEF ItemOK
  <2> QED
    BY <2>3, <2>4
<1>18. FilesSound'
  <2>1. receipts' \subseteq
            [slot : (1..Len(attempts')) \X BOOLEAN, native : Natives \cup {Null}]
    <3>1. Retried(a) \in BOOLEAN
      BY DEF Retried
    <3>2. f \in [slot : (1..Len(attempts)) \X BOOLEAN, native : Natives \cup {Null}]
      BY <1>7, <1>9, <1>13, <3>1
    <3> QED
      BY <1>1, <1>12, <3>2 DEF Durable, FilesSound
  <2>2. ASSUME NEW g \in receipts'
        PROVE  FileOK(g)'
    <3>1. \A b : Retried(b)' <=> Retried(b)
      BY <1>1 DEF Retried
    <3>2. CASE g = f
      <4>1. g.slot = k /\ g.native = n
        BY <1>9, <3>2
      <4>2. \A h \in receipts' : h.slot = k => h = g
        BY <1>12, <3>2
      <4>3. n # Null => n.request = attempts[a].request
        BY <1>7
      <4> QED
        BY <1>1, <1>13, <3>1, <4>1, <4>2, <4>3 DEF FileOK
    <3>3. CASE g \in receipts /\ g.slot # k
      <4>1. FileOK(g)
        BY <3>3 DEF Durable, FilesSound
      <4>2. \A h \in receipts' : h.slot = g.slot => h \in receipts
        BY <1>9, <1>12, <3>3
      <4> QED
        BY <1>1, <3>1, <4>1, <4>2 DEF FileOK
    <3> QED
      BY <1>12, <3>2, <3>3
  <2> QED
    BY <2>1, <2>2 DEF FilesSound
<1>19. RetriedByReceipt'
  <2> SUFFICES ASSUME NEW row \in retries
               PROVE  [slot |-> <<row.attempt, FALSE>>, native |-> row.receipt] \in receipts'
    BY <1>1 DEF RetriedByReceipt
  <2>1. PICK g : g = [slot |-> <<row.attempt, FALSE>>, native |-> row.receipt]
    OBVIOUS
  <2>2. g \in receipts
    BY <2>1 DEF Durable, RetriedByReceipt
  <2>3. g.slot # k
    <3>1. g.slot[1] = row.attempt /\ g.slot[2] = FALSE
      BY <2>1
    <3>2. row.attempt = a => Retried(a)
      BY DEF Retried
    <3>3. CASE row.attempt = a
      <4>1. k[2]
        BY <1>13, <3>2, <3>3
      <4> QED
        BY <3>1, <4>1
    <3>4. CASE row.attempt # a
      BY <1>13, <3>1, <3>4
    <3> QED
      BY <3>3, <3>4
  <2> QED
    BY <1>11, <2>1, <2>2, <2>3
<1>20. ReconciledByReceipt'
  <2> SUFFICES ASSUME NEW row \in reconciliations
               PROVE  ReconciledBy(row)'
    BY <1>1 DEF ReconciledByReceipt
  <2>1. ReconciledBy(row)
    BY DEF Durable, ReconciledByReceipt
  <2>2. PICK b : b = row.attempt
    OBVIOUS
  <2>3. PICK v : v = attempts[b].work
    OBVIOUS
  <2>4. b # a
    BY <1>7, <2>1, <2>2 DEF ReconciledBy, Answered
  <2>5. PICK g : g = [slot |-> Slot(b), native |-> row.receipt]
    OBVIOUS
  <2>6. g \in receipts /\ g.slot = Slot(b)
    BY <2>1, <2>2, <2>5 DEF ReconciledBy
  <2>7. Slot(b) # k
    BY <1>13, <2>4 DEF Slot
  <2>8. g \in receipts'
    BY <1>11, <2>6, <2>7
  <2> QED
    BY <1>1, <1>4, <1>5, <2>1, <2>2, <2>5, <2>8 DEF ReconciledBy
<1>21. FundedSends'
  BY <1>1, FundsKept DEF Durable
<1> QED
  BY <1>1, <1>2, <1>3, <1>17, <1>18, <1>19, <1>20, <1>21 DEF Durable, Items

LEMMA CreateReceiptKeeps ==
    ASSUME IInv, NEW p \in Procs, CreateReceipt(p)
    PROVE  Keeps
<1>1. PICK l \in Locals, w \in Work :
         /\ l = proc[p] /\ w = Item(p) /\ w = Plan[l.at]
         /\ l.at \in 1..Len(Plan) /\ l.request \in Envelopes
         /\ SentFor(l, w) /\ ItemOK(w)
  BY Worker DEF CreateReceipt, Working, Waiting
<1>2. PICK a : a = L!Current(w).attempt
  OBVIOUS
<1>3. /\ l.pc = "saved" /\ l.outcome.status # "success" /\ Files(Slot(a)) = {}
      /\ receipts' = receipts \cup {[slot |-> Slot(a), native |-> Null]}
      /\ Goto(p, "receipt")
      /\ UNCHANGED <<ledgerVars, campaignVars, objects, lock, received>>
  BY <1>1, <1>2 DEF CreateReceipt, AttemptAt, AttemptOf, Succeeded
<1>4. /\ L!Current(w).state = "in_flight" /\ L!Current(w).request = l.request
      /\ l.outcome \in Outcomes /\ (l.outcome \in Natives => l.outcome.request = l.request)
      /\ Stored(l.outcome) \in objects
  BY <1>1, <1>3 DEF SentFor, Waiting
<1>5. receipts' = (receipts \ Files(Slot(a))) \cup {[slot |-> Slot(a), native |-> Null]}
  BY <1>3
<1>6. Durable' /\ LP!RInv' /\ UNCHANGED L!vars
  <2>1. PICK n \in Natives \cup {Null} : n = Null
    OBVIOUS
  <2> QED
    BY <1>2, <1>3, <1>4, <1>5, <2>1, ReceiptStep DEF IInv
<1>7. PICK r : r = [l EXCEPT !.pc = "receipt"]
  OBVIOUS
<1>8. r.pc = "receipt" /\ r.request = l.request /\ r.outcome = l.outcome
  BY <1>7 DEF Locals
<1>9. PICK c : c = L!Current(w) /\ c = L!Current(w)'
  BY <1>3, SameView
<1>10. PreparedFor(r, w)' /\ SentFor(r, w)'
  <2>1. PreparedFor(r, w)'
    BY <1>8 DEF PreparedFor
  <2>2. Stored(r.outcome)' = Stored(r.outcome)
    BY DEF Stored
  <2>3. SentFor(r, w)'
    BY <1>3, <1>4, <1>8, <1>9, <2>2 DEF SentFor, Waiting, Settling
  <2> QED
    BY <2>1, <2>3
<1>11. l.pc \in Working /\ "receipt" \in Working
  BY <1>3 DEF Working, Waiting, Settling
<1>12. Running'
  BY <1>1, <1>3, <1>7, <1>10, <1>11, GoesOn
<1> QED
  BY <1>6, <1>12 DEF IInv, Keeps

LEMMA WriteReceiptKeeps ==
    ASSUME IInv, NEW p \in Procs, WriteReceipt(p)
    PROVE  Keeps
<1>1. PICK l \in Locals, w \in Work :
         /\ l = proc[p] /\ w = Item(p) /\ w = Plan[l.at]
         /\ l.at \in 1..Len(Plan) /\ l.request \in Envelopes
         /\ SentFor(l, w) /\ ItemOK(w)
  BY Worker DEF WriteReceipt, Working, Settling
<1>2. PICK a, o : a = L!Current(w).attempt /\ o = l.outcome
  OBVIOUS
<1>3. /\ l.pc = "receipt"
      /\ receipts' = (receipts \ Files(Slot(a))) \cup {[slot |-> Slot(a), native |-> o]}
      /\ Goto(p, "settle")
      /\ UNCHANGED <<ledgerVars, campaignVars, objects, lock, received>>
  BY <1>1, <1>2 DEF WriteReceipt, AttemptAt, AttemptOf
<1>4. /\ L!Current(w).state = "in_flight" /\ L!Current(w).request = l.request
      /\ o \in Outcomes /\ (o \in Natives => o.request = l.request)
      /\ Stored(o) \in objects /\ o.status # "success"
  BY <1>1, <1>2, <1>3 DEF SentFor, Settling
<1>5. o \in Natives /\ o \in objects
  BY <1>4 DEF Outcomes, Successes, Stored
<1>6. Durable' /\ LP!RInv' /\ UNCHANGED L!vars
  <2>1. PICK n \in Natives \cup {Null} : n = o
    BY <1>5
  <2> QED
    BY <1>2, <1>3, <1>4, <1>5, <2>1, ReceiptStep DEF IInv
<1>7. PICK r : r = [l EXCEPT !.pc = "settle"]
  OBVIOUS
<1>8. r.pc = "settle" /\ r.request = l.request /\ r.outcome = o
  BY <1>2, <1>7 DEF Locals
<1>9. PICK c : c = L!Current(w) /\ c = L!Current(w)'
  BY <1>3, SameView
<1>10. [slot |-> Slot(c.attempt)', native |-> o] \in receipts'
  <2>1. Slot(a)' = Slot(a)
    BY <1>3, SameView
  <2> QED
    BY <1>2, <1>3, <1>9, <2>1
<1>11. PreparedFor(r, w)' /\ SentFor(r, w)'
  <2>1. PreparedFor(r, w)'
    BY <1>8 DEF PreparedFor
  <2>2. Stored(r.outcome)' = Stored(r.outcome)
    BY DEF Stored
  <2>3. SentFor(r, w)'
    BY <1>3, <1>4, <1>8, <1>9, <1>10, <2>2 DEF SentFor, Waiting, Settling
  <2> QED
    BY <2>1, <2>3
<1>12. l.pc \in Working /\ "settle" \in Working
  BY <1>3 DEF Working, Settling
<1>13. Running'
  BY <1>1, <1>3, <1>7, <1>11, <1>12, GoesOn
<1> QED
  BY <1>6, <1>13 DEF IInv, Keeps

(* Recovery: what was in flight is uncertain, under the same request.       *)
LEMMA RecoveryKeeps ==
    ASSUME LP!RInv, Durable, L!Recover,
           UNCHANGED <<campaignVars, objects, receipts, received>>
    PROVE  LP!RInv' /\ Durable' /\ L!Next
<1>1. /\ L!Next /\ LP!RInv' /\ Interrupted
      /\ UNCHANGED <<attempts, reconciliations, retries, version>>
  BY RecoverEffect
<1>2. /\ objects' = objects /\ receipts' = receipts /\ received' = received
      /\ tracking' = tracking /\ reservations' = reservations
  BY DEF campaignVars
<1>3. CompletedKept /\ AnswersStay
  BY <1>1 DEF Interrupted, CompletedKept, AnswersStay, Answered
<1>4. \A b : Retried(b)' <=> Retried(b)
  BY <1>1 DEF Retried
<1>5. ASSUME NEW w \in Work
      PROVE  ItemOK(w)'
  <2>1. ItemOK(w)
    BY DEF Durable, Items
  <2>2. PICK b : b = L!Current(w).attempt
    OBVIOUS
  <2>3. CASE L!Current(w).state # "in_flight"
    <3>1. L!Current(w)' = L!Current(w)
      BY <1>1, <2>3 DEF Interrupted
    <3>2. Files(Slot(b))' = Files(Slot(b))
      BY <1>2, <1>4, SameFiles
    <3> QED
      BY <1>2, <1>3, <2>1, <2>2, <3>1, <3>2, ItemKept
  <2>4. CASE L!Current(w).state = "in_flight"
    <3>1. PICK e \in LP!Events : /\ L!Current(w)' = e
                                /\ e.state = "uncertain" /\ e.result = Null
                                /\ e.attempt = L!Current(w).attempt
                                /\ e.request = L!Current(w).request
      BY <1>1, <2>4 DEF Interrupted
    <3>2. RowShape(w)'
      BY <2>1, <2>4, <3>1 DEF ItemOK, RowShape, Unsent, Answered
    <3>3. PromptStands(w)'
      <4>1. L!Current(w).attempt # 0
        BY <2>1, <2>4 DEF ItemOK, RowShape, Unsent
      <4>2. PICK x : x = e.request.external
        OBVIOUS
      <4>3. /\ e.request \in objects /\ Envelope(w, x) = e.request
            /\ L!DependenciesCompleted(w)
        BY <2>1, <3>1, <4>1, <4>2 DEF ItemOK, PromptStands
      <4>4. Envelope(w, x)' = Envelope(w, x) /\ L!DependenciesCompleted(w)'
        BY <1>3, <4>3, EnvelopeKept
      <4> QED
        BY <1>2, <3>1, <4>2, <4>3, <4>4 DEF PromptStands
    <3>4. AnswerStored(w)' /\ SentAfterStart(w)' /\ FreshTry(w)' /\ ClosedByReceipt(w)'
      BY <3>1 DEF AnswerStored, SentAfterStart, FreshTry, ClosedByReceipt
    <3> QED
      BY <3>2, <3>3, <3>4 DEF ItemOK
  <2> QED
    BY <2>3, <2>4
<1>6. Len(attempts) \in Nat
  BY AttemptsTyped
<1>7. FilesSound'
  BY <1>1, <1>2, <1>6, FilesKept DEF Durable
<1>8. RetriedByReceipt'
  BY <1>1, <1>2 DEF Durable, RetriedByReceipt
<1>9. ReconciledByReceipt'
  <2>1. \A row \in reconciliations : ReconciledBy(row)'
    BY <1>1, <1>2, <1>3, <1>4, <1>6, ReconciledKept DEF Durable
  <2> QED
    BY <1>1, <2>1 DEF ReconciledByReceipt
<1>10. FundedSends'
  <2>1. \A i \in 1..Len(events') : \/ i \in 1..Len(events) /\ events'[i] = events[i]
                                   \/ events'[i].state # "in_flight"
    BY <1>1 DEF Interrupted
  <2> QED
    BY <1>2, <2>1, FundsKept DEF Durable
<1> QED
  BY <1>1, <1>2, <1>5, <1>7, <1>8, <1>9, <1>10 DEF Durable, Items

LEMMA SettleKeeps ==
    ASSUME IInv, NEW p \in Procs, Settle(p)
    PROVE  Keeps
<1>1. PICK l \in Locals, w \in Work :
         /\ l = proc[p] /\ w = Item(p) /\ w = Plan[l.at]
         /\ SentFor(l, w) /\ ItemOK(w)
  BY Worker DEF Settle, Working, Settling
<1>2. PICK a, o, s : a = L!Current(w).attempt /\ o = l.outcome /\ s = o.status
  OBVIOUS
<1>3. /\ l.pc = "settle" /\ NextItem(p, 1)
      /\ s \in {"failed", "limited"} => L!Fail(a, s)
      /\ s \notin {"failed", "limited"} => L!Recover
  BY <1>1, <1>2 DEF Settle, AttemptAt, AttemptOf
<1>4. UNCHANGED <<campaignVars, objects, receipts, received>> /\ lock' = lock
  BY DEF Settle
<1>5. Running'
  BY <1>1, <1>3, <1>4, NextItemRuns DEF IInv
<1>6. CASE s \in {"failed", "limited"}
  <2>1. /\ L!Next /\ LP!RInv' /\ Moved(a, "in_flight", s, Null)
        /\ UNCHANGED <<attempts, reconciliations, retries, version>>
    BY <1>3, <1>6, FailEffect DEF IInv
  <2>2. \E f \in Files(Slot(a)) : f.native # Null
    <3>1. PICK f : f = [slot |-> Slot(a), native |-> o]
      OBVIOUS
    <3>2. f \in receipts /\ o \in Outcomes /\ o.status # "success"
      BY <1>1, <1>2, <1>3, <3>1 DEF SentFor, Settling
    <3>3. o # Null
      BY <3>2, NullAssumption DEF Outcomes, Successes
    <3>4. f.slot = Slot(a) /\ f.native = o
      BY <3>1
    <3> QED
      BY <3>2, <3>3, <3>4 DEF Files
  <2>3. Durable'
    BY <1>4, <1>6, <2>1, <2>2, MovedStep DEF IInv, Answered, Unsent, campaignVars
  <2> QED
    BY <1>5, <2>1, <2>3 DEF IInv, Keeps
<1>7. CASE s \notin {"failed", "limited"}
  BY <1>3, <1>4, <1>5, <1>7, RecoveryKeeps DEF IInv, Keeps
<1> QED
  BY <1>6, <1>7

-----------------------------------------------------------------------------
(* What a command finds when it enters *)

LEMMA ResumeKeeps ==
    ASSUME IInv, NEW p \in Procs, NEW x \in Externals \cup {Null}, Resume(p, x)
    PROVE  Keeps
<1>1. /\ lock = Null /\ lock' = p /\ Recovered
      /\ UNCHANGED <<campaignVars, objects, receipts, received>>
  BY DEF Resume, Enter, LockFree
<1>2. PICK r : r = [Idle EXCEPT !.pc = "loop", !.at = 1, !.input = x]
  OBVIOUS
<1>3. r \in Locals /\ r.pc = "loop" /\ r.at = 1
  BY <1>2 DEF Idle, Locals, Places
<1>4. proc' = [proc EXCEPT ![p] = r]
  BY <1>2 DEF Resume
<1>5. PlaceOK(r)'
  BY <1>3, RestingPlace
<1>6. Running'
  BY <1>1, <1>3, <1>4, <1>5, OneMoves DEF IInv
<1>7. CASE UNCHANGED ledgerVars
  <2>1. Durable' /\ LP!RInv' /\ UNCHANGED L!vars
    BY <1>1, <1>7, QuietStep DEF IInv, campaignVars
  <2> QED
    BY <1>6, <2>1 DEF IInv, Keeps
<1>8. CASE L!Recover
  BY <1>1, <1>6, <1>8, RecoveryKeeps DEF IInv, Keeps
<1> QED
  BY <1>1, <1>7, <1>8 DEF Recovered

(* The file that a check could read is the one that the command reads.      *)
LEMMA NativeRead ==
    ASSUME FilesSound, NEW slot, NEW q, Readable(slot, q)
    PROVE  /\ Native(slot) \in Natives /\ Native(slot) \in objects
           /\ Native(slot).request = q
           /\ [slot |-> slot, native |-> Native(slot)] \in receipts
<1>1. PICK f \in Files(slot) : /\ f.native # Null /\ f.native.request = q
                              /\ f.native \in objects
  BY DEF Readable
<1>2. f \in receipts /\ f.slot = slot
  BY <1>1 DEF Files
<1>3. \A g \in Files(slot) : g = f
  BY <1>2 DEF FilesSound, FileOK, Files
<1>4. Native(slot) = f.native
  <2>1. (CHOOSE g \in Files(slot) : TRUE) \in Files(slot)
    BY <1>1
  <2> QED
    BY <1>3, <2>1 DEF Native
<1>5. f \in [slot : (1..Len(attempts)) \X BOOLEAN, native : Natives \cup {Null}]
  BY <1>2 DEF FilesSound
<1>6. f = [slot |-> slot, native |-> f.native] /\ f.native \in Natives
  BY <1>1, <1>2, <1>5
<1> QED
  BY <1>1, <1>2, <1>4, <1>6

LEMMA ReceiptOfHeld ==
    ASSUME LP!RInv, Durable, Reports, NEW a, NEW s, L!Holds(a, s), Files(Slot(a)) # {}
    PROVE  /\ Native(Slot(a)) \in Natives /\ Native(Slot(a)) \in objects
           /\ [slot |-> Slot(a), native |-> Native(Slot(a))] \in receipts
<1>1. PICK w \in Work : w = attempts[a].work
  BY HeldFacts
<1>2. PICK c : c = L!Current(w)
  OBVIOUS
<1>3. c.attempt = a /\ a # 0
  BY <1>1, <1>2, HeldFacts
<1>4. c.request # Null
  BY <1>2, <1>3 DEF Durable, Items, ItemOK, RowShape
<1>5. ReceiptReports(c)
  BY <1>2, <1>4 DEF Reports
<1>6. Readable(Slot(a), c.request)
  BY <1>3, <1>5 DEF ReceiptReports
<1> QED
  BY <1>6, NativeRead DEF Durable

LEMMA NobodyRuns ==
    ASSUME Running, lock = Null
    PROVE  \A p \in Procs : proc[p].pc = "idle"
BY NullAssumption DEF Running

LEMMA AuthorizeUnsentKeeps ==
    ASSUME IInv, NEW p \in Procs, NEW a \in 1..Len(attempts), AuthorizeUnsent(p, a)
    PROVE  Keeps
<1>1. PICK k : k = Native(Slot(a))
  OBVIOUS
<1>2. /\ Reports /\ lock = Null /\ L!Holds(a, "uncertain") /\ Files(Slot(a)) # {}
      /\ received[attempts[a].work] = 0
      /\ L!AuthorizeUnsentRetry(a, k)
      /\ UNCHANGED <<campaignVars, objects, receipts, lock, proc, received>>
  BY <1>1 DEF AuthorizeUnsent, Enter, LockFree, OperatorConfirms
<1>3. k \in Natives /\ [slot |-> Slot(a), native |-> k] \in receipts
  BY <1>1, <1>2, ReceiptOfHeld DEF IInv
<1>4. /\ L!Next /\ LP!RInv' /\ Moved(a, "uncertain", "reserved", Null)
      /\ \A row \in retries : row.attempt # a
      /\ retries' = retries \cup {L!RetryRow(a, k)}
      /\ UNCHANGED <<attempts, reconciliations>>
  BY <1>2, <1>3, RetryEffect DEF IInv
<1>5. PICK row : row = L!RetryRow(a, k)
  OBVIOUS
<1>6. row.attempt = a /\ row.receipt = k /\ retries' = retries \cup {row}
  BY <1>4, <1>5 DEF L!RetryRow
<1>7. ~Retried(a) /\ Retried(a)' /\ \A b : b # a => (Retried(b)' <=> Retried(b))
  BY <1>4, <1>6 DEF Retried
<1>8. Slot(a) = <<a, FALSE>> /\ Slot(a)' = <<a, TRUE>>
  BY <1>7 DEF Slot, Retried
<1>9. Files(Slot(a))' = {}
  <2>1. ASSUME NEW f \in receipts
        PROVE  f.slot # <<a, TRUE>>
    <3> SUFFICES ASSUME f.slot = <<a, TRUE>>
                 PROVE  FALSE
      OBVIOUS
    <3>1. f.slot[1] = a /\ f.slot[2]
      OBVIOUS
    <3>2. FileOK(f)
      BY DEF IInv, Durable, FilesSound
    <3>3. Retried(a)
      BY <3>1, <3>2 DEF FileOK
    <3> QED
      BY <1>7, <3>3
  <2> QED
    BY <1>2, <1>8, <2>1 DEF Files
<1>10. Items'
  BY <1>2, <1>4, <1>7, <1>9, MovedItems DEF IInv, Durable, Answered, Unsent
<1>11. Len(attempts) \in Nat
  BY AttemptsTyped DEF IInv
<1>12. FilesSound'
  BY <1>2, <1>4, <1>11, FilesKept DEF IInv, Durable
<1>13. RetriedByReceipt'
  <2>1. [slot |-> <<row.attempt, FALSE>>, native |-> row.receipt] \in receipts
    BY <1>3, <1>6, <1>8
  <2> QED
    BY <1>2, <1>6, <2>1 DEF IInv, Durable, RetriedByReceipt
<1>14. ReconciledByReceipt'
  <2>1. AnswersStay
    BY <1>4, MovedAnswers DEF Answered
  <2>2. ASSUME NEW old \in reconciliations
        PROVE  Retried(old.attempt)' <=> Retried(old.attempt)
    <3>1. ReconciledBy(old)
      BY DEF IInv, Durable, ReconciledByReceipt
    <3>2. old.attempt # a
      BY <1>4, <3>1 DEF ReconciledBy, Moved, Answered
    <3> QED
      BY <1>7, <3>2
  <2>3. \A old \in reconciliations : ReconciledBy(old)'
    BY <1>2, <1>4, <1>11, <2>1, <2>2, ReconciledKept DEF IInv, Durable
  <2> QED
    BY <1>4, <2>3 DEF ReconciledByReceipt
<1>15. FundedSends'
  BY <1>2, <1>4, MovedFunds DEF IInv, Durable, campaignVars
<1>16. Durable'
  BY <1>2, <1>10, <1>12, <1>13, <1>14, <1>15 DEF IInv, Durable, campaignVars
<1>17. Running'
  <2>1. \A q \in Procs : proc[q].pc = "idle"
    BY <1>2, NobodyRuns DEF IInv
  <2>2. ASSUME NEW q \in Procs
        PROVE  PlaceOK(proc[q])'
    <3>1. PICK r : r = proc[q] /\ r = proc'[q]
      BY <1>2
    <3>2. r.pc = "idle"
      BY <2>1, <3>1
    <3>3. PlaceOK(r)'
      BY <3>2, RestingPlace
    <3> QED
      BY <3>1, <3>3
  <2> QED
    BY <1>2, <2>1, <2>2 DEF IInv, Running
<1> QED
  BY <1>4, <1>16, <1>17 DEF IInv, Keeps

LEMMA FinishRuns ==
    ASSUME IInv, NEW p \in Procs, NEW a \in 1..Len(attempts), lock = Null, AtAttempt(p, a),
           NEW w \in Work, w = attempts[a].work, L!Current(w)'.state = "result_saved"
    PROVE  Running'
<1>1. PICK i \in 1..Len(Plan) : i = (CHOOSE j \in 1..Len(Plan) : Plan[j] = w) /\ Plan[i] = w
  BY RunAssumption
<1>2. PICK r : r = [Idle EXCEPT !.pc = "finish", !.at = i]
  OBVIOUS
<1>3. r \in Locals /\ r.pc = "finish" /\ r.at = i
  <2>1. i \in Nat
    BY RunAssumption
  <2> QED
    BY <1>2, <2>1 DEF Idle, Locals, Places
<1>4. proc' = [proc EXCEPT ![p] = r] /\ lock' = p
  BY <1>1, <1>2 DEF AtAttempt
<1>5. PlaceOK(r)'
  <2>1. PreparedFor(r, w)' /\ SentFor(r, w)'
    BY <1>3 DEF PreparedFor, SentFor, Waiting, Settling
  <2> QED
    BY <1>1, <1>3, <2>1 DEF PlaceOK, Preparing, Waiting, Settling
<1> QED
  BY <1>3, <1>4, <1>5, OneMoves DEF IInv

LEMMA ReconcileKeeps ==
    ASSUME IInv, NEW p \in Procs, NEW a \in 1..Len(attempts), Reconcile(p, a)
    PROVE  Keeps
<1>1. PICK k, r : k = Native(Slot(a)) /\ r = k.result
  OBVIOUS
<1>2. /\ Reports /\ lock = Null /\ L!Holds(a, "uncertain") /\ Files(Slot(a)) # {}
      /\ k.status = "answered" /\ objects' = objects \cup {r}
      /\ L!ReconcileResult(a, r, k) /\ AtAttempt(p, a)
      /\ UNCHANGED <<campaignVars, receipts, received>>
  BY <1>1 DEF Reconcile, Enter, LockFree, Reconcilable
<1>3. k \in Natives /\ [slot |-> Slot(a), native |-> k] \in receipts
  BY <1>1, <1>2, ReceiptOfHeld DEF IInv
<1>4. r \in Results /\ r # Null
  BY <1>1, <1>2, <1>3, NullAssumption DEF Natives
<1>5. /\ L!Next /\ LP!RInv' /\ Moved(a, "uncertain", "result_saved", r)
      /\ reconciliations' = reconciliations \cup {L!ReconciliationRow(a, r, k)}
      /\ UNCHANGED <<attempts, retries>>
  BY <1>2, <1>3, <1>4, ReconcileEffect DEF IInv
<1>6. PICK w \in Work : w = attempts[a].work
  BY AttemptsTyped DEF IInv
<1>7. L!Current(w)'.state = "result_saved" /\ L!Current(w)'.result = r
  BY <1>5, <1>6 DEF Moved, Appended
<1>8. PICK row : row = L!ReconciliationRow(a, r, k)
  OBVIOUS
<1>9. row.attempt = a /\ row.receipt = k /\ row.result = r
  BY <1>8 DEF L!ReconciliationRow
<1>10. ReconciledBy(row)'
  <2>1. Slot(a)' = Slot(a) /\ attempts' = attempts /\ receipts' = receipts
    BY <1>2, <1>5 DEF Slot, Retried
  <2> QED
    BY <1>1, <1>3, <1>6, <1>7, <1>9, <2>1 DEF ReconciledBy, Answered
<1>11. Durable'
  <2>1. \A old \in reconciliations' : old \in reconciliations \/ ReconciledBy(old)'
    BY <1>5, <1>8, <1>10
  <2> QED
    BY <1>2, <1>4, <1>5, <2>1, MovedStep DEF IInv, Answered, Unsent, campaignVars
<1>12. Running'
  BY <1>2, <1>6, <1>7, FinishRuns
<1> QED
  BY <1>5, <1>11, <1>12 DEF IInv, Keeps

LEMMA ReconcileAgainKeeps ==
    ASSUME IInv, NEW p \in Procs, NEW a \in 1..Len(attempts), ReconcileAgain(p, a)
    PROVE  Keeps
<1>1. /\ lock = Null /\ L!Holds(a, "result_saved") /\ AtAttempt(p, a)
      /\ UNCHANGED <<ledgerVars, campaignVars, objects, receipts, received>>
  BY DEF ReconcileAgain, Enter, LockFree
<1>2. Durable' /\ LP!RInv' /\ UNCHANGED L!vars
  BY <1>1, QuietStep DEF IInv, campaignVars
<1>3. PICK w \in Work : w = attempts[a].work
  BY AttemptsTyped DEF IInv
<1>4. L!Current(w).state = "result_saved" /\ L!Current(w)' = L!Current(w)
  BY <1>1, <1>3, HeldFacts, SameView DEF IInv
<1>5. L!Current(w)'.state = "result_saved"
  BY <1>4
<1>6. Running'
  BY <1>1, <1>3, <1>5, FinishRuns
<1> QED
  BY <1>2, <1>6 DEF IInv, Keeps

-----------------------------------------------------------------------------
(* The invariant *)

(* No process moves; at most another run's reservation is added.            *)
LEMMA OutsideKeeps ==
    ASSUME IInv, reservations \subseteq reservations',
           UNCHANGED <<ledgerVars, tracking, objects, receipts, lock, proc, received>>
    PROVE  Keeps
<1>1. Durable' /\ LP!RInv' /\ UNCHANGED L!vars
  BY QuietStep DEF IInv
<1>2. Running'
  <2>1. proc' = proc /\ lock' = lock /\ objects' = objects
        /\ receipts' = receipts /\ received' = received
    OBVIOUS
  <2>2. ASSUME NEW r, PlaceOK(r)
        PROVE  PlaceOK(r)'
    <3>1. PICK w, c : w = Plan[r.at] /\ c = L!Current(w) /\ c = L!Current(w)'
      BY SameView
    <3>2. /\ L!DependenciesCompleted(w)' <=> L!DependenciesCompleted(w)
          /\ Envelope(w, r.request.external)' = Envelope(w, r.request.external)
          /\ Slot(c.attempt)' = Slot(c.attempt)
      BY SameView
    <3>3. Funded(c.attempt, r.request) => Funded(c.attempt, r.request)'
      BY FundedStays
    <3>4. PreparedFor(r, w)'
      BY <2>1, <2>2, <3>1, <3>2, <3>3 DEF PlaceOK, PreparedFor
    <3>5. Files(Slot(c.attempt))' = Files(Slot(c.attempt))
      BY <2>1, <3>2 DEF Files
    <3>6. Stored(r.outcome)' = Stored(r.outcome)
      BY DEF Stored
    <3>7. SentFor(r, w)'
      BY <2>1, <2>2, <3>1, <3>2, <3>5, <3>6 DEF PlaceOK, SentFor
    <3> QED
      BY <2>2, <3>1, <3>4, <3>7 DEF PlaceOK
  <2>3. ASSUME NEW p \in Procs
        PROVE  PlaceOK(proc[p])'
    <3>1. PICK r : r = proc[p] /\ r = proc'[p]
      BY <2>1
    <3>2. PlaceOK(r)
      BY <3>1 DEF IInv, Running
    <3>3. PlaceOK(r)'
      BY <2>2, <3>2
    <3> QED
      BY <3>1, <3>3
  <2> QED
    BY <2>1, <2>3 DEF IInv, Running
<1> QED
  BY <1>1, <1>2 DEF IInv, Keeps

LEMMA InitHolds == Init => IInv
<1> SUFFICES ASSUME Init
             PROVE  IInv
  OBVIOUS
<1>1. LP!RInv
  BY PlanHolds, SameLedger, LP!InitRanked DEF Init
<1>2. /\ events = [i \in 1..Len(Plan) |-> L!Unattempted(Plan[i], "planned")]
      /\ attempts = <<>> /\ reconciliations = {} /\ retries = {}
      /\ tracking = FALSE /\ reservations = {} /\ objects = {} /\ receipts = {}
      /\ proc = [p \in Procs |-> Idle] /\ received = [w \in Work |-> 0]
  BY DEF Init, L!Init, Shared!Init
<1>3. ASSUME NEW w \in Work
      PROVE  /\ L!Current(w).state = "planned" /\ L!Current(w).attempt = 0
             /\ L!Current(w).request = Null /\ L!Current(w).result = Null
  <2>1. LP!LastIndex(w) \in 1..Len(events)
    BY <1>1, PlanHolds, LP!CurrentIsLast DEF LP!RInv, LP!IInv
  <2>2. PICK i \in 1..Len(Plan) : i = LP!LastIndex(w)
    BY <1>2, <2>1, RunAssumption
  <2>3. L!Current(w) = events[i]
    BY <2>2, SameCurrent DEF L!Current
  <2> QED
    BY <1>2, <2>3 DEF L!Unattempted
<1>4. Items
  BY <1>2, <1>3 DEF Items, ItemOK, RowShape, PromptStands, AnswerStored, SentAfterStart,
                    FreshTry, ClosedByReceipt, Unsent, Answered
<1>5. FilesSound /\ RetriedByReceipt /\ ReconciledByReceipt
  BY <1>2 DEF FilesSound, RetriedByReceipt, ReconciledByReceipt
<1>6. FundedSends
  BY <1>2, RunAssumption DEF FundedSends, L!Unattempted
<1>7. Running
  <2>1. Idle \in Locals /\ Idle.pc = "idle"
    BY DEF Idle, Locals, Places
  <2>2. PICK r : r = Idle
    OBVIOUS
  <2>3. PlaceOK(r)
    BY <2>1, <2>2, RestingPlace
  <2> QED
    BY <1>2, <2>1, <2>2, <2>3 DEF Running
<1> QED
  BY <1>1, <1>2, <1>4, <1>5, <1>6, <1>7 DEF IInv, Durable

LEMMA StepKeepsAll ==
    ASSUME IInv, [Next]_vars
    PROVE  Keeps
<1>1. CASE UNCHANGED vars
  BY <1>1, OutsideKeeps DEF vars, campaignVars
<1>2. ASSUME NEW p \in Procs, NEW x \in Externals \cup {Null}, Resume(p, x)
      PROVE  Keeps
  BY <1>2, ResumeKeeps
<1>3. ASSUME NEW p \in Procs, Drive(p) \/ Dies(p)
      PROVE  Keeps
  <2>1. CASE Dies(p)
    BY <2>1, StopKeeps
  <2>2. CASE CompleteSaved(p) \/ CompleteItem(p) \/ FinishReconciled(p)
    BY <2>2, CompleteKeeps
  <2>3. CASE Pass(p)
    BY <2>3, PassKeeps
  <2>4. CASE Stop(p) \/ NotAdmitted(p) \/ Unfunded(p)
    BY <2>4, StopKeeps
  <2>5. CASE SkipItem(p)
    BY <2>5, SkipItemKeeps
  <2>6. CASE PutRequest(p)
    BY <2>6, PutRequestKeeps
  <2>7. CASE ReserveLocally(p)
    BY <2>7, ReserveLocallyKeeps
  <2>8. CASE ReuseReservation(p)
    BY <2>8, ReuseReservationKeeps
  <2>9. CASE Fund(p)
    BY <2>9, FundKeeps
  <2>10. CASE StartLocally(p)
    BY <2>10, StartLocallyKeeps
  <2>11. CASE Reaches(p)
    BY <2>11, ReachesKeeps
  <2>12. CASE NeverLeaves(p) \/ Answers(p)
    BY <2>12, LearnKeeps
  <2>13. CASE PutResult(p)
    BY <2>13, PutResultKeeps
  <2>14. CASE RecordSuccess(p)
    BY <2>14, RecordSuccessKeeps
  <2>15. CASE CreateReceipt(p)
    BY <2>15, CreateReceiptKeeps
  <2>16. CASE WriteReceipt(p)
    BY <2>16, WriteReceiptKeeps
  <2>17. CASE Settle(p)
    BY <2>17, SettleKeeps
  <2> QED
    BY <1>3, <2>1, <2>2, <2>3, <2>4, <2>5, <2>6, <2>7, <2>8, <2>9, <2>10, <2>11, <2>12,
       <2>13, <2>14, <2>15, <2>16, <2>17 DEF Drive
<1>4. ASSUME NEW p \in Procs, NEW a \in 1..Len(attempts),
             AuthorizeUnsent(p, a) \/ Reconcile(p, a) \/ ReconcileAgain(p, a)
      PROVE  Keeps
  BY <1>4, AuthorizeUnsentKeeps, ReconcileKeeps, ReconcileAgainKeeps
<1>5. ASSUME NEW o \in Others, OtherRunReserves(o)
      PROVE  Keeps
  <2>1. reservations \subseteq reservations' /\ tracking' = tracking
    BY <1>5 DEF OtherRunReserves, Shared!Reserve
  <2> QED
    BY <1>5, <2>1, OutsideKeeps DEF OtherRunReserves
<1> QED
  BY <1>1, <1>2, <1>3, <1>4, <1>5 DEF Next

(* The run directory is sound between any two steps, and a process is where   *)
(* the ledger, the receipts and the provider say that it is.                *)
THEOREM RunInvariance == Spec => []IInv
<1>1. IInv /\ [Next]_vars => IInv'
  BY StepKeepsAll DEF Keeps
<1> QED
  BY <1>1, InitHolds, PTL DEF Spec

-----------------------------------------------------------------------------
(* What follows for the run *)

(* Every step of run_provider, resume_provider and the operator's commands on *)
(* ledger.sqlite3 is a transaction of AttemptLedger or leaves it alone, so    *)
(* that what is proved of the ledger holds in every run.                    *)
THEOREM RunImplementsLedger == Spec => ImplementsLedger
<1>1. Init => L!Init
  BY DEF Init
<1>2. IInv /\ [Next]_vars => [L!Next]_(L!vars)
  BY StepKeepsAll DEF Keeps
<1> QED
  BY <1>1, <1>2, RunInvariance, PTL DEF Spec, ImplementsLedger, L!Spec

(* However often a run is resumed, retried or reconciled, no request of an     *)
(* item reaches the provider twice (Ledger's guard on in_flight, and the      *)
(* operator's confirmation of authorize_unsent_provider).                   *)
THEOREM ItemsDeliveredOnce == Spec => []DeliveredOnce
<1>1. IInv => DeliveredOnce
  BY DEF IInv, Durable, DeliveredOnce
<1> QED
  BY <1>1, RunInvariance, PTL

(* The ledger never refuses a call of _drive or of the operator's commands,   *)
(* and the exclusive creation in _write_receipt never meets a file.         *)
THEOREM LedgerNeverRefuses == Spec => []NeverRefused
<1>1. IInv => NeverRefused
  <2> SUFFICES ASSUME IInv, NEW p \in Procs
               PROVE  /\ proc[p].pc = "admit" =>
                            \/ L!State(Item(p)) = "planned"
                            \/ /\ L!State(Item(p)) = "reserved"
                               /\ L!Current(Item(p)).request = proc[p].request
                      /\ proc[p].pc \in {"fund", "start"} => L!State(Item(p)) = "reserved"
                      /\ proc[p].pc \in Waiting \cup Settling => L!State(Item(p)) = "in_flight"
                      /\ proc[p].pc \in {"complete", "finish"} =>
                            L!State(Item(p)) = "result_saved"
                      /\ proc[p].pc = "saved" => Files(Slot(AttemptAt(p))) = {}
    BY DEF NeverRefused, Waiting, Settling
  <2>1. PICK r, w : r = proc[p] /\ w = Plan[r.at]
    OBVIOUS
  <2>2. w = Item(p) /\ L!State(Item(p)) = L!Current(w).state
        /\ AttemptAt(p) = L!Current(w).attempt
    BY <2>1 DEF Item, L!State, AttemptAt, AttemptOf
  <2>3. PreparedFor(r, w) /\ SentFor(r, w)
    BY <2>1 DEF IInv, Running, PlaceOK
  <2> QED
    BY <2>1, <2>2, <2>3 DEF PreparedFor, SentFor, Waiting, Settling
<1> QED
  BY <1>1, RunInvariance, PTL

(* A file that is read back is the file that was written. *)
LEMMA FileIsRead ==
    ASSUME LP!RInv, Durable, NEW a \in 1..Len(attempts), NEW late \in BOOLEAN, NEW n,
           n # Null, [slot |-> <<a, late>>, native |-> n] \in receipts
    PROVE  Readable(<<a, late>>, attempts[a].request) /\ Native(<<a, late>>) = n
<1>1. PICK s, f : s = <<a, late>> /\ f = [slot |-> s, native |-> n]
  OBVIOUS
<1>2. f \in Files(s) /\ f.native = n /\ f.slot = s /\ s[1] = a
  BY <1>1 DEF Files
<1>3. FileOK(f)
  BY <1>1 DEF Durable, FilesSound
<1>4. n \in objects /\ n.request = attempts[a].request
  BY <1>2, <1>3 DEF FileOK
<1>5. Readable(s, attempts[a].request)
  BY <1>2, <1>4 DEF Readable
<1>6. Native(s) = n
  <2>1. (CHOOSE g \in Files(s) : TRUE) \in Files(s)
    BY <1>2
  <2>2. \A g \in Files(s) : g = f
    BY <1>2, <1>3 DEF FileOK, Files
  <2> QED
    BY <1>2, <2>1, <2>2 DEF Native
<1> QED
  BY <1>1, <1>5, <1>6

(* The verification of _report for one item whose receipt is not torn.      *)
LEMMA ItemReports ==
    ASSUME LP!RInv, Durable, NEW w \in Work, NEW c, c = L!Current(w), c.request # Null, ~Torn(w)
    PROVE  /\ RequestReports(w, c) /\ RetryReports(c)
           /\ ReceiptReports(c) /\ ResultReports(c)
<1>1. ItemOK(w)
  BY DEF Durable, Items
<1>2. PICK a : a = c.attempt
  OBVIOUS
<1>3. a # 0 /\ a \in 1..Len(attempts) /\ attempts[a] = [work |-> w, request |-> c.request]
  <2>1. L!Current(w).attempt # 0
    BY <1>1 DEF ItemOK, RowShape
  <2> QED
    BY <1>2, <2>1, RowFacts
<1>4. attempts[a].work = w /\ attempts[a].request = c.request
  BY <1>3
<1>5. RequestReports(w, c)
  <2>1. ASSUME NEW d \in Deps[w]
        PROVE  L!Current(d).result \in objects
    <3>1. d \in Work
      BY RunAssumption
    <3>2. ItemOK(d)
      BY <3>1 DEF Durable, Items
    <3>3. L!Current(d).state = "completed"
      BY <1>1, <1>2, <1>3 DEF ItemOK, PromptStands, L!DependenciesCompleted, L!State
    <3> QED
      BY <3>2, <3>3 DEF ItemOK, RowShape, AnswerStored, Answered
  <2> QED
    BY <1>1, <1>2, <1>3, <2>1 DEF ItemOK, PromptStands, RequestReports
<1>6. RetryReports(c)
  <2> SUFFICES ASSUME NEW row \in retries, row.attempt = a
               PROVE  /\ Readable(<<a, FALSE>>, c.request)
                      /\ Native(<<a, FALSE>>) = row.receipt
    BY <1>2 DEF RetryReports
  <2>1. [slot |-> <<a, FALSE>>, native |-> row.receipt] \in receipts
    BY DEF Durable, RetriedByReceipt
  <2>2. row.receipt # Null
    BY AttemptsTyped, NullAssumption DEF LP!Retries
  <2> QED
    BY <1>3, <1>4, <2>1, <2>2, FileIsRead
<1>7. ReceiptReports(c)
  <2> SUFFICES ASSUME c.state \in {"failed", "limited"} \/ Files(Slot(a)) # {}
               PROVE  Readable(Slot(a), c.request)
    BY <1>2 DEF ReceiptReports
  <2>1. PICK f \in Files(Slot(a)) : TRUE
    BY <1>1, <1>2 DEF ItemOK, ClosedByReceipt
  <2>2. f.native # Null
    BY <1>2, <2>1 DEF Torn, AttemptOf
  <2>3. f \in receipts /\ f.slot = Slot(a)
    BY <2>1 DEF Files
  <2>4. f.slot[1] = a
    BY <2>3 DEF Slot
  <2>5. FileOK(f)
    BY <2>3 DEF Durable, FilesSound
  <2> QED
    BY <1>4, <2>1, <2>2, <2>4, <2>5 DEF FileOK, Readable
<1>8. ResultReports(c)
  <2> SUFFICES ASSUME c.result # Null
               PROVE  /\ c.result \in objects
                      /\ \A row \in reconciliations : row.attempt = a =>
                            /\ Readable(Slot(a), c.request)
                            /\ Native(Slot(a)) = row.receipt
                            /\ row.receipt.result = c.result
                            /\ row.result = c.result
    BY <1>2 DEF ResultReports
  <2>1. c.result \in objects
    BY <1>1 DEF ItemOK, AnswerStored
  <2>2. ASSUME NEW row \in reconciliations, row.attempt = a
        PROVE  /\ Readable(Slot(a), c.request)
               /\ Native(Slot(a)) = row.receipt
               /\ row.receipt.result = c.result
               /\ row.result = c.result
    <3>1. ReconciledBy(row)
      BY DEF Durable, ReconciledByReceipt
    <3>2. row.result = c.result /\ row.receipt.result = c.result
      BY <1>4, <2>2, <3>1 DEF ReconciledBy
    <3>3. PICK late \in BOOLEAN : Slot(a) = <<a, late>>
      BY DEF Slot, Retried
    <3>4. [slot |-> <<a, late>>, native |-> row.receipt] \in receipts
      BY <2>2, <3>1, <3>3 DEF ReconciledBy
    <3>5. row.receipt # Null
      BY AttemptsTyped, NullAssumption DEF LP!Reconciliations
    <3> QED
      BY <1>3, <1>4, <3>2, <3>3, <3>4, <3>5, FileIsRead
  <2> QED
    BY <2>1, <2>2
<1> QED
  BY <1>5, <1>6, <1>7, <1>8

(* Whatever commands and deaths leave, the verification with which _report     *)
(* starts every command passes, unless a receipt was created and not written. *)
THEOREM RunAlwaysReopens == Spec => []RunReopens
<1>1. IInv => RunReopens
  BY ItemReports DEF IInv, RunReopens, Reports
<1> QED
  BY <1>1, RunInvariance, PTL

-----------------------------------------------------------------------------
(* The money of the run *)

LEMMA CampaignHolds == CP!CampaignAssumption /\ CP!CallsAssumption /\ CP!AmountsAssumption
<1>1. CP!CampaignAssumption
  BY RunAssumption DEF CP!CampaignAssumption
<1>2. CP!CallsAssumption
  BY DEF CP!CallsAssumption, OwnCalls, OwnCall, OtherCall
<1>3. CP!AmountsAssumption
  <2> DEFINE calls == OwnCalls \cup {OtherCall(o) : o \in Others}
  <2>1. \A call \in calls : call.amount = <<1, 1>>
    BY DEF OwnCalls, OwnCall, OtherCall
  <2>2. {call.amount[2] : call \in {k \in calls : k.amount # Null}} \subseteq {1}
    BY <2>1
  <2>3. IsFiniteSet({1})
    BY FS_Singleton
  <2>4. IsFiniteSet({call.amount[2] : call \in {k \in calls : k.amount # Null}})
    BY <2>2, <2>3, FS_Subset
  <2>5. \A call \in calls : call.amount[1] \in Int /\ call.amount[2] \in Nat \ {0}
    BY <2>1
  <2> QED
    BY <2>4, <2>5 DEF CP!AmountsAssumption, CP!IsFiniteSet, IsFiniteSet
<1> QED
  BY <1>1, <1>2, <1>3

LEMMA SameCampaign ==
    /\ Shared!Total = CP!Total
    /\ \A call : Shared!Reserve(call) <=> CP!Reserve(call)
<1>1. Shared!Total = CP!Total
  BY DEF Shared!Total, CP!Total, Shared!MapThenSumSet, CP!MapThenSumSet,
         Shared!MapThenFoldSet, CP!MapThenFoldSet
<1>2. \A call : Shared!Row(call) = CP!Row(call)
  BY DEF Shared!Row, CP!Row, Shared!Units, CP!Units, Shared!RoundedUp, CP!RoundedUp
<1>3. \A call : Shared!Reserve(call) <=> CP!Reserve(call)
  BY <1>1, <1>2
     DEF Shared!Reserve, CP!Reserve, Shared!CanReserve, CP!CanReserve,
         Shared!ValidAmount, CP!ValidAmount, Shared!Positive, CP!Positive,
         Shared!Reserved, CP!Reserved, Shared!SameBinding, CP!SameBinding,
         Shared!Fits, CP!Fits
<1> QED
  BY <1>1, <1>3

(* The shared file as its reservations leave it. *)
FileInv == IInv /\ CP!OneRowEach /\ CP!Booked

LEMMA FileStep ==
    ASSUME FileInv, [Next]_vars
    PROVE  FileInv'
<1>1. IInv'
  BY StepKeepsAll DEF FileInv, Keeps
<1>2. ASSUME NEW call \in OwnCalls \cup {OtherCall(o) : o \in Others}, Shared!Reserve(call)
      PROVE  FileInv'
  <2>1. CP!Reserve(call)
    BY <1>2, SameCampaign
  <2>2. tracking \in BOOLEAN /\ CP!OneRowEach /\ CP!Booked
    BY DEF FileInv, IInv, Durable
  <2>3. CP!Booked'
    BY <2>1, <2>2, CampaignHolds, CP!ReserveWithinCeiling
  <2>4. CP!OneRowEach'
    BY <2>1, <2>2, CampaignHolds, CP!ReserveLeavesRow
  <2> QED
    BY <1>1, <2>3, <2>4 DEF FileInv
<1>3. CASE UNCHANGED campaignVars
  <2>1. CP!OneRowEach' /\ CP!Booked'
    BY <1>3, CampaignHolds, CP!FileKept DEF FileInv, CP!campaignVars, campaignVars
  <2> QED
    BY <1>1, <2>1 DEF FileInv
<1>4. ASSUME NEW p \in Procs, Fund(p)
      PROVE  FileInv'
  <2>1. PICK l \in Locals, w \in Work :
           l = proc[p] /\ w = Item(p) /\ l.request \in Envelopes /\ ItemOK(w)
    BY <1>4, Worker DEF FileInv, Fund, Working, Preparing
  <2>2. PICK a, q : a = L!Current(w).attempt /\ q = l.request
    OBVIOUS
  <2>3. a \in Nat
    BY <2>2, RowFacts DEF FileInv, IInv, LP!Events
  <2>4. Shared!Reserve(OwnCall(a, q))
    BY <1>4, <2>1, <2>2 DEF Fund, AttemptAt, AttemptOf
  <2>5. OwnCall(a, q) \in OwnCalls
    BY <2>1, <2>2, <2>3 DEF OwnCalls
  <2> QED
    BY <1>2, <2>4, <2>5
<1>5. ASSUME NEW o \in Others, OtherRunReserves(o)
      PROVE  FileInv'
  BY <1>2, <1>5 DEF OtherRunReserves
<1>6. ASSUME NEW p \in Procs, NEW x \in Externals \cup {Null}, Resume(p, x)
      PROVE  FileInv'
  BY <1>3, <1>6 DEF Resume
<1>7. ASSUME NEW p \in Procs, Drive(p) \/ Dies(p)
      PROVE  FileInv'
  BY <1>3, <1>4, <1>7
     DEF Drive, Dies, CompleteSaved, Pass, Stop, SkipItem, PutRequest, ReserveLocally,
         ReuseReservation, NotAdmitted, Unfunded, StartLocally, Reaches, NeverLeaves,
         Answers, PutResult, RecordSuccess, CompleteItem, CreateReceipt, WriteReceipt,
         Settle, FinishReconciled
<1>8. ASSUME NEW p \in Procs, NEW a \in 1..Len(attempts),
             AuthorizeUnsent(p, a) \/ Reconcile(p, a) \/ ReconcileAgain(p, a)
      PROVE  FileInv'
  BY <1>3, <1>8 DEF AuthorizeUnsent, Reconcile, ReconcileAgain
<1>9. CASE UNCHANGED vars
  BY <1>3, <1>9 DEF vars
<1> QED
  BY <1>5, <1>6, <1>7, <1>8, <1>9 DEF Next

LEMMA FileInit == Init => FileInv
<1> SUFFICES ASSUME Init
             PROVE  FileInv
  OBVIOUS
<1>1. reservations = {} /\ tracking = FALSE
  BY DEF Init, Shared!Init
<1>2. CP!CallersInit
  BY <1>1 DEF CP!CallersInit, CP!Init
<1>3. CP!IInv
  BY <1>2, CampaignHolds, CP!InitInvariant
<1> QED
  BY <1>3, InitHolds DEF CP!IInv, FileInv

(* Nothing of this run is ever in flight without its own reservation, under    *)
(* the request that was sent, and all runs together stay within the ceiling  *)
(* (_drive reserves in the campaign before ledger.start).                   *)
THEOREM SendsAreFunded == Spec => []FundedBeforeSent
<1>1. FileInv => FundedBeforeSent
  <2> SUFFICES ASSUME FileInv, Campaigned
               PROVE  /\ \A i \in 1..Len(events) : events[i].state = "in_flight" =>
                            Shared!Reserved(<<"own", events[i].attempt>>)
                            /\ Shared!SameBinding(OwnCall(events[i].attempt, events[i].request))
                      /\ Shared!Total <= Ceiling
    BY DEF FundedBeforeSent
  <2>1. ASSUME NEW i \in 1..Len(events), events[i].state = "in_flight"
        PROVE  /\ Shared!Reserved(<<"own", events[i].attempt>>)
               /\ Shared!SameBinding(OwnCall(events[i].attempt, events[i].request))
    <3>1. PICK a, q : a = events[i].attempt /\ q = events[i].request
      OBVIOUS
    <3>2. Shared!Row(OwnCall(a, q)) \in reservations
      BY <2>1, <3>1 DEF FileInv, IInv, Durable, FundedSends, Funded
    <3>3. Shared!Row(OwnCall(a, q)).attempt = <<"own", a>>
      BY DEF Shared!Row, OwnCall
    <3> QED
      BY <3>1, <3>2, <3>3 DEF Shared!Reserved, Shared!SameBinding
  <2>2. Shared!Total <= Ceiling
    <3>1. tracking = FALSE /\ CP!SumWithinCeiling
      BY DEF FileInv, IInv, Durable, CP!Booked
    <3>2. CP!Total <= Ceiling * 1
      BY <3>1 DEF CP!SumWithinCeiling
    <3>3. Ceiling * 1 = Ceiling
      BY RunAssumption
    <3> QED
      BY <3>2, <3>3, SameCampaign
  <2> QED
    BY <2>1, <2>2
<1>2. FileInv /\ [Next]_vars => FileInv'
  BY FileStep
<1> QED
  BY <1>1, <1>2, FileInit, PTL DEF Spec
=============================================================================
