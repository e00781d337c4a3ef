---------------------------- MODULE LedgerProofs ----------------------------
(***************************************************************************)
(* Proofs about Ledger for every plan, every set of digests and every      *)
(* number of calls.                                                        *)
(***************************************************************************)
EXTENDS Ledger, FiniteSetTheorems, TLAPS

(* Every item has a current state: no query of current_states comes back   *)
(* empty.                                                                  *)
Present == \A w \in Work : \E j \in 1..Len(events) : IsLast(w, j, Len(events))

(* What a transaction does to the table of events: it appends, and at most *)
(* one event for each item.                                                *)
Added == (Len(events) + 1)..Len(events')

Extension ==
    /\ events' \in Seq(Events)
    /\ Len(events') >= Len(events)
    /\ \A i \in 1..Len(events) : events'[i] = events[i]
    /\ \A i, j \in Added : events'[i].work = events'[j].work => i = j

(* The rows already in the other tables stay, and stay visible. *)
TablesGrow ==
    /\ attempts' \in Seq(Attempts)
    /\ Len(attempts') >= Len(attempts)
    /\ \A a \in 1..Len(attempts) : attempts'[a] = attempts[a]
    /\ SeenRetries \subseteq SeenRetries'
    /\ SeenReconciliations \subseteq SeenReconciliations'

(* Event i, just added, is a legal move on from event p, which was current. *)
MovesOn(p, i) ==
    /\ events'[i].state \in Moves[events[p].state]
    /\ events[p].state = "uncertain" /\ events'[i].state = "reserved" =>
          \E row \in SeenRetries' : row.attempt = events'[i].attempt /\ row.uncertain = p
    /\ events[p].state = "uncertain" /\ events'[i].state # "reserved" =>
          \E row \in SeenReconciliations' : /\ row.attempt = events'[i].attempt
                                            /\ row.result = events'[i].result
    /\ events'[i].state = "completed" => events'[i].result = events[p].result

(* Its attempt is on record. *)
Attempted(i) ==
    events'[i].attempt # 0 =>
        /\ events'[i].attempt \in 1..Len(attempts')
        /\ attempts'[events'[i].attempt] =
               [work |-> events'[i].work, request |-> events'[i].request]

(* If it is a reservation, it was admissible. *)
Admissible(p, i) ==
    events'[i].state = "reserved" =>
        /\ events'[i].attempt # 0
        /\ DependenciesCompleted(events'[i].work)
        /\ \/ events[p].state = "uncertain"
           \/ \A j \in 1..Len(events) : events[j].work = events'[i].work =>
                                            events[j].state # "reserved"

(* All that the tables and the added events of a transaction have in common. *)
GoodStep ==
    /\ Extension
    /\ TablesGrow
    /\ \A i \in Added :
          /\ MovesOn(LastIndex(events'[i].work), i)
          /\ Attempted(i)
          /\ Admissible(LastIndex(events'[i].work), i)

(* Every row added to another table is explained by an added event. *)
Explained ==
    /\ \A a, b \in 1..Len(attempts') : attempts'[a].work = attempts'[b].work => a = b
    /\ \A a \in 1..Len(attempts') : \/ a \in 1..Len(attempts)
                                    \/ \E i \in Added :
                                          /\ events'[i].work = attempts'[a].work
                                          /\ events'[i].state = "reserved"
    /\ \A row \in SeenRetries' : \/ row \in SeenRetries
                                \/ \E i \in Added :
                                      /\ State(events'[i].work) = "uncertain"
                                      /\ events'[i].state = "reserved"
                                      /\ events'[i].attempt = row.attempt
    /\ \A row \in SeenReconciliations' : \/ row \in SeenReconciliations
                                        \/ \E i \in Added :
                                              /\ State(events'[i].work) = "uncertain"
                                              /\ events'[i].state # "reserved"
                                              /\ events'[i].attempt = row.attempt

(* The extension tables are created by the first row they hold. *)
NoTableNoRows ==
    /\ version < 2 => reconciliations = {}
    /\ version < 3 => retries = {}

(* What an attempted item depends on stays completed. *)
PromptsSettled ==
    \A a \in 1..Len(attempts) : DependenciesCompleted(attempts[a].work)

(* The inductive invariant. *)
IInv == TypeOK /\ Present /\ NoTableNoRows /\ PromptsSettled /\ HistoryVerifies

-----------------------------------------------------------------------------
(* Sequences *)

(* Appending one event is an extension by that event. *)
LEMMA AppendExtends ==
    ASSUME TypeOK, NEW e \in Events, events' = Append(events, e)
    PROVE  /\ Extension
           /\ Added = {Len(events) + 1}
           /\ events'[Len(events) + 1] = e
           /\ Len(events') = Len(events) + 1
<1>1. events \in Seq(Events)
  BY DEF TypeOK
<1>2. events' \in Seq(Events) /\ Len(events') = Len(events) + 1
  BY <1>1
<1>3. \A i \in 1..Len(events) : events'[i] = events[i]
  BY <1>1
<1>4. events'[Len(events) + 1] = e
  BY <1>1
<1>5. Len(events) \in Nat
  BY <1>1
<1>6. Added = {Len(events) + 1}
  BY <1>2, <1>5 DEF Added
<1> QED
  BY <1>2, <1>3, <1>4, <1>5, <1>6 DEF Extension

(* Appending one event for each of several items is an extension. *)
LEMMA ConcatExtends ==
    ASSUME TypeOK, NEW g \in Seq(Events), events' = events \o g,
           \A i, j \in 1..Len(g) : g[i].work = g[j].work => i = j
    PROVE  /\ Extension
           /\ \A i \in Added : i - Len(events) \in 1..Len(g)
           /\ \A i \in Added : events'[i] = g[i - Len(events)]
           /\ \A m \in 1..Len(g) : /\ Len(events) + m \in Added
                                   /\ events'[Len(events) + m] = g[m]
<1>1. events \in Seq(Events) /\ Len(events) \in Nat /\ Len(g) \in Nat
  BY DEF TypeOK
<1>2. events' \in Seq(Events) /\ Len(events') = Len(events) + Len(g)
  BY <1>1
<1>3. \A i \in 1..Len(events) : events'[i] = events[i]
  BY <1>1
<1>4. \A i \in Added : i - Len(events) \in 1..Len(g)
  BY <1>1, <1>2 DEF Added
<1>5. \A i \in Added : events'[i] = g[i - Len(events)]
  BY <1>1, <1>2, <1>4 DEF Added
<1>6. \A m \in 1..Len(g) : Len(events) + m \in Added /\ events'[Len(events) + m] = g[m]
  BY <1>1, <1>2, <1>5 DEF Added
<1>7. \A i, j \in Added : events'[i].work = events'[j].work => i = j
  <2> SUFFICES ASSUME NEW i \in Added, NEW j \in Added,
                      events'[i].work = events'[j].work
               PROVE  i = j
    OBVIOUS
  <2>1. i \in Int /\ j \in Int
    BY <1>1, <1>2 DEF Added
  <2>2. g[i - Len(events)].work = g[j - Len(events)].work
    BY <1>5
  <2>3. i - Len(events) \in 1..Len(g) /\ j - Len(events) \in 1..Len(g)
    BY <1>4
  <2>4. i - Len(events) = j - Len(events)
    BY <2>2, <2>3
  <2> QED
    BY <2>1, <2>4, <1>1
<1>8. Len(events') >= Len(events)
  BY <1>1, <1>2
<1>9. Extension
  BY <1>2, <1>3, <1>7, <1>8 DEF Extension
<1> QED
  BY <1>4, <1>5, <1>6, <1>9

-----------------------------------------------------------------------------
(* The current_states view *)

(* current_states has exactly one row for an item, and it is the last      *)
(* event of that item.                                                     *)
LEMMA CurrentIsLast ==
    ASSUME TypeOK, Present, NEW w \in Work
    PROVE  /\ LastIndex(w) \in 1..Len(events)
           /\ IsLast(w, LastIndex(w), Len(events))
           /\ Current(w) \in Events
           /\ Current(w).work = w
<1>1. \E j \in 1..Len(events) : IsLast(w, j, Len(events))
  BY DEF Present
<1>2. LastIndex(w) \in 1..Len(events) /\ IsLast(w, LastIndex(w), Len(events))
  BY <1>1 DEF LastIndex
<1>3. events \in Seq(Events)
  BY DEF TypeOK
<1>4. Current(w) \in Events
  BY <1>2, <1>3 DEF Current
<1>5. Current(w).work = w
  BY <1>2 DEF Current, IsLast
<1> QED
  BY <1>2, <1>4, <1>5

(* Only one event is the last one of an item among the first n. *)
LEMMA LastUnique ==
    ASSUME NEW w, NEW n \in Nat, NEW i, NEW j, IsLast(w, i, n), IsLast(w, j, n)
    PROVE  i = j
BY DEF IsLast

(* An extension leaves every earlier view of the history as it was. *)
LEMMA ExtensionKeepsPast ==
    ASSUME TypeOK, Extension,
           NEW w, NEW j, NEW n \in 0..Len(events)
    PROVE  IsLast(w, j, n)' <=> IsLast(w, j, n)
<1>1. Len(events) \in Nat
  BY DEF TypeOK
<1>2. \A k \in 1..n : events'[k] = events[k]
  BY <1>1 DEF Extension
<1> QED
  BY <1>2 DEF IsLast

(* The event an extension adds for an item follows the item's current one. *)
LEMMA AddedFollowsCurrent ==
    ASSUME TypeOK, Extension,
           NEW w, NEW p, IsLast(w, p, Len(events)),
           NEW i \in Added, events'[i].work = w
    PROVE  IsLast(w, p, i - 1)'
<1>1. Len(events) \in Nat /\ Len(events') \in Nat
  BY DEF TypeOK, Extension
<1>2. p \in 1..Len(events)
  BY DEF IsLast
<1>3. i \in Nat /\ i - 1 >= Len(events) /\ i <= Len(events')
  BY <1>1 DEF Added
<1>4. p \in 1..(i - 1) /\ events'[p].work = w
  BY <1>1, <1>2, <1>3 DEF IsLast, Extension
<1>5. ASSUME NEW k \in 1..(i - 1), events'[k].work = w
      PROVE  k <= p
  <2>1. CASE k \in 1..Len(events)
    BY <1>5, <2>1 DEF IsLast, Extension
  <2>2. CASE k \notin 1..Len(events)
    <3>1. k \in Added
      BY <1>1, <1>3, <2>2 DEF Added
    <3>2. k = i
      BY <3>1, <1>5 DEF Extension
    <3> QED
      BY <3>2, <1>3
  <2> QED
    BY <2>1, <2>2
<1> QED
  BY <1>4, <1>5 DEF IsLast

(* It is then the item's last event. *)
LEMMA AddedIsLast ==
    ASSUME TypeOK, Extension, NEW w, NEW i \in Added, events'[i].work = w
    PROVE  IsLast(w, i, Len(events))'
<1>1. Len(events) \in Nat /\ Len(events') \in Nat
  BY DEF TypeOK, Extension
<1>2. i \in 1..Len(events')
  BY <1>1 DEF Added
<1>3. ASSUME NEW k \in 1..Len(events'), events'[k].work = w
      PROVE  k <= i
  <2>1. CASE k \in 1..Len(events)
    BY <2>1, <1>1 DEF Added
  <2>2. CASE k \notin 1..Len(events)
    <3>1. k \in Added
      BY <1>1, <2>2 DEF Added
    <3>2. k = i
      BY <3>1, <1>3 DEF Extension
    <3> QED
      BY <3>2, <1>1, <1>2
  <2> QED
    BY <2>1, <2>2
<1> QED
  BY <1>2, <1>3 DEF IsLast

(* The current event of every other item is unchanged. *)
LEMMA OthersUnchanged ==
    ASSUME TypeOK, Extension, NEW w, NEW p, IsLast(w, p, Len(events)),
           \A i \in Added : events'[i].work # w
    PROVE  IsLast(w, p, Len(events))'
<1>1. Len(events) \in Nat /\ Len(events') \in Nat /\ Len(events) <= Len(events')
  BY DEF TypeOK, Extension
<1>2. p \in 1..Len(events') /\ events'[p].work = w
  BY <1>1 DEF IsLast, Extension
<1>3. ASSUME NEW k \in 1..Len(events'), events'[k].work = w
      PROVE  k <= p
  <2>1. k \in 1..Len(events)
    BY <1>1, <1>3 DEF Added
  <2> QED
    BY <1>3, <2>1 DEF IsLast, Extension
<1> QED
  BY <1>2, <1>3 DEF IsLast

(* So no item loses its current state. *)
LEMMA ExtensionPresent ==
    ASSUME TypeOK, Present, Extension
    PROVE  Present'
<1> SUFFICES ASSUME NEW w \in Work
             PROVE  \E j : IsLast(w, j, Len(events))'
  BY DEF Present, IsLast
<1>1. CASE \E i \in Added : events'[i].work = w
  BY <1>1, AddedIsLast
<1>2. CASE \A i \in Added : events'[i].work # w
  <2>1. IsLast(w, LastIndex(w), Len(events))
    BY CurrentIsLast
  <2>2. PICK p : IsLast(w, p, Len(events))
    BY <2>1
  <2> QED
    BY <1>2, <2>2, OthersUnchanged
<1> QED
  BY <1>1, <1>2

-----------------------------------------------------------------------------
(* A good step leaves a history that verifies *)

(* What verified before the step verifies after it. *)
LEMMA PastStillVerifies ==
    ASSUME TypeOK, Extension, TablesGrow,
           NEW i \in 1..Len(events), EventVerifies(i)
    PROVE  EventVerifies(i)'
<1>1. Len(events) \in Nat /\ Len(attempts) \in Nat /\ Len(attempts') \in Nat
  BY DEF TypeOK, TablesGrow
<1>2. \A j \in 1..Len(events) : events'[j] = events[j]
  BY DEF Extension
<1>3. i \in 1..Len(events) /\ i - 1 \in 0..Len(events) /\ \A j \in 1..(i - 1) : j \in 1..Len(events)
  BY <1>1
<1>4. \A w, j : IsLast(w, j, i - 1)' <=> IsLast(w, j, i - 1)
  BY <1>3, ExtensionKeepsPast
<1>5. \A p : Precedes(p, i)' <=> Precedes(p, i)
  BY <1>2, <1>4 DEF Precedes
<1>6. ASSUME NEW p \in 1..(i - 1), MoveVerifies(p, i)
      PROVE  MoveVerifies(p, i)'
  BY <1>2, <1>3, <1>6 DEF MoveVerifies, RetryMove, RecoveryMove, TablesGrow
<1>7. ASSUME ReservationVerifies(i)
      PROVE  ReservationVerifies(i)'
  <2>1. \A d \in Deps[events'[i].work] :
           \E j \in 1..(i - 1) : IsLast(d, j, i - 1)' /\ events'[j].state = "completed"
    BY <1>2, <1>3, <1>4, <1>7 DEF ReservationVerifies
  <2>2. (\E j \in 1..(i - 1) : /\ events'[j].work = events'[i].work
                                /\ events'[j].state = "reserved") =>
           \E p \in 1..(i - 1) : Precedes(p, i)' /\ RetryMove(p, i)'
    BY <1>2, <1>3, <1>5, <1>7 DEF ReservationVerifies, RetryMove
  <2> QED
    BY <2>1, <2>2 DEF ReservationVerifies
<1>8. ASSUME events'[i].attempt # 0
      PROVE  /\ events'[i].attempt \in 1..Len(attempts')
             /\ attempts'[events'[i].attempt] =
                    [work |-> events'[i].work, request |-> events'[i].request]
  BY <1>1, <1>2, <1>8 DEF EventVerifies, TablesGrow, AttemptRow
<1>9. \/ /\ events'[i].state = "planned"
         /\ \A j \in 1..(i - 1) : events'[j].work # events'[i].work
      \/ \E p \in 1..(i - 1) : Precedes(p, i)' /\ MoveVerifies(p, i)'
  BY <1>2, <1>3, <1>5, <1>6 DEF EventVerifies
<1>10. events'[i].state = "reserved" => ReservationVerifies(i)'
  BY <1>2, <1>7 DEF EventVerifies
<1> QED
  BY <1>8, <1>9, <1>10 DEF EventVerifies, AttemptRow

(* An added event verifies, because it is legal where the item stood. *)
LEMMA AddedVerifies ==
    ASSUME TypeOK, Present, GoodStep, NEW i \in Added
    PROVE  EventVerifies(i)'
<1>1. Extension /\ TablesGrow
  BY DEF GoodStep
<1>2. Len(events) \in Nat /\ Len(events') \in Nat /\ Len(events) <= Len(events')
  BY <1>1 DEF TypeOK, Extension
<1>3. i \in 1..Len(events') /\ i - 1 >= Len(events) /\ i \notin 1..Len(events)
  BY <1>2 DEF Added
<1>4. events'[i].work \in Work
  <2>1. events'[i] \in Events
    BY <1>1, <1>3 DEF Extension
  <2> QED
    BY <2>1 DEF Events
<1>5. PICK w \in Work : w = events'[i].work
  BY <1>4
<1>6. PICK p \in 1..Len(events) : p = LastIndex(w) /\ IsLast(w, p, Len(events))
  BY CurrentIsLast
<1>7. p \in 1..(i - 1) /\ events'[p] = events[p]
  BY <1>1, <1>2, <1>3 DEF Extension
<1>8. IsLast(w, p, i - 1)'
  BY <1>1, <1>5, <1>6, AddedFollowsCurrent
<1>9. Precedes(p, i)'
  BY <1>5, <1>8 DEF Precedes
<1>10. MovesOn(p, i) /\ Attempted(i) /\ Admissible(p, i)
  BY <1>5, <1>6 DEF GoodStep
<1>11. MoveVerifies(p, i)'
  BY <1>7, <1>10 DEF MovesOn, MoveVerifies, RetryMove, RecoveryMove
<1>12. ASSUME events'[i].state = "reserved"
       PROVE  ReservationVerifies(i)'
  <2>1. ASSUME NEW d \in Deps[w]
        PROVE  \E j \in 1..(i - 1) : IsLast(d, j, i - 1)' /\ events'[j].state = "completed"
    <3>1. d \in Work
      BY PlanAssumption
    <3>2. State(d) = "completed"
      BY <1>5, <1>10, <1>12 DEF Admissible, DependenciesCompleted
    <3>3. PICK q \in 1..Len(events) : IsLast(d, q, Len(events)) /\ events[q].state = "completed"
      BY <3>1, <3>2, CurrentIsLast DEF State, Current
    <3>4. d # w
      <4>1. events[p].state # "completed"
        BY <1>10, <1>12 DEF MovesOn, Moves, States
      <4> QED
        BY <4>1, <3>3, <1>6, <1>2, LastUnique
    <3>5. q \in 1..(i - 1) /\ events'[q] = events[q]
      BY <1>1, <1>2, <1>3 DEF Extension
    <3>6. ASSUME NEW k \in 1..(i - 1), events'[k].work = d
          PROVE  k <= q
      <4>1. CASE k \in 1..Len(events)
        BY <1>1, <3>3, <3>6, <4>1 DEF IsLast, Extension
      <4>2. CASE k \notin 1..Len(events)
        <5>1. k \in Added
          BY <1>2, <1>3, <4>2 DEF Added
        <5>2. MovesOn(LastIndex(d), k)
          BY <5>1, <3>6 DEF GoodStep
        <5>3. events[LastIndex(d)].state = "completed"
          BY <3>2 DEF State, Current
        <5> QED
          BY <5>2, <5>3 DEF MovesOn, Moves, States
      <4> QED
        BY <4>1, <4>2
    <3>7. events'[q].work = d
      BY <3>3, <3>5 DEF IsLast
    <3> QED
      BY <3>3, <3>5, <3>6, <3>7 DEF IsLast
  <2>2. ASSUME NEW j \in 1..(i - 1), events'[j].work = w, events'[j].state = "reserved"
        PROVE  events[p].state = "uncertain"
    <3>1. j \in 1..Len(events)
      <4>1. ASSUME j \notin 1..Len(events)
            PROVE  FALSE
        <5>1. j \in Added
          BY <1>2, <1>3, <4>1 DEF Added
        <5>2. j = i
          BY <5>1, <1>1, <1>5, <2>2 DEF Extension
        <5> QED
          BY <5>2, <1>3
      <4> QED
        BY <4>1
    <3> QED
      BY <1>1, <1>5, <1>10, <1>12, <2>2, <3>1 DEF Admissible, Extension
  <2>3. (\E j \in 1..(i - 1) : /\ events'[j].work = events'[i].work
                                /\ events'[j].state = "reserved") =>
           \E q \in 1..(i - 1) : Precedes(q, i)' /\ RetryMove(q, i)'
    BY <1>5, <1>7, <1>9, <1>12, <2>2 DEF RetryMove
  <2> QED
    BY <1>5, <2>1, <2>3 DEF ReservationVerifies
<1> QED
  BY <1>7, <1>9, <1>10, <1>11, <1>12 DEF EventVerifies, Attempted, AttemptRow

(* A good step leaves what has completed as it was. *)
LEMMA CompletedStays ==
    ASSUME TypeOK, Present, GoodStep, NEW d \in Work, State(d) = "completed"
    PROVE  State(d)' = "completed"
<1>1. Extension
  BY DEF GoodStep
<1>2. Len(events) \in Nat /\ Len(events') \in Nat
  BY <1>1 DEF TypeOK, Extension
<1>3. PICK p \in 1..Len(events) : /\ p = LastIndex(d)
                                  /\ IsLast(d, p, Len(events))
                                  /\ events[p].state = "completed"
  BY CurrentIsLast DEF State, Current
<1>4. \A i \in Added : events'[i].work # d
  <2> SUFFICES ASSUME NEW i \in Added, events'[i].work = d
               PROVE  FALSE
    OBVIOUS
  <2>1. MovesOn(p, i)
    BY <1>3 DEF GoodStep
  <2> QED
    BY <1>3, <2>1 DEF MovesOn, Moves, States
<1>5. IsLast(d, p, Len(events))'
  BY <1>1, <1>3, <1>4, OthersUnchanged
<1>6. LastIndex(d)' = p
  <2>1. \E j \in 1..Len(events') : IsLast(d, j, Len(events))'
    BY <1>5 DEF IsLast
  <2>2. IsLast(d, LastIndex(d), Len(events))'
    BY <2>1 DEF LastIndex
  <2>3. \A i, j : IsLast(d, i, Len(events))' /\ IsLast(d, j, Len(events))' => i = j
    BY <1>2 DEF IsLast
  <2> QED
    BY <1>5, <2>2, <2>3
<1> QED
  BY <1>1, <1>3, <1>6 DEF State, Current, Extension

(* An event that explained a row of an extension table still does. *)
LEMMA PastStillExplains ==
    ASSUME TypeOK, Extension,
           NEW p \in 1..Len(events), NEW i \in 1..Len(events), Precedes(p, i)
    PROVE  /\ Precedes(p, i)'
           /\ RetryMove(p, i)' <=> RetryMove(p, i)
           /\ RecoveryMove(p, i)' <=> RecoveryMove(p, i)
           /\ p \in 1..Len(events') /\ i \in 1..Len(events')
<1>1. Len(events) \in Nat /\ Len(events') \in Nat /\ Len(events) <= Len(events')
  BY DEF TypeOK, Extension
<1>2. events'[i] = events[i] /\ events'[p] = events[p]
  BY DEF Extension
<1>3. PICK w : w = events[i].work
  OBVIOUS
<1>4. i - 1 \in 0..Len(events)
  BY <1>1
<1>5. IsLast(w, p, i - 1)'
  BY <1>3, <1>4, ExtensionKeepsPast DEF Precedes
<1> QED
  BY <1>1, <1>2, <1>3, <1>5 DEF Precedes, RetryMove, RecoveryMove

(* An added event follows the event that was current for its item. *)
LEMMA AddedPrecedes ==
    ASSUME TypeOK, Present, Extension, NEW i \in Added
    PROVE  \E p \in 1..Len(events) :
              /\ Precedes(p, i)'
              /\ events'[p].state = State(events'[i].work)
              /\ p \in 1..Len(events') /\ i \in 1..Len(events')
<1>1. Len(events) \in Nat /\ Len(events') \in Nat /\ Len(events) <= Len(events')
  BY DEF TypeOK, Extension
<1>2. i \in 1..Len(events')
  BY <1>1 DEF Added
<1>3. events'[i].work \in Work
  <2>1. events'[i] \in Events
    BY <1>2 DEF Extension
  <2> QED
    BY <2>1 DEF Events
<1>4. PICK w \in Work : w = events'[i].work
  BY <1>3
<1>5. PICK p \in 1..Len(events) : p = LastIndex(w) /\ IsLast(w, p, Len(events))
  BY CurrentIsLast
<1>6. IsLast(w, p, i - 1)'
  BY <1>4, <1>5, AddedFollowsCurrent
<1>7. events'[p].state = State(w)
  BY <1>5 DEF State, Current, Extension
<1>8. Precedes(p, i)'
  BY <1>4, <1>6 DEF Precedes
<1> QED
  BY <1>1, <1>2, <1>4, <1>7, <1>8

(* The inductive invariant survives a good step that explains its rows. *)
LEMMA GoodStepPreserves ==
    ASSUME IInv, GoodStep, Explained, TypeOK', NoTableNoRows'
    PROVE  IInv'
<1> USE DEF IInv
<1>1. Extension /\ TablesGrow
  BY DEF GoodStep
<1>2. /\ Len(events) \in Nat /\ Len(events') \in Nat /\ Len(events) <= Len(events')
      /\ Len(attempts) \in Nat /\ Len(attempts') \in Nat /\ Len(attempts) <= Len(attempts')
  BY <1>1 DEF TypeOK, Extension, TablesGrow
<1>3. Present'
  BY <1>1, ExtensionPresent
<1>4. \A i \in 1..Len(events') : EventVerifies(i)'
  <2> SUFFICES ASSUME NEW i \in 1..Len(events')
               PROVE  EventVerifies(i)'
    OBVIOUS
  <2>1. CASE i \in 1..Len(events)
    BY <1>1, <2>1, PastStillVerifies DEF HistoryVerifies
  <2>2. CASE i \notin 1..Len(events)
    <3>1. i \in Added
      BY <1>2, <2>2 DEF Added
    <3> QED
      BY <3>1, AddedVerifies
  <2> QED
    BY <2>1, <2>2
<1>5. PromptsSettled'
  <2> SUFFICES ASSUME NEW a \in 1..Len(attempts'), NEW d \in Deps[attempts'[a].work]
               PROVE  State(d)' = "completed"
    BY DEF PromptsSettled, DependenciesCompleted
  <2>1. DependenciesCompleted(attempts'[a].work)
    <3>1. CASE a \in 1..Len(attempts)
      BY <1>1, <3>1 DEF PromptsSettled, TablesGrow
    <3>2. CASE a \notin 1..Len(attempts)
      <4>1. PICK i \in Added : /\ events'[i].work = attempts'[a].work
                               /\ events'[i].state = "reserved"
        BY <3>2 DEF Explained
      <4> QED
        BY <4>1 DEF GoodStep, Admissible
    <3> QED
      BY <3>1, <3>2
  <2>2. State(d) = "completed"
    BY <2>1 DEF DependenciesCompleted
  <2>3. attempts'[a].work \in Work
    <3>1. attempts'[a] \in Attempts
      BY <1>1 DEF TablesGrow
    <3> QED
      BY <3>1 DEF Attempts
  <2>4. d \in Work
    BY <2>3, PlanAssumption
  <2> QED
    BY <2>2, <2>4, CompletedStays
<1>6. \A w \in Work : \E i \in 1..Len(events') : events'[i].work = w
  BY <1>3 DEF Present, IsLast
<1>7. ExtensionsVerify'
  <2>1. ASSUME NEW row \in SeenRetries'
        PROVE  \E i \in 1..Len(events'), p \in 1..Len(events') :
                  /\ Precedes(p, i)' /\ RetryMove(p, i)'
                  /\ events'[i].attempt = row.attempt
    <3>1. CASE row \in SeenRetries
      <4>1. PICK i \in 1..Len(events), p \in 1..Len(events) :
               Precedes(p, i) /\ RetryMove(p, i) /\ events[i].attempt = row.attempt
        BY <3>1 DEF HistoryVerifies, ExtensionsVerify
      <4> QED
        BY <1>1, <4>1, PastStillExplains DEF Extension
    <3>2. CASE row \notin SeenRetries
      <4>1. PICK i \in Added : /\ State(events'[i].work) = "uncertain"
                               /\ events'[i].state = "reserved"
                               /\ events'[i].attempt = row.attempt
        BY <3>2 DEF Explained
      <4> QED
        BY <1>1, <4>1, AddedPrecedes DEF RetryMove
    <3> QED
      BY <3>1, <3>2
  <2>2. ASSUME NEW row \in SeenReconciliations'
        PROVE  \E i \in 1..Len(events'), p \in 1..Len(events') :
                  /\ Precedes(p, i)' /\ RecoveryMove(p, i)'
                  /\ events'[i].attempt = row.attempt
    <3>1. CASE row \in SeenReconciliations
      <4>1. PICK i \in 1..Len(events), p \in 1..Len(events) :
               Precedes(p, i) /\ RecoveryMove(p, i) /\ events[i].attempt = row.attempt
        BY <3>1 DEF HistoryVerifies, ExtensionsVerify
      <4> QED
        BY <1>1, <4>1, PastStillExplains DEF Extension
    <3>2. CASE row \notin SeenReconciliations
      <4>1. PICK i \in Added : /\ State(events'[i].work) = "uncertain"
                               /\ events'[i].state # "reserved"
                               /\ events'[i].attempt = row.attempt
        BY <3>2 DEF Explained
      <4> QED
        BY <1>1, <4>1, AddedPrecedes DEF RecoveryMove
    <3> QED
      BY <3>1, <3>2
  <2> QED
    BY <2>1, <2>2 DEF ExtensionsVerify
<1>8. AttemptsVerify'
  <2>1. \A w \in Work : (\E a \in 1..Len(attempts) : attempts[a].work = w) <=>
          (\E i \in 1..Len(events) : events[i].work = w /\ events[i].state = "reserved")
    BY DEF HistoryVerifies, AttemptsVerify
  <2>2. ASSUME NEW a \in 1..Len(attempts')
        PROVE  \E i \in 1..Len(events') : /\ events'[i].work = attempts'[a].work
                                          /\ events'[i].state = "reserved"
    <3>1. CASE a \in 1..Len(attempts)
      <4>1. attempts'[a] = attempts[a] /\ attempts[a] \in Attempts
        BY <1>1, <3>1 DEF TypeOK, TablesGrow
      <4>2. attempts[a].work \in Work
        BY <4>1 DEF Attempts
      <4>3. PICK i \in 1..Len(events) : /\ events[i].work = attempts[a].work
                                        /\ events[i].state = "reserved"
        BY <2>1, <3>1, <4>2
      <4> QED
        BY <1>1, <1>2, <4>1, <4>3 DEF Extension
    <3>2. CASE a \notin 1..Len(attempts)
      BY <1>2, <3>2 DEF Explained, Added
    <3> QED
      BY <3>1, <3>2
  <2>3. ASSUME NEW i \in 1..Len(events'), events'[i].state = "reserved"
        PROVE  \E a \in 1..Len(attempts') : attempts'[a].work = events'[i].work
    <3>1. CASE i \in 1..Len(events)
      <4>1. events'[i] = events[i] /\ events[i] \in Events
        BY <1>1, <3>1 DEF TypeOK, Extension
      <4>2. events[i].work \in Work
        BY <4>1 DEF Events
      <4>3. PICK a \in 1..Len(attempts) : attempts[a].work = events[i].work
        BY <2>1, <2>3, <3>1, <4>1, <4>2
      <4> QED
        BY <1>1, <1>2, <4>1, <4>3 DEF TablesGrow
    <3>2. CASE i \notin 1..Len(events)
      <4>1. i \in Added
        BY <1>2, <3>2 DEF Added
      <4>2. Attempted(i) /\ events'[i].attempt # 0
        BY <2>3, <4>1 DEF GoodStep, Admissible
      <4> QED
        BY <4>2 DEF Attempted
    <3> QED
      BY <3>1, <3>2
  <2>4. \A a, b \in 1..Len(attempts') : attempts'[a].work = attempts'[b].work => a = b
    BY DEF Explained
  <2>5. ASSUME NEW w \in Work
        PROVE  (\E a \in 1..Len(attempts') : attempts'[a].work = w) <=>
               (\E i \in 1..Len(events') : /\ events'[i].work = w
                                           /\ events'[i].state = "reserved")
    <3>1. ASSUME NEW a \in 1..Len(attempts'), attempts'[a].work = w
          PROVE  \E i \in 1..Len(events') : /\ events'[i].work = w
                                            /\ events'[i].state = "reserved"
      BY <2>2, <3>1
    <3>2. ASSUME NEW i \in 1..Len(events'), events'[i].work = w,
                 events'[i].state = "reserved"
          PROVE  \E a \in 1..Len(attempts') : attempts'[a].work = w
      BY <2>3, <3>2
    <3> QED
      BY <3>1, <3>2
  <2> QED
    BY <2>4, <2>5 DEF AttemptsVerify
<1>9. HistoryVerifies'
  BY <1>4, <1>6, <1>7, <1>8 DEF HistoryVerifies
<1> QED
  BY <1>3, <1>5, <1>9

-----------------------------------------------------------------------------
(* Init and the actions *)

(* The planned events of a new ledger verify. *)
LEMMA InitInvariant ==
    Init => IInv
<1> SUFFICES ASSUME Init PROVE IInv
  OBVIOUS
<1>1. Len(Plan) \in Nat /\ Plan \in Seq(Work)
  BY PlanAssumption
<1>2. /\ Len(events) = Len(Plan)
      /\ \A i \in 1..Len(Plan) : events[i] = Unattempted(Plan[i], "planned")
  BY <1>1 DEF Init
<1>3. \A i \in 1..Len(Plan) : Plan[i] \in Work
  BY <1>1
<1>4. \A i \in 1..Len(Plan) : /\ events[i] \in Events
                              /\ events[i].work = Plan[i]
                              /\ events[i].state = "planned"
                              /\ events[i].attempt = 0
  <2> SUFFICES ASSUME NEW i \in 1..Len(Plan), NEW w \in Work, w = Plan[i]
               PROVE  /\ events[i] \in Events
                      /\ events[i].work = w
                      /\ events[i].state = "planned"
                      /\ events[i].attempt = 0
    BY <1>3
  <2>1. events[i] = [work |-> w, state |-> "planned", attempt |-> 0,
                     request |-> Null, result |-> Null]
    BY <1>2 DEF Unattempted
  <2>2. "planned" \in States
    BY DEF States
  <2> QED
    BY <2>1, <2>2 DEF Events
<1>5. attempts = <<>> /\ reconciliations = {} /\ retries = {} /\ version = 1
  BY DEF Init
<1>6. TypeOK
  <2>1. events \in Seq(Events)
    BY <1>1, <1>4 DEF Init
  <2> QED
    BY <1>5, <2>1 DEF TypeOK
<1>7. Len(attempts) = 0
  BY <1>5
<1>8. Present
  <2> SUFFICES ASSUME NEW w \in Work
               PROVE  \E j \in 1..Len(events) : IsLast(w, j, Len(events))
    BY DEF Present
  <2>1. PICK i \in 1..Len(Plan) : Plan[i] = w
    BY PlanAssumption
  <2>2. ASSUME NEW k \in 1..Len(Plan), events[k].work = w
        PROVE  k = i
    <3>1. Plan[k] = Plan[i]
      BY <1>4, <2>1, <2>2
    <3> QED
      BY <3>1, PlanAssumption
  <2>3. IsLast(w, i, Len(events))
    BY <1>1, <1>2, <1>4, <2>1, <2>2 DEF IsLast
  <2> QED
    BY <1>2, <2>3
<1>9. \A i \in 1..Len(events) : EventVerifies(i)
  <2> SUFFICES ASSUME NEW i \in 1..Len(events)
               PROVE  EventVerifies(i)
    OBVIOUS
  <2>1. \A j \in 1..(i - 1) : events[j].work # events[i].work
    <3> SUFFICES ASSUME NEW j \in 1..(i - 1), events[j].work = events[i].work
                 PROVE  FALSE
      OBVIOUS
    <3>1. j \in 1..Len(Plan) /\ i \in 1..Len(Plan) /\ j < i
      BY <1>1, <1>2
    <3>2. Plan[j] = Plan[i]
      BY <1>4, <3>1
    <3> QED
      BY <3>1, <3>2, PlanAssumption
  <2> QED
    BY <1>2, <1>4, <2>1 DEF EventVerifies
<1>10. \A w \in Work : \E i \in 1..Len(events) : events[i].work = w
  BY <1>8 DEF Present, IsLast
<1>11. ExtensionsVerify
  BY <1>5 DEF ExtensionsVerify, SeenRetries, SeenReconciliations
<1>12. AttemptsVerify
  BY <1>2, <1>4, <1>7 DEF AttemptsVerify
<1>13. NoTableNoRows /\ PromptsSettled
  BY <1>5, <1>7 DEF NoTableNoRows, PromptsSettled
<1> QED
  BY <1>6, <1>8, <1>9, <1>10, <1>11, <1>12, <1>13 DEF IInv, HistoryVerifies

(* What is known of the attempt an operation is called with. *)
LEMMA HeldAttempt ==
    ASSUME IInv, NEW a, NEW s, Holds(a, s)
    PROVE  /\ attempts[a].work \in Work
           /\ Current(attempts[a].work) \in Events
           /\ Current(attempts[a].work).work = attempts[a].work
           /\ Current(attempts[a].work).attempt = a
           /\ Current(attempts[a].work).state = s
           /\ State(attempts[a].work) = s
           /\ a \in Nat \ {0}
<1>1. a \in 1..Len(attempts) /\ Len(attempts) \in Nat
  BY DEF Holds, IInv, TypeOK
<1>2. attempts[a] \in Attempts
  BY <1>1 DEF IInv, TypeOK
<1>3. attempts[a].work \in Work
  BY <1>2 DEF Attempts
<1> QED
  BY <1>1, <1>3, CurrentIsLast DEF Holds, State, IInv

(* The current event of an item names the item's attempt. *)
LEMMA CurrentAttempted ==
    ASSUME IInv, NEW w \in Work, Current(w).attempt # 0
    PROVE  /\ Current(w).attempt \in 1..Len(attempts)
           /\ attempts[Current(w).attempt] = [work |-> w, request |-> Current(w).request]
<1>1. EventVerifies(LastIndex(w)) /\ Current(w).work = w
  BY CurrentIsLast DEF IInv, HistoryVerifies
<1> QED
  BY <1>1 DEF EventVerifies, Current, AttemptRow

(* Events that only move attempted items on, or close untouched ones.      *)
Ordinary(i) ==
    LET c == Current(events'[i].work)
        e == events'[i]
    IN  /\ e.state \in Moves[c.state] \ {"reserved"}
        /\ c.state # "uncertain"
        /\ e.attempt = 0 \/ (e.attempt = c.attempt /\ e.request = c.request)
        /\ e.state = "completed" => e.result = c.result

LEMMA OrdinaryPreserves ==
    ASSUME IInv, Extension, \A i \in Added : Ordinary(i),
           UNCHANGED <<attempts, reconciliations, retries, version>>
    PROVE  IInv'
<1> USE DEF IInv
<1>1. /\ SeenRetries' = SeenRetries /\ SeenReconciliations' = SeenReconciliations
      /\ attempts' = attempts
  BY DEF SeenRetries, SeenReconciliations
<1>2. TablesGrow
  BY <1>1 DEF TablesGrow, TypeOK
<1>3. ASSUME NEW i \in Added
      PROVE  /\ MovesOn(LastIndex(events'[i].work), i)
             /\ Attempted(i)
             /\ Admissible(LastIndex(events'[i].work), i)
  <2>1. Ordinary(i)
    OBVIOUS
  <2>2. MovesOn(LastIndex(events'[i].work), i)
    BY <2>1 DEF Ordinary, MovesOn, Current
  <2>3. Admissible(LastIndex(events'[i].work), i)
    BY <2>1 DEF Ordinary, Admissible
  <2>4. Attempted(i)
    <3>1. events'[i] \in Events
      BY DEF Extension, Added, TypeOK
    <3>2. PICK w \in Work : w = events'[i].work
      BY <3>1 DEF Events
    <3>3. ASSUME events'[i].attempt # 0
          PROVE  /\ events'[i].attempt = Current(w).attempt
                 /\ events'[i].request = Current(w).request
      BY <2>1, <3>2, <3>3 DEF Ordinary
    <3> QED
      BY <1>1, <3>2, <3>3, CurrentAttempted DEF Attempted
  <2> QED
    BY <2>2, <2>3, <2>4
<1>4. GoodStep
  BY <1>2, <1>3 DEF GoodStep
<1>5. Explained
  BY <1>1 DEF Explained, HistoryVerifies, AttemptsVerify
<1>6. TypeOK' /\ NoTableNoRows'
  BY DEF TypeOK, NoTableNoRows, Extension
<1> QED
  BY <1>4, <1>5, <1>6, GoodStepPreserves

(* The operations that append one ordinary event. *)
LEMMA InsertPreserves ==
    ASSUME IInv, NEW w \in Work, NEW e \in Events, Insert(e), e.work = w,
           e.state \in Moves[Current(w).state] \ {"reserved"},
           Current(w).state # "uncertain",
           e.attempt = 0 \/ (e.attempt = Current(w).attempt /\ e.request = Current(w).request),
           e.state = "completed" => e.result = Current(w).result
    PROVE  IInv'
<1>1. events' = Append(events, e) /\ UNCHANGED <<attempts, reconciliations, retries, version>>
  BY DEF Insert
<1>2. Extension /\ Added = {Len(events) + 1} /\ events'[Len(events) + 1] = e
  BY <1>1, AppendExtends DEF IInv
<1>3. \A i \in Added : Ordinary(i)
  BY <1>2 DEF Ordinary
<1> QED
  BY <1>1, <1>2, <1>3, OrdinaryPreserves

LEMMA StartPreserves ==
    ASSUME IInv, NEW a, Start(a)
    PROVE  IInv'
<1>1. Holds(a, "reserved")
  BY DEF Start
<1>2. PICK w \in Work : w = attempts[a].work
  BY <1>1, HeldAttempt
<1>3. PICK c \in Events : c = Current(w) /\ c.work = w /\ c.state = "reserved"
  BY <1>1, <1>2, HeldAttempt
<1>4. PICK e : e = [c EXCEPT !.state = "in_flight", !.result = Null]
  OBVIOUS
<1>5. Insert(e)
  BY <1>2, <1>3, <1>4 DEF Start, Inflight, Follow
<1>6. /\ e \in Events /\ e.work = w /\ e.state = "in_flight"
      /\ e.attempt = c.attempt /\ e.request = c.request
  BY <1>3, <1>4 DEF Events, States
<1>7. "in_flight" \in Moves["reserved"] \ {"reserved"}
  BY DEF Moves, States
<1> QED
  BY <1>3, <1>5, <1>6, <1>7, InsertPreserves

LEMMA RecordResultPreserves ==
    ASSUME IInv, NEW a, NEW r \in Results, RecordResult(a, r)
    PROVE  IInv'
<1>1. Holds(a, "in_flight")
  BY DEF RecordResult
<1>2. PICK w \in Work : w = attempts[a].work
  BY <1>1, HeldAttempt
<1>3. PICK c \in Events : c = Current(w) /\ c.work = w /\ c.state = "in_flight"
  BY <1>1, <1>2, HeldAttempt
<1>4. PICK e : e = [c EXCEPT !.state = "result_saved", !.result = r]
  OBVIOUS
<1>5. Insert(e)
  BY <1>2, <1>3, <1>4 DEF RecordResult, Follow
<1>6. /\ e \in Events /\ e.work = w /\ e.state = "result_saved"
      /\ e.attempt = c.attempt /\ e.request = c.request
  BY <1>3, <1>4 DEF Events, States
<1>7. "result_saved" \in Moves["in_flight"] \ {"reserved"}
  BY DEF Moves, States
<1> QED
  BY <1>3, <1>5, <1>6, <1>7, InsertPreserves

LEMMA CompletePreserves ==
    ASSUME IInv, NEW a, Complete(a)
    PROVE  IInv'
<1>1. Holds(a, "result_saved")
  BY DEF Complete
<1>2. PICK w \in Work : w = attempts[a].work
  BY <1>1, HeldAttempt
<1>3. PICK c \in Events : c = Current(w) /\ c.work = w /\ c.state = "result_saved"
  BY <1>1, <1>2, HeldAttempt
<1>4. PICK e : e = [c EXCEPT !.state = "completed"]
  OBVIOUS
<1>5. Insert(e)
  BY <1>2, <1>3, <1>4 DEF Complete
<1>6. /\ e \in Events /\ e.work = w /\ e.state = "completed"
      /\ e.attempt = c.attempt /\ e.request = c.request /\ e.result = c.result
  BY <1>3, <1>4 DEF Events, States
<1>7. "completed" \in Moves["result_saved"] \ {"reserved"}
  BY DEF Moves, States
<1> QED
  BY <1>3, <1>5, <1>6, <1>7, InsertPreserves

LEMMA FailPreserves ==
    ASSUME IInv, NEW a, NEW s, Fail(a, s)
    PROVE  IInv'
<1>1. Holds(a, "in_flight") /\ s \in {"failed", "limited"}
  BY DEF Fail
<1>2. PICK w \in Work : w = attempts[a].work
  BY <1>1, HeldAttempt
<1>3. PICK c \in Events : c = Current(w) /\ c.work = w /\ c.state = "in_flight"
  BY <1>1, <1>2, HeldAttempt
<1>4. PICK e : e = [c EXCEPT !.state = s, !.result = Null]
  OBVIOUS
<1>5. Insert(e)
  BY <1>2, <1>3, <1>4 DEF Fail, Follow
<1>6. /\ e \in Events /\ e.work = w /\ e.state = s /\ s \in States
      /\ e.attempt = c.attempt /\ e.request = c.request
  BY <1>1, <1>3, <1>4 DEF Events, States
<1>7. s \in Moves["in_flight"] \ {"reserved"} /\ s # "completed"
  BY <1>1 DEF Moves, States
<1> QED
  BY <1>3, <1>5, <1>6, <1>7, InsertPreserves

LEMMA SkipPreserves ==
    ASSUME IInv, NEW w \in Work, NEW s, Skip(w, s)
    PROVE  IInv'
<1>1. s \in {"unavailable", "blocked"} /\ Current(w).state = "planned"
  BY DEF Skip, State
<1>2. PICK e : e = Unattempted(w, s)
  OBVIOUS
<1>3. Insert(e)
  BY <1>2 DEF Skip
<1>4. e \in Events /\ e.work = w /\ e.state = s /\ e.attempt = 0
  BY <1>1, <1>2 DEF Unattempted, Events, States
<1>5. s \in Moves["planned"] \ {"reserved"} /\ s # "completed"
  BY <1>1 DEF Moves, States
<1> QED
  BY <1>1, <1>3, <1>4, <1>5, InsertPreserves

(* The plan is a finite list, so only finitely many items can be interrupted. *)
LEMMA WorkIsFinite == IsFiniteSet(Work)
<1>1. Len(Plan) \in Nat /\ Plan \in [1..Len(Plan) -> Work]
  BY PlanAssumption
<1>2. Plan \in Surjection(1..Len(Plan), Work)
  BY <1>1, PlanAssumption DEF Surjection
<1>3. IsFiniteSet(1..Len(Plan))
  BY <1>1, FS_Interval
<1> QED
  BY <1>2, <1>3, FS_Surjection

(* One transaction marks every item in flight, each of them once. *)
LEMMA RecoverInterrupts ==
    ASSUME IInv, Recover
    PROVE  /\ Extension
           /\ \A i \in Added : \E w \in InState("in_flight") :
                 events'[i] = Follow(Current(w), "uncertain", Null)
           /\ \A w \in InState("in_flight") : \E i \in Added :
                 events'[i] = Follow(Current(w), "uncertain", Null)
<1> DEFINE S == InState("in_flight")
<1>1. PICK f \in SequenceOps!SetToSeqs(S) :
         events' = events \o [i \in 1..Len(f) |-> Follow(Current(f[i]), "uncertain", Null)]
  BY DEF Recover
<1>2. PICK n \in Nat : n = Cardinality(S)
  <2>1. IsFiniteSet(S)
    BY WorkIsFinite, FS_Subset DEF InState
  <2> QED
    BY <2>1, FS_CardinalityType
<1>3. f \in [1..n -> S] /\ \A i, j \in 1..n : i # j => f[i] # f[j]
  <2>1. SequenceOps!Cardinality(S) = Cardinality(S)
    BY DEF SequenceOps!Cardinality, Cardinality
  <2> QED
    BY <1>1, <1>2, <2>1 DEF SequenceOps!SetToSeqs
<1>4. Len(f) = n
  BY <1>3
<1>5. PICK g : g = [i \in 1..n |-> Follow(Current(f[i]), "uncertain", Null)]
  OBVIOUS
<1>6. events' = events \o g
  BY <1>1, <1>4, <1>5
<1>7. ASSUME NEW i \in 1..n
      PROVE  /\ g[i] \in Events
             /\ g[i].work = f[i]
             /\ g[i].state = "uncertain"
             /\ g[i].attempt = Current(f[i]).attempt
             /\ g[i].request = Current(f[i]).request
             /\ Current(f[i]).state = "in_flight"
  <2>1. PICK w \in Work : w = f[i] /\ State(w) = "in_flight"
    BY <1>3 DEF InState
  <2>2. PICK c \in Events : c = Current(w) /\ c.work = w
    BY CurrentIsLast DEF IInv
  <2>3. g[i] = [c EXCEPT !.state = "uncertain", !.result = Null]
    BY <1>5, <2>1, <2>2 DEF Follow
  <2>4. c.state = "in_flight"
    BY <2>1, <2>2 DEF State
  <2> QED
    BY <2>1, <2>2, <2>3, <2>4 DEF Events, States
<1>8. g \in Seq(Events) /\ Len(g) = n
  BY <1>5, <1>7
<1>9. \A i, j \in 1..Len(g) : g[i].work = g[j].work => i = j
  BY <1>3, <1>7, <1>8
<1>10. /\ Extension
       /\ \A i \in Added : i - Len(events) \in 1..n /\ events'[i] = g[i - Len(events)]
       /\ \A m \in 1..n : Len(events) + m \in Added /\ events'[Len(events) + m] = g[m]
  BY <1>6, <1>8, <1>9, ConcatExtends DEF IInv
<1>11. f \in Surjection(1..n, S)
  <2>1. f \in Injection(1..n, S)
    BY <1>3 DEF Injection, IsInjective
  <2>2. IsFiniteSet(S)
    BY WorkIsFinite, FS_Subset DEF InState
  <2>3. Cardinality(1..n) = Cardinality(S)
    BY <1>2, FS_Interval
  <2> QED
    BY <2>1, <2>2, <2>3, FS_Injection
<1>12. \A w \in S : \E i \in Added : events'[i] = Follow(Current(w), "uncertain", Null)
  <2> TAKE w \in S
  <2>1. PICK m \in 1..n : f[m] = w
    BY <1>11 DEF Surjection
  <2>2. g[m] = Follow(Current(w), "uncertain", Null)
    BY <1>5, <2>1
  <2> QED
    BY <1>10, <2>2
<1>13. ASSUME NEW i \in Added
       PROVE  \E w \in S : events'[i] = Follow(Current(w), "uncertain", Null)
  <2>1. PICK m \in 1..n : events'[i] = g[m]
    BY <1>10
  <2> QED
    BY <1>3, <1>5, <2>1
<1> QED
  BY <1>10, <1>12, <1>13

(* What such an event is. *)
LEMMA InterruptedEvent ==
    ASSUME TypeOK, Present, NEW w \in InState("in_flight"), NEW e,
           e = Follow(Current(w), "uncertain", Null)
    PROVE  /\ e.work = w /\ e.state = "uncertain" /\ e.result = Null
           /\ e.attempt = Current(w).attempt
           /\ e.request = Current(w).request
           /\ Current(w).state = "in_flight"
<1>1. w \in Work /\ Current(w).state = "in_flight"
  BY DEF InState, State
<1>2. PICK c \in Events : c = Current(w) /\ c.work = w
  BY <1>1, CurrentIsLast
<1>3. e = [c EXCEPT !.state = "uncertain", !.result = Null]
  BY <1>2 DEF Follow
<1> QED
  BY <1>1, <1>2, <1>3 DEF Events

LEMMA RecoverPreserves ==
    ASSUME IInv, Recover
    PROVE  Extension /\ IInv'
<1>1. Extension
  BY RecoverInterrupts
<1>2. ASSUME NEW i \in Added
      PROVE  Ordinary(i)
  <2>1. PICK w \in InState("in_flight") :
           events'[i] = Follow(Current(w), "uncertain", Null)
    BY RecoverInterrupts
  <2>2. "uncertain" \in Moves["in_flight"] \ {"reserved"}
    BY DEF Moves, States
  <2> QED
    BY <2>1, <2>2, InterruptedEvent DEF Ordinary, IInv
<1> QED
  BY <1>1, <1>2, OrdinaryPreserves DEF Recover

LEMMA ReservePreserves ==
    ASSUME IInv, NEW w \in Work, NEW q \in Requests, Reserve(w, q)
    PROVE  IInv'
<1> USE DEF IInv
<1>1. Len(attempts) \in Nat /\ attempts \in Seq(Attempts)
  BY DEF TypeOK
<1>2. PICK n \in Nat : n = Len(attempts) + 1
  BY <1>1
<1>3. PICK e : e = [work |-> w, state |-> "reserved", attempt |-> n,
                    request |-> q, result |-> Null]
  OBVIOUS
<1>4. e = ReservedEvent(w, q)
  <2>1. ReservedEvent(w, q) =
           [[work |-> w, state |-> "reserved", attempt |-> 0, request |-> Null,
             result |-> Null] EXCEPT !.attempt = n, !.request = q]
    BY <1>2 DEF ReservedEvent, Unattempted
  <2> QED
    BY <1>3, <2>1
<1>5. e \in Events /\ e.attempt # 0
  BY <1>1, <1>2, <1>3 DEF Events, States
<1>6. /\ events' = Append(events, e)
      /\ attempts' = Append(attempts, [work |-> w, request |-> q])
      /\ UNCHANGED <<reconciliations, retries, version>>
      /\ State(w) = "planned" /\ DependenciesCompleted(w)
      /\ \A a \in 1..Len(attempts) : attempts[a].work # w
  BY <1>4 DEF Reserve, AttemptRow, AttemptsGuard
<1>7. Extension /\ Added = {Len(events) + 1} /\ events'[Len(events) + 1] = e
  BY <1>5, <1>6, AppendExtends
<1>8. [work |-> w, request |-> q] \in Attempts
  BY DEF Attempts
<1>9. /\ attempts' \in Seq(Attempts)
      /\ Len(attempts') = n
      /\ \A a \in 1..Len(attempts) : attempts'[a] = attempts[a]
      /\ attempts'[n] = [work |-> w, request |-> q]
  BY <1>1, <1>2, <1>6, <1>8
<1>10. SeenRetries' = SeenRetries /\ SeenReconciliations' = SeenReconciliations
  BY <1>6 DEF SeenRetries, SeenReconciliations
<1>11. TablesGrow
  BY <1>1, <1>2, <1>9, <1>10 DEF TablesGrow
<1>12. \A j \in 1..Len(events) : events[j].work = w => events[j].state # "reserved"
  BY <1>6 DEF HistoryVerifies, AttemptsVerify
<1>13. MovesOn(LastIndex(w), Len(events) + 1)
  BY <1>3, <1>6, <1>7 DEF MovesOn, State, Current, Moves, States
<1>14. Attempted(Len(events) + 1)
  BY <1>2, <1>3, <1>7, <1>9 DEF Attempted
<1>15. Admissible(LastIndex(w), Len(events) + 1)
  BY <1>3, <1>5, <1>6, <1>7, <1>12 DEF Admissible
<1>16. GoodStep
  BY <1>3, <1>7, <1>11, <1>13, <1>14, <1>15 DEF GoodStep
<1>17. Explained
  <2>1. ASSUME NEW a \in 1..n, NEW b \in 1..n, attempts'[a].work = attempts'[b].work
        PROVE  a = b
    <3>1. \A c, d \in 1..Len(attempts) : attempts[c].work = attempts[d].work => c = d
      BY DEF HistoryVerifies, AttemptsVerify
    <3>2. CASE a \in 1..Len(attempts) /\ b \in 1..Len(attempts)
      BY <1>9, <2>1, <3>1, <3>2
    <3>3. CASE a = n \/ b = n
      BY <1>1, <1>2, <1>6, <1>9, <2>1, <3>3
    <3> QED
      BY <1>1, <1>2, <3>2, <3>3
  <2>2. \A a \in 1..n : a \in 1..Len(attempts) \/ a = n
    BY <1>1, <1>2
  <2>3. events'[Len(events) + 1].work = w /\ events'[Len(events) + 1].state = "reserved"
    BY <1>3, <1>7
  <2>4. \A a \in 1..Len(attempts') : \/ a \in 1..Len(attempts)
                                     \/ \E i \in Added :
                                           /\ events'[i].work = attempts'[a].work
                                           /\ events'[i].state = "reserved"
    BY <1>7, <1>9, <2>2, <2>3
  <2> QED
    BY <1>9, <1>10, <2>1, <2>4 DEF Explained
<1>18. TypeOK' /\ NoTableNoRows'
  BY <1>6, <1>7, <1>9 DEF TypeOK, NoTableNoRows, Extension
<1> QED
  BY <1>16, <1>17, <1>18, GoodStepPreserves

LEMMA RetryPreserves ==
    ASSUME IInv, NEW a, NEW k \in Receipts, AuthorizeUnsentRetry(a, k)
    PROVE  IInv'
<1> USE DEF IInv
<1>1. Holds(a, "uncertain")
  BY DEF AuthorizeUnsentRetry, CanRetry
<1>2. PICK w \in Work : w = attempts[a].work /\ a \in Nat \ {0} /\ a \in 1..Len(attempts)
  BY <1>1, HeldAttempt DEF Holds
<1>3. PICK c \in Events : /\ c = Current(w) /\ c.work = w /\ c.attempt = a
                          /\ c.state = "uncertain"
  BY <1>1, <1>2, HeldAttempt
<1>4. PICK p \in 1..Len(events) : p = LastIndex(w) /\ events[p] = c
  BY <1>3, CurrentIsLast DEF Current
<1>5. PICK e : e = [c EXCEPT !.state = "reserved", !.result = Null]
  OBVIOUS
<1>6. /\ e \in Events /\ e.work = w /\ e.state = "reserved"
      /\ e.attempt = a /\ e.request = c.request
  BY <1>3, <1>5 DEF Events, States
<1>7. PICK row : row = [attempt |-> a, receipt |-> k, uncertain |-> p]
  OBVIOUS
<1>8. RetryRow(a, k) = row
  BY <1>2, <1>4, <1>7 DEF RetryRow
<1>9. /\ events' = Append(events, e)
      /\ retries' = retries \cup {row}
      /\ version' = 3
      /\ attempts' = attempts /\ reconciliations' = reconciliations
  BY <1>2, <1>3, <1>5, <1>8 DEF AuthorizeUnsentRetry, Follow, RetryVersion
<1>10. Extension /\ Added = {Len(events) + 1} /\ events'[Len(events) + 1] = e
  BY <1>6, <1>9, AppendExtends
<1>11. SeenRetries' = retries \cup {row} /\ SeenReconciliations' = reconciliations
  BY <1>9 DEF SeenRetries, SeenReconciliations
<1>12. SeenRetries = retries /\ SeenReconciliations = reconciliations
  BY DEF SeenRetries, SeenReconciliations, NoTableNoRows, TypeOK
<1>13. TablesGrow
  BY <1>9, <1>11, <1>12 DEF TablesGrow, TypeOK
<1>14. MovesOn(LastIndex(w), Len(events) + 1)
  BY <1>3, <1>4, <1>6, <1>7, <1>10, <1>11 DEF MovesOn, Moves, States
<1>15. Attempted(Len(events) + 1)
  BY <1>2, <1>3, <1>6, <1>9, <1>10, CurrentAttempted DEF Attempted
<1>16. Admissible(LastIndex(w), Len(events) + 1)
  BY <1>2, <1>3, <1>4, <1>6, <1>10 DEF Admissible, PromptsSettled
<1>17. GoodStep
  BY <1>6, <1>10, <1>13, <1>14, <1>15, <1>16 DEF GoodStep
<1>18. Explained
  <2>1. State(w) = "uncertain"
    BY <1>3 DEF State
  <2>2. \A r \in SeenRetries' : \/ r \in SeenRetries
                               \/ \E i \in Added :
                                     /\ State(events'[i].work) = "uncertain"
                                     /\ events'[i].state = "reserved"
                                     /\ events'[i].attempt = r.attempt
    BY <1>6, <1>7, <1>10, <1>11, <1>12, <2>1
  <2> QED
    BY <1>9, <1>11, <1>12, <2>2 DEF Explained, HistoryVerifies, AttemptsVerify
<1>19. row \in Retries
  BY <1>4, <1>7, <1>2 DEF Retries
<1>20. TypeOK' /\ NoTableNoRows'
  BY <1>9, <1>10, <1>19 DEF TypeOK, NoTableNoRows, Extension
<1> QED
  BY <1>17, <1>18, <1>20, GoodStepPreserves

LEMMA ReconcilePreserves ==
    ASSUME IInv, NEW a, NEW r \in Results, NEW k \in Receipts,
           ReconcileResult(a, r, k)
    PROVE  IInv'
<1> USE DEF IInv
<1>1. Holds(a, "uncertain")
  BY DEF ReconcileResult, CanReconcile
<1>2. PICK w \in Work : w = attempts[a].work /\ a \in Nat \ {0} /\ a \in 1..Len(attempts)
  BY <1>1, HeldAttempt DEF Holds
<1>3. PICK c \in Events : /\ c = Current(w) /\ c.work = w /\ c.attempt = a
                          /\ c.state = "uncertain"
  BY <1>1, <1>2, HeldAttempt
<1>4. PICK p \in 1..Len(events) : p = LastIndex(w) /\ events[p] = c
  BY <1>3, CurrentIsLast DEF Current
<1>5. PICK e : e = [c EXCEPT !.state = "result_saved", !.result = r]
  OBVIOUS
<1>6. /\ e \in Events /\ e.work = w /\ e.state = "result_saved"
      /\ e.attempt = a /\ e.request = c.request /\ e.result = r
  BY <1>3, <1>5 DEF Events, States
<1>7. PICK row : row = [attempt |-> a, receipt |-> k, result |-> r]
  OBVIOUS
<1>8. /\ events' = Append(events, e)
      /\ reconciliations' = reconciliations \cup {row}
      /\ version' = ReconcileVersion
      /\ attempts' = attempts /\ retries' = retries
  BY <1>2, <1>3, <1>5, <1>7 DEF ReconcileResult, ReconciliationRow, Follow
<1>9. version' \in 2..3 /\ (version' = 3 <=> version = 3)
  BY <1>8 DEF ReconcileVersion, TypeOK
<1>10. Extension /\ Added = {Len(events) + 1} /\ events'[Len(events) + 1] = e
  BY <1>6, <1>8, AppendExtends
<1>11. SeenRetries' = SeenRetries /\ SeenReconciliations' = reconciliations \cup {row}
  BY <1>8, <1>9 DEF SeenRetries, SeenReconciliations
<1>12. SeenReconciliations = reconciliations
  BY DEF SeenReconciliations, NoTableNoRows, TypeOK
<1>13. TablesGrow
  BY <1>8, <1>11, <1>12 DEF TablesGrow, TypeOK
<1>14. MovesOn(LastIndex(w), Len(events) + 1)
  BY <1>3, <1>4, <1>6, <1>7, <1>10, <1>11 DEF MovesOn, Moves, States
<1>15. Attempted(Len(events) + 1)
  BY <1>2, <1>3, <1>6, <1>8, <1>10, CurrentAttempted DEF Attempted
<1>16. Admissible(LastIndex(w), Len(events) + 1)
  BY <1>6, <1>10 DEF Admissible
<1>17. GoodStep
  BY <1>6, <1>10, <1>13, <1>14, <1>15, <1>16 DEF GoodStep
<1>18. Explained
  <2>1. State(w) = "uncertain"
    BY <1>3 DEF State
  <2>2. \A x \in SeenReconciliations' : \/ x \in SeenReconciliations
                                       \/ \E i \in Added :
                                             /\ State(events'[i].work) = "uncertain"
                                             /\ events'[i].state # "reserved"
                                             /\ events'[i].attempt = x.attempt
    BY <1>6, <1>7, <1>10, <1>11, <1>12, <2>1
  <2> QED
    BY <1>8, <1>11, <1>12, <2>2 DEF Explained, HistoryVerifies, AttemptsVerify
<1>19. row \in Reconciliations
  BY <1>2, <1>7 DEF Reconciliations
<1>20. TypeOK' /\ NoTableNoRows'
  BY <1>8, <1>9, <1>10, <1>19 DEF TypeOK, NoTableNoRows, Extension
<1> QED
  BY <1>17, <1>18, <1>20, GoodStepPreserves

-----------------------------------------------------------------------------
(* The theorems *)

LEMMA StepPreserves ==
    ASSUME IInv, [Next]_vars
    PROVE  IInv'
<1>1. CASE UNCHANGED vars
  <2>1. events' = events /\ UNCHANGED <<attempts, reconciliations, retries, version>>
    BY <1>1 DEF vars
  <2>2. events \in Seq(Events) /\ Len(events) \in Nat
    BY DEF IInv, TypeOK
  <2>3. Added = {}
    BY <2>1, <2>2 DEF Added
  <2>4. Extension
    BY <2>1, <2>2, <2>3 DEF Extension
  <2> QED
    BY <2>1, <2>3, <2>4, OrdinaryPreserves
<1>2. ASSUME NEW w \in Work, NEW q \in Requests, Reserve(w, q)
      PROVE  IInv'
  BY <1>2, ReservePreserves
<1>3. ASSUME NEW w \in Work, NEW s \in {"unavailable", "blocked"}, Skip(w, s)
      PROVE  IInv'
  BY <1>3, SkipPreserves
<1>4. ASSUME NEW a \in 1..Len(attempts), Start(a) \/ Complete(a)
      PROVE  IInv'
  BY <1>4, StartPreserves, CompletePreserves
<1>5. ASSUME NEW a \in 1..Len(attempts), NEW r \in Results, RecordResult(a, r)
      PROVE  IInv'
  BY <1>5, RecordResultPreserves
<1>6. ASSUME NEW a \in 1..Len(attempts), NEW s \in {"failed", "limited"}, Fail(a, s)
      PROVE  IInv'
  BY <1>6, FailPreserves
<1>7. CASE Recover
  BY <1>7, RecoverPreserves
<1>8. ASSUME NEW a \in 1..Len(attempts), NEW k \in Receipts, AuthorizeUnsentRetry(a, k)
      PROVE  IInv'
  BY <1>8, RetryPreserves
<1>9. ASSUME NEW a \in 1..Len(attempts), NEW r \in Results, NEW k \in Receipts,
             ReconcileResult(a, r, k)
      PROVE  IInv'
  BY <1>9, ReconcilePreserves
<1> QED
  BY <1>1, <1>2, <1>3, <1>4, <1>5, <1>6, <1>7, <1>8, <1>9 DEF Next

(* The inductive invariant holds of every history of every ledger.         *)
THEOREM Invariance == Spec => []IInv
<1>1. Init => IInv
  BY InitInvariant
<1>2. IInv /\ [Next]_vars => IInv'
  BY StepPreserves
<1> QED
  BY <1>1, <1>2, PTL DEF Spec

(* Every table of every ledger holds rows of its own shape.                *)
THEOREM TypeCorrect == Spec => []TypeOK
<1>1. IInv => TypeOK
  BY DEF IInv
<1> QED
  BY <1>1, Invariance, PTL

(* No ledger refuses its own file: _verify_history accepts every history   *)
(* that the public methods can leave, for every plan, any number of        *)
(* attempts, retries and reconciliations, at every schema version.         *)
THEOREM OwnHistoryVerifies == Spec => []HistoryVerifies
<1>1. IInv => HistoryVerifies
  BY DEF IInv
<1> QED
  BY <1>1, Invariance, PTL

-----------------------------------------------------------------------------
(* The triggers agree with the Python checks *)

(* An item without an attempt was never reserved, and a planned one has     *)
(* no other event.                                                          *)
LEMMA PlannedIsFirst ==
    ASSUME IInv, NEW w \in Work, State(w) = "planned"
    PROVE  /\ \A i \in 1..Len(events) : events[i].work = w => i = LastIndex(w)
           /\ \A a \in 1..Len(attempts) : attempts[a].work # w
<1> DEFINE p == LastIndex(w)
<1>1. /\ p \in 1..Len(events) /\ IsLast(w, p, Len(events))
      /\ events[p].state = "planned" /\ events[p].work = w
  BY CurrentIsLast DEF IInv, State, Current
<1>2. EventVerifies(p)
  BY <1>1 DEF IInv, HistoryVerifies
<1>3. \A s \in States : "planned" \notin Moves[s]
  BY DEF Moves, States
<1>4. \A j \in 1..(p - 1) : events[j].work # w
  <2>1. ASSUME NEW q \in 1..(p - 1), MoveVerifies(q, p)
        PROVE  FALSE
    <3>1. q \in 1..Len(events)
      BY <1>1
    <3>2. events[q] \in Events
      BY <3>1 DEF IInv, TypeOK
    <3>3. events[q].state \in States
      BY <3>2 DEF Events
    <3> QED
      BY <1>1, <1>3, <2>1, <3>3 DEF MoveVerifies
  <2> QED
    BY <1>1, <1>2, <2>1 DEF EventVerifies
<1>5. \A i \in 1..Len(events) : events[i].work = w => i = p
  <2> SUFFICES ASSUME NEW i \in 1..Len(events), events[i].work = w
               PROVE  i = p
    OBVIOUS
  <2>1. i <= p
    BY <1>1 DEF IsLast
  <2> QED
    BY <1>1, <1>4, <2>1
<1>6. \A a \in 1..Len(attempts) : attempts[a].work # w
  BY <1>1, <1>5 DEF IInv, HistoryVerifies, AttemptsVerify
<1> QED
  BY <1>5, <1>6

(* The triggers let through what Ledger.reserve admits. *)
LEMMA ReserveTriggersAgree ==
    ASSUME IInv, NEW w \in Work, NEW q \in Requests, CanReserve(w)
    PROVE  /\ AttemptsGuard(w)
           /\ EventsGuard(ReservedEvent(w, q), Append(attempts, AttemptRow(w, q)),
                          reconciliations, retries, version)
<1>1. State(w) = "planned" /\ DependenciesCompleted(w)
  BY DEF CanReserve
<1>2. AttemptsGuard(w)
  BY <1>1, PlannedIsFirst DEF AttemptsGuard
<1>3. PICK n \in Nat : n = Len(attempts) + 1
  BY DEF IInv, TypeOK
<1>4. PICK as : as = Append(attempts, AttemptRow(w, q))
  OBVIOUS
<1>5. n \in 1..Len(as) /\ as[n] = [work |-> w, request |-> q]
  <2>1. attempts \in Seq(Attempts) /\ AttemptRow(w, q) \in Attempts
    BY DEF IInv, TypeOK, AttemptRow, Attempts
  <2> QED
    BY <1>3, <1>4, <2>1 DEF AttemptRow
<1>6. PICK e : e = [work |-> w, state |-> "reserved", attempt |-> n,
                    request |-> q, result |-> Null]
  OBVIOUS
<1>7. e = ReservedEvent(w, q)
  <2>1. ReservedEvent(w, q) =
           [[work |-> w, state |-> "reserved", attempt |-> 0, request |-> Null,
             result |-> Null] EXCEPT !.attempt = n, !.request = q]
    BY <1>3 DEF ReservedEvent, Unattempted
  <2> QED
    BY <1>6, <2>1
<1>8. EventsGuard(e, as, reconciliations, retries, version)
  BY <1>1, <1>5, <1>6 DEF EventsGuard, State
<1> QED
  BY <1>2, <1>4, <1>7, <1>8

(* Those of schema 3 let through the retry that authorize_unsent_retry     *)
(* accepts, also when the call itself created them.                        *)
LEMMA RetryTriggersAgree ==
    ASSUME IInv, NEW a \in 1..Len(attempts), NEW k \in Receipts, CanRetry(a)
    PROVE  /\ RetriesGuard(RetryRow(a, k))
           /\ EventsGuard(Follow(Current(attempts[a].work), "reserved", Null),
                          attempts, reconciliations,
                          retries \cup {RetryRow(a, k)}, RetryVersion)
<1>1. Holds(a, "uncertain")
  BY DEF CanRetry
<1>2. PICK w \in Work : w = attempts[a].work /\ a \in Nat \ {0}
  BY <1>1, HeldAttempt
<1>3. PICK c \in Events : /\ c = Current(w) /\ c.work = w /\ c.attempt = a
                          /\ c.state = "uncertain"
  BY <1>1, <1>2, HeldAttempt
<1>4. PICK e : e = [c EXCEPT !.state = "reserved", !.result = Null]
  OBVIOUS
<1>5. /\ e.work = w /\ e.state = "reserved"
      /\ e.attempt = a /\ e.request = c.request
  BY <1>3, <1>4 DEF Events
<1>6. PICK row : row = [attempt |-> a, receipt |-> k, uncertain |-> LastIndex(w)]
  OBVIOUS
<1>7. RetryRow(a, k) = row
  BY <1>2, <1>6 DEF RetryRow
<1>8. \A r \in retries : r.attempt # a
  <2>1. version \in 1..3
    BY DEF IInv, TypeOK
  <2> QED
    BY <2>1 DEF CanRetry, IInv, NoTableNoRows
<1>9. RetriesGuard(row)
  BY <1>1, <1>2, <1>6, <1>8 DEF RetriesGuard
<1>10. EventsGuard(e, attempts, reconciliations, retries \cup {row}, 3)
  BY <1>2, <1>3, <1>5, <1>6 DEF EventsGuard
<1> QED
  BY <1>2, <1>3, <1>4, <1>7, <1>9, <1>10 DEF Follow, RetryVersion

(* And those of schema 2 the answer that reconcile_result accepts. *)
LEMMA ReconcileTriggersAgree ==
    ASSUME IInv, NEW a \in 1..Len(attempts), NEW r \in Results, NEW k \in Receipts,
           CanReconcile(a)
    PROVE  /\ ReconciliationsGuard(ReconciliationRow(a, r, k))
           /\ EventsGuard(Follow(Current(attempts[a].work), "result_saved", r),
                          attempts,
                          reconciliations \cup {ReconciliationRow(a, r, k)},
                          retries, ReconcileVersion)
<1>1. Holds(a, "uncertain")
  BY DEF CanReconcile
<1>2. PICK w \in Work : w = attempts[a].work /\ a \in Nat \ {0}
  BY <1>1, HeldAttempt
<1>3. PICK c \in Events : /\ c = Current(w) /\ c.work = w /\ c.attempt = a
                          /\ c.state = "uncertain"
  BY <1>1, <1>2, HeldAttempt
<1>4. PICK e : e = [c EXCEPT !.state = "result_saved", !.result = r]
  OBVIOUS
<1>5. /\ e.work = w /\ e.state = "result_saved"
      /\ e.attempt = a /\ e.request = c.request /\ e.result = r
  BY <1>3, <1>4 DEF Events
<1>6. PICK row : row = [attempt |-> a, receipt |-> k, result |-> r]
  OBVIOUS
<1>7. ReconciliationsGuard(row)
  BY <1>1, <1>6 DEF ReconciliationsGuard
<1>8. ReconcileVersion \in Int /\ ReconcileVersion >= 2
  BY DEF IInv, TypeOK, ReconcileVersion
<1>9. EventsGuard(e, attempts, reconciliations \cup {row}, retries, ReconcileVersion)
  BY <1>2, <1>3, <1>5, <1>6, <1>8 DEF EventsGuard
<1> QED
  BY <1>2, <1>3, <1>4, <1>6, <1>7, <1>9 DEF Follow, ReconciliationRow

-----------------------------------------------------------------------------
(* The bound on the number of events *)

(* The retries are finitely many, and each names an attempt on record. *)
RetriesAttempted ==
    /\ IsFiniteSet(retries)
    /\ \A row \in retries : row.attempt \in 1..Len(attempts)

(* Event i came after the retry of its item. *)
Retried(i) ==
    \E row \in retries : /\ attempts[row.attempt].work = events[i].work
                         /\ row.uncertain < i

(* How far each state is from the plan; a retry goes back by two. *)
Order == [s \in States |->
    CASE s = "planned"   -> 0
      [] s = "reserved"  -> 1
      [] s = "in_flight" -> 2
      [] s = "uncertain" -> 3
      [] s = "completed" -> 5
      [] OTHER           -> 4]

Rank(i) == Order[events[i].state] + IF Retried(i) THEN 3 ELSE 0

(* The events of an item climb, and so do those after its one retry. *)
Ranked ==
    \A i, j \in 1..Len(events) :
        events[i].work = events[j].work /\ i < j => Rank(i) < Rank(j)

(* Event e carries a result digest only if it says that a result is saved. *)
AnswerFits(e) == e.state \in {"result_saved", "completed"} \/ e.result = Null

AnswersFit == \A i \in 1..Len(events) : AnswerFits(events[i])

(* The inductive invariant of the order of events. *)
RInv == IInv /\ RetriesAttempted /\ Ranked /\ AnswersFit

(* The steps that add no retry ... *)
Plain ==
    /\ retries' = retries
    /\ \A i \in Added : events'[i].state = "reserved" => State(events'[i].work) = "planned"

(* ... and the one that records that attempt a is tried again. *)
Retrying(a) ==
    /\ a \in 1..Len(attempts)
    /\ State(attempts[a].work) = "uncertain"
    /\ \A row \in retries : row.attempt # a
    /\ \E row \in Retries : /\ retries' = retries \cup {row}
                            /\ row.attempt = a
                            /\ row.uncertain = LastIndex(attempts[a].work)
    /\ \A i \in Added : events'[i].work = attempts[a].work /\ events'[i].state = "reserved"

(* Either way the attempts on record stay and the added events are well formed. *)
KeepsRecord ==
    /\ Len(attempts') >= Len(attempts)
    /\ \A a \in 1..Len(attempts) : attempts'[a] = attempts[a]
    /\ \A i \in Added : AnswerFits(events'[i])

(* What the rank of an event can be. *)
LEMMA RankType ==
    ASSUME IInv, NEW i \in 1..Len(events)
    PROVE  /\ events[i].work \in Work /\ events[i].state \in States
           /\ Rank(i) \in 0..8
           /\ Rank(i) > 5 => Retried(i)
<1>1. events[i] \in Events
  BY DEF IInv, TypeOK
<1>2. events[i].work \in Work /\ events[i].state \in States
  BY <1>1 DEF Events
<1>3. Order[events[i].state] \in 0..5
  BY <1>2 DEF Order
<1> QED
  BY <1>2, <1>3 DEF Rank

(* The one attempt of an item. *)
LEMMA OneAttempt ==
    ASSUME IInv, NEW a \in 1..Len(attempts), NEW b \in 1..Len(attempts),
           attempts[a].work = attempts[b].work
    PROVE  a = b
BY DEF IInv, HistoryVerifies, AttemptsVerify

(* What an added event is, from the verified history that holds it. *)
LEMMA AddedMoves ==
    ASSUME IInv, IInv', Extension, NEW i \in Added, NEW w \in Work, events'[i].work = w
    PROVE  /\ i \in 1..Len(events') /\ i > Len(events)
           /\ events'[i].state \in Moves[State(w)]
           /\ State(w) \in States
<1>1. /\ Len(events) \in Nat /\ Len(events') \in Nat /\ Len(events) <= Len(events')
      /\ i \in 1..Len(events') /\ i > Len(events)
  BY DEF IInv, TypeOK, Extension, Added
<1>2. EventVerifies(i)'
  BY <1>1 DEF IInv, HistoryVerifies
<1>3. PICK p \in 1..Len(events) : p = LastIndex(w) /\ IsLast(w, p, Len(events))
  BY CurrentIsLast DEF IInv
<1>4. events'[p] = events[p] /\ events[p].work = w /\ events[p].state = State(w)
  BY <1>3, CurrentIsLast DEF Extension, State, Current, IInv
<1>5. IsLast(w, p, i - 1)'
  BY <1>3, AddedFollowsCurrent DEF IInv
<1>6. PICK q \in 1..(i - 1) : Precedes(q, i)' /\ MoveVerifies(q, i)'
  <2>1. p \in 1..(i - 1)
    BY <1>1, <1>3
  <2> QED
    BY <1>2, <1>4, <2>1 DEF EventVerifies
<1>7. q = p
  BY <1>1, <1>3, <1>5, <1>6 DEF Precedes, IsLast
<1>8. events[p] \in Events
  BY DEF IInv, TypeOK
<1> QED
  BY <1>1, <1>4, <1>6, <1>7, <1>8 DEF MoveVerifies, Events

(* One event more. *)
LEMMA AppendOne ==
    ASSUME IInv, IInv', NEW e, events' = Append(events, e)
    PROVE  /\ e \in Events
           /\ Extension
           /\ Added = {Len(events) + 1}
           /\ events'[Len(events) + 1] = e
           /\ Len(events') = Len(events) + 1
<1>1. events \in Seq(Events) /\ events' \in Seq(Events)
  BY DEF IInv, TypeOK
<1>2. events' = events \o <<e>>
  <2>1. Len(events) \in Nat
    BY <1>1
  <2> QED
    BY <1>1
<1>3. Len(events') = Len(events) + 1 /\ events'[Len(events) + 1] = e
  BY <1>1
<1>4. e \in Events
  BY <1>1, <1>3
<1> QED
  BY <1>4, AppendExtends DEF IInv

LEMMA InsertIsPlain ==
    ASSUME IInv, IInv', NEW e, Insert(e), e.state # "reserved", AnswerFits(e)
    PROVE  Extension /\ KeepsRecord /\ Plain
<1>1. events' = Append(events, e) /\ attempts' = attempts /\ retries' = retries
  BY DEF Insert
<1>2. Extension /\ Added = {Len(events) + 1} /\ events'[Len(events) + 1] = e
  BY <1>1, AppendOne
<1>3. attempts \in Seq(Attempts)
  BY DEF IInv, TypeOK
<1> QED
  BY <1>1, <1>2, <1>3 DEF Plain, KeepsRecord

(* Every step is of one of the two kinds. *)
LEMMA StepKinds ==
    ASSUME IInv, Next, IInv'
    PROVE  /\ Extension /\ KeepsRecord
           /\ Plain \/ \E a \in 1..Len(attempts) : Retrying(a)
<1>1. ASSUME NEW w \in Work, NEW q \in Requests, Reserve(w, q)
      PROVE  Extension /\ KeepsRecord /\ Plain
  <2>1. PICK e : e = ReservedEvent(w, q)
    OBVIOUS
  <2>2. /\ events' = Append(events, e) /\ retries' = retries
        /\ attempts' = Append(attempts, AttemptRow(w, q))
        /\ State(w) = "planned"
    BY <1>1, <2>1 DEF Reserve, CanReserve
  <2>3. Extension /\ Added = {Len(events) + 1} /\ events'[Len(events) + 1] = e
    BY <2>2, AppendOne
  <2>4. e.work = w /\ AnswerFits(e)
    BY <2>1 DEF ReservedEvent, Unattempted, AnswerFits
  <2>5. KeepsRecord
    <3>1. attempts \in Seq(Attempts) /\ AttemptRow(w, q) \in Attempts
      BY DEF IInv, TypeOK, AttemptRow, Attempts
    <3> QED
      BY <2>2, <2>3, <2>4, <3>1 DEF KeepsRecord
  <2> QED
    BY <2>2, <2>3, <2>4, <2>5 DEF Plain
<1>2. ASSUME NEW w \in Work, NEW s \in {"unavailable", "blocked"}, Skip(w, s)
      PROVE  Extension /\ KeepsRecord /\ Plain
  <2>1. PICK e : e = Unattempted(w, s)
    OBVIOUS
  <2>2. e.state # "reserved" /\ AnswerFits(e) /\ Insert(e)
    BY <1>2, <2>1 DEF Unattempted, Skip, AnswerFits
  <2> QED
    BY <2>2, InsertIsPlain
<1>3. ASSUME NEW a \in 1..Len(attempts), Start(a) \/ Complete(a)
      PROVE  Extension /\ KeepsRecord /\ Plain
  <2>1. PICK w : w = attempts[a].work
    OBVIOUS
  <2>2. Current(w) \in Events
    BY <1>3, <2>1, HeldAttempt DEF Start, Complete
  <2>3. \/ Insert([Current(w) EXCEPT !.state = "completed"])
        \/ Insert([Current(w) EXCEPT !.state = "in_flight", !.result = Null])
    BY <1>3, <2>1 DEF Start, Complete, Inflight, Follow
  <2>4. PICK e : e.state # "reserved" /\ AnswerFits(e) /\ Insert(e)
    BY <2>2, <2>3 DEF Events, AnswerFits
  <2> QED
    BY <2>4, InsertIsPlain
<1>4. ASSUME NEW a \in 1..Len(attempts), NEW r \in Results, RecordResult(a, r)
      PROVE  Extension /\ KeepsRecord /\ Plain
  <2>1. PICK w : w = attempts[a].work
    OBVIOUS
  <2>2. Current(w) \in Events
    BY <1>4, <2>1, HeldAttempt DEF RecordResult
  <2>3. PICK e : e = Follow(Current(w), "result_saved", r)
    OBVIOUS
  <2>4. e.state = "result_saved" /\ AnswerFits(e) /\ Insert(e)
    BY <1>4, <2>1, <2>2, <2>3 DEF Events, RecordResult, Follow, AnswerFits
  <2> QED
    BY <2>4, InsertIsPlain
<1>5. ASSUME NEW a \in 1..Len(attempts), NEW s \in {"failed", "limited"}, Fail(a, s)
      PROVE  Extension /\ KeepsRecord /\ Plain
  <2>1. PICK w : w = attempts[a].work
    OBVIOUS
  <2>2. Current(w) \in Events
    BY <1>5, <2>1, HeldAttempt DEF Fail
  <2>3. PICK e : e = Follow(Current(w), s, Null)
    OBVIOUS
  <2>4. e.state = s /\ AnswerFits(e) /\ Insert(e)
    BY <1>5, <2>1, <2>2, <2>3 DEF Events, Fail, Follow, AnswerFits
  <2> QED
    BY <2>4, InsertIsPlain
<1>6. CASE Recover
  <2>1. attempts' = attempts /\ retries' = retries
    BY <1>6 DEF Recover
  <2>2. Extension
    BY <1>6, RecoverPreserves
  <2>3. ASSUME NEW i \in Added, events'[i].state = "reserved"
        PROVE  State(events'[i].work) = "planned"
    <3>1. PICK w \in InState("in_flight") :
             events'[i] = Follow(Current(w), "uncertain", Null)
      BY <1>6, RecoverInterrupts
    <3> QED
      BY <2>3, <3>1, InterruptedEvent DEF IInv
  <2>4. \A i \in Added : AnswerFits(events'[i])
    BY <1>6, RecoverInterrupts, InterruptedEvent DEF IInv, AnswerFits
  <2> QED
    BY <2>1, <2>2, <2>3, <2>4 DEF Plain, KeepsRecord, IInv, TypeOK
<1>7. ASSUME NEW a \in 1..Len(attempts), NEW k \in Receipts, AuthorizeUnsentRetry(a, k)
      PROVE  Extension /\ KeepsRecord /\ Retrying(a)
  <2>1. PICK w \in Work : w = attempts[a].work
    BY <1>7, HeldAttempt DEF AuthorizeUnsentRetry, CanRetry
  <2>2. Current(w) \in Events /\ Current(w).work = w /\ State(w) = "uncertain"
    BY <1>7, <2>1, HeldAttempt DEF AuthorizeUnsentRetry, CanRetry
  <2>3. PICK e : e = Follow(Current(w), "reserved", Null)
    OBVIOUS
  <2>4. e.state = "reserved" /\ e.work = w /\ AnswerFits(e)
    BY <2>2, <2>3 DEF Events, Follow, AnswerFits
  <2>5. PICK row : row = RetryRow(a, k)
    OBVIOUS
  <2>6. row.attempt = a /\ row.uncertain = LastIndex(w) /\ row \in Retries
    <3>1. LastIndex(w) \in Nat /\ a \in Nat
      BY CurrentIsLast DEF IInv, TypeOK
    <3> QED
      BY <2>1, <2>5, <3>1 DEF RetryRow, Retries
  <2>7. /\ events' = Append(events, e) /\ retries' = retries \cup {row}
        /\ attempts' = attempts /\ RetriesGuard(row)
    BY <1>7, <2>1, <2>3, <2>5 DEF AuthorizeUnsentRetry
  <2>8. Extension /\ Added = {Len(events) + 1} /\ events'[Len(events) + 1] = e
    BY <2>7, AppendOne
  <2>9. KeepsRecord
    BY <2>4, <2>7, <2>8 DEF KeepsRecord, IInv, TypeOK
  <2> QED
    BY <2>1, <2>2, <2>4, <2>6, <2>7, <2>8, <2>9 DEF Retrying, RetriesGuard
<1>8. ASSUME NEW a \in 1..Len(attempts), NEW r \in Results, NEW k \in Receipts,
             ReconcileResult(a, r, k)
      PROVE  Extension /\ KeepsRecord /\ Plain
  <2>1. PICK w : w = attempts[a].work
    OBVIOUS
  <2>2. Current(w) \in Events
    BY <1>8, <2>1, HeldAttempt DEF ReconcileResult, CanReconcile
  <2>3. PICK e : e = Follow(Current(w), "result_saved", r)
    OBVIOUS
  <2>4. e.state = "result_saved" /\ AnswerFits(e)
    BY <2>2, <2>3 DEF Events, Follow, AnswerFits
  <2>5. events' = Append(events, e) /\ retries' = retries /\ attempts' = attempts
    BY <1>8, <2>1, <2>3 DEF ReconcileResult
  <2>6. Extension /\ Added = {Len(events) + 1} /\ events'[Len(events) + 1] = e
    BY <2>5, AppendOne
  <2> QED
    BY <2>4, <2>5, <2>6 DEF Plain, KeepsRecord, IInv, TypeOK
<1> QED
  BY <1>1, <1>2, <1>3, <1>4, <1>5, <1>6, <1>7, <1>8 DEF Next

(* The rank of an event stays: a retry counts only for what follows it. *)
LEMMA RankStays ==
    ASSUME RInv, IInv', Extension, KeepsRecord,
           Plain \/ \E a \in 1..Len(attempts) : Retrying(a),
           NEW i \in 1..Len(events)
    PROVE  Rank(i)' = Rank(i)
<1>1. events'[i] = events[i] /\ events[i].work \in Work
  BY RankType DEF Extension, RInv
<1>2. /\ RetriesAttempted
      /\ \A a \in 1..Len(attempts) : attempts'[a] = attempts[a]
  BY DEF RInv, KeepsRecord
<1>3. Retried(i) => Retried(i)'
  <2>1. retries \subseteq retries'
    BY DEF Plain, Retrying
  <2> QED
    BY <1>1, <1>2, <2>1 DEF Retried, RetriesAttempted
<1>4. ASSUME NEW row \in retries', row \notin retries,
             attempts'[row.attempt].work = events[i].work, row.uncertain < i
      PROVE  FALSE
  <2>1. PICK a \in 1..Len(attempts) : Retrying(a)
    BY <1>4 DEF Plain
  <2>2. row.attempt = a /\ row.uncertain = LastIndex(attempts[a].work)
    BY <1>4, <2>1 DEF Retrying
  <2>3. PICK w \in Work : w = events[i].work /\ attempts[a].work = w
    BY <1>1, <1>2, <1>4, <2>2
  <2>4. LastIndex(w) \in Int /\ i <= LastIndex(w)
    BY <2>3, CurrentIsLast DEF IsLast, RInv, IInv
  <2> QED
    BY <1>4, <2>2, <2>3, <2>4
<1>5. Retried(i)' => Retried(i)
  BY <1>1, <1>2, <1>4 DEF Retried, RetriesAttempted
<1> QED
  BY <1>1, <1>3, <1>5 DEF Rank

(* An added event ranks higher than the one that was current. *)
LEMMA RankClimbs ==
    ASSUME RInv, IInv', Extension, KeepsRecord,
           Plain \/ \E a \in 1..Len(attempts) : Retrying(a),
           NEW i \in Added, NEW w \in Work, events'[i].work = w
    PROVE  Rank(LastIndex(w)) < Rank(i)'
<1>1. PICK p \in 1..Len(events) : /\ p = LastIndex(w) /\ events[p].work = w
                                  /\ events[p].state = State(w)
  BY CurrentIsLast DEF RInv, IInv, State, Current
<1>2. /\ i \in 1..Len(events') /\ i > Len(events)
      /\ events'[i].state \in Moves[State(w)]
      /\ State(w) \in States
  BY AddedMoves DEF RInv
<1>3. p < i /\ Len(events) \in Nat
  BY <1>1, <1>2 DEF RInv, IInv, TypeOK
<1>4. /\ RetriesAttempted
      /\ \A a \in 1..Len(attempts) : attempts'[a] = attempts[a]
      /\ \A row \in retries : row.uncertain \in Nat
  BY DEF RInv, KeepsRecord, IInv, TypeOK, Retries
<1>5. CASE Plain
  <2>1. Retried(p) => Retried(i)'
    <3> SUFFICES ASSUME NEW row \in retries, attempts[row.attempt].work = w,
                        row.uncertain < p
                 PROVE  Retried(i)'
      BY <1>1 DEF Retried
    <3>1. row.uncertain < i
      BY <1>2, <1>3, <1>4
    <3>2. row \in retries' /\ attempts'[row.attempt].work = w
      BY <1>4, <1>5 DEF RetriesAttempted, Plain
    <3> QED
      BY <3>1, <3>2 DEF Retried
  <2>2. events'[i].state = "reserved" => State(w) = "planned"
    BY <1>5 DEF Plain
  <2>3. /\ Order[State(w)] \in 0..5 /\ Order[events'[i].state] \in 0..5
        /\ Order[State(w)] < Order[events'[i].state]
    BY <1>2, <2>2 DEF Order, Moves, States
  <2> QED
    BY <1>1, <2>1, <2>3 DEF Rank
<1>6. ASSUME NEW a \in 1..Len(attempts), Retrying(a)
      PROVE  Rank(LastIndex(w)) < Rank(i)'
  <2>1. /\ attempts[a].work = w /\ State(w) = "uncertain" /\ events'[i].state = "reserved"
        /\ \A row \in retries : row.attempt # a
    BY <1>6 DEF Retrying
  <2>2. ~Retried(p)
    <3> SUFFICES ASSUME NEW row \in retries, attempts[row.attempt].work = events[p].work
                 PROVE  FALSE
      BY DEF Retried
    <3>1. row.attempt \in 1..Len(attempts) /\ attempts[row.attempt].work = attempts[a].work
      BY <1>1, <1>4, <2>1 DEF RetriesAttempted
    <3>2. row.attempt = a
      BY <3>1, OneAttempt DEF RInv
    <3> QED
      BY <2>1, <3>2
  <2>3. PICK row \in retries' : row.attempt = a /\ row.uncertain = p
    BY <1>1, <1>6, <2>1 DEF Retrying
  <2>4. Retried(i)'
    BY <1>3, <1>4, <2>1, <2>3 DEF Retried
  <2>5. Order["uncertain"] = 3 /\ Order["reserved"] = 1
    BY DEF Order, States
  <2> QED
    BY <1>1, <2>1, <2>2, <2>4, <2>5 DEF Rank
<1> QED
  BY <1>5, <1>6

(* Every step keeps the events of each item in order. *)
LEMMA RankedStep ==
    ASSUME RInv, Next
    PROVE  RInv'
<1>1. IInv'
  BY StepPreserves DEF RInv
<1>2. /\ Extension /\ KeepsRecord
      /\ Plain \/ \E a \in 1..Len(attempts) : Retrying(a)
  BY <1>1, StepKinds DEF RInv
<1>3. Len(events) \in Nat /\ Len(events') \in Nat
  BY <1>1 DEF RInv, IInv, TypeOK
<1>4. RetriesAttempted'
  <2>1. Len(attempts) \in Nat /\ Len(attempts') \in Nat
    BY <1>1 DEF RInv, IInv, TypeOK
  <2>2. \A row \in retries' : row.attempt \in 1..Len(attempts')
    BY <1>2, <2>1 DEF RetriesAttempted, RInv, KeepsRecord, Plain, Retrying
  <2>3. IsFiniteSet(retries')
    BY <1>2, FS_AddElement DEF RetriesAttempted, RInv, Plain, Retrying
  <2> QED
    BY <2>2, <2>3 DEF RetriesAttempted
<1>5. ASSUME NEW i \in 1..Len(events'), NEW j \in 1..Len(events'),
             events'[i].work = events'[j].work, i < j
      PROVE  Rank(i)' < Rank(j)'
  <2>1. CASE j \in 1..Len(events)
    <3>1. i \in 1..Len(events)
      BY <1>3, <1>5, <2>1
    <3>2. Rank(i) < Rank(j)
      BY <1>2, <1>5, <2>1, <3>1 DEF Extension, RInv, Ranked
    <3>3. Rank(i)' = Rank(i) /\ Rank(j)' = Rank(j)
      BY <1>1, <1>2, <2>1, <3>1, RankStays
    <3> QED
      BY <3>2, <3>3
  <2>2. CASE j \notin 1..Len(events)
    <3>1. j \in Added
      BY <1>3, <2>2 DEF Added
    <3>2. i \in 1..Len(events)
      BY <1>2, <1>3, <1>5, <3>1 DEF Added, Extension
    <3>3. PICK w \in Work : w = events[i].work /\ events'[j].work = w
      BY <1>2, <1>5, <3>2, RankType DEF Extension, RInv
    <3>4. PICK p \in 1..Len(events) : p = LastIndex(w) /\ i <= p /\ events[p].work = w
      BY <3>2, <3>3, CurrentIsLast DEF IsLast, RInv, IInv
    <3>5. Rank(p) < Rank(j)'
      BY <1>1, <1>2, <3>1, <3>3, <3>4, RankClimbs
    <3>6. i = p \/ Rank(i) < Rank(p)
      BY <3>2, <3>3, <3>4 DEF RInv, Ranked
    <3>7. Rank(i)' = Rank(i)
      BY <1>1, <1>2, <3>2, RankStays
    <3>8. Rank(i) \in 0..8 /\ Rank(p) \in 0..8 /\ Rank(j)' \in Int
      <4>1. Rank(i) \in 0..8 /\ Rank(p) \in 0..8
        <5>1. IInv
          BY DEF RInv
        <5> QED
          BY <3>2, <5>1, RankType
      <4>2. Order[events'[j].state] \in 0..5
        <5>1. events'[j] \in Events
          BY <1>1 DEF IInv, TypeOK
        <5> QED
          BY <5>1 DEF Events, Order
      <4>3. PICK n \in 0..5 : n = Order[events'[j].state]
        BY <4>2
      <4>4. Rank(j)' \in Int
        BY <4>3 DEF Rank
      <4> QED
        BY <4>1, <4>4, Zenon
    <3>9. CASE i = p
      BY <3>5, <3>7, <3>9
    <3>10. CASE Rank(i) < Rank(p)
      BY <3>5, <3>7, <3>8, <3>10
    <3> QED
      BY <3>6, <3>9, <3>10
  <2> QED
    BY <2>1, <2>2
<1>6. Ranked'
  BY <1>5 DEF Ranked
<1>7. AnswersFit'
  <2> SUFFICES ASSUME NEW i \in 1..Len(events')
               PROVE  AnswerFits(events'[i])
    BY DEF AnswersFit, AnswerFits
  <2>1. CASE i \in 1..Len(events)
    BY <1>2, <2>1 DEF Extension, RInv, AnswersFit
  <2>2. CASE i \notin 1..Len(events)
    BY <1>2, <1>3, <2>2 DEF Added, KeepsRecord
  <2> QED
    BY <2>1, <2>2
<1> QED
  BY <1>1, <1>4, <1>6, <1>7 DEF RInv

(* An interval of integers has as many elements as its ends are apart. *)
LEMMA IntervalSize ==
    \A a, b \in Int : a <= b => IsFiniteSet(a..b) /\ Cardinality(a..b) = b - a + 1
<1> SUFFICES ASSUME NEW a \in Int, NEW b \in Int, a <= b
             PROVE  IsFiniteSet(a..b) /\ Cardinality(a..b) = b - a + 1
  OBVIOUS
<1>1. ~(a > b)
  OBVIOUS
<1> QED
  BY <1>1, FS_Interval

(* A new ledger has one event for each item. *)
LEMMA InitRanked == Init => RInv
<1> SUFFICES ASSUME Init
             PROVE  RInv
  OBVIOUS
<1>1. IInv
  BY InitInvariant
<1>2. RetriesAttempted
  BY FS_EmptySet DEF Init, RetriesAttempted
<1>3. Plan \in Seq(Work) /\ Len(events) = Len(Plan)
  BY PlanAssumption DEF Init
<1>4. \A i \in 1..Len(events) : events[i].work = Plan[i]
  BY <1>3 DEF Init, Unattempted
<1>5. Ranked
  BY <1>3, <1>4, PlanAssumption DEF Ranked
<1>6. AnswersFit
  BY <1>3 DEF Init, Unattempted, AnswersFit, AnswerFits
<1> QED
  BY <1>1, <1>2, <1>5, <1>6 DEF RInv

(* Two events of an item differ in rank, and there are six ranks, or nine   *)
(* for an item that was retried.                                            *)
LEMMA RanksAreFew ==
    ASSUME RInv
    PROVE  Len(events) <= EventBound
<1> DEFINE E == 1..Len(events)
           W == {attempts[row.attempt].work : row \in retries}
           T == (Work \X (0..5)) \cup (W \X (6..8))
           f == [i \in E |-> <<events[i].work, Rank(i)>>]
           g == [row \in retries |-> attempts[row.attempt].work]
<1>1. Len(events) \in Nat
  BY DEF RInv, IInv, TypeOK
<1>2. IsFiniteSet(E) /\ Cardinality(E) = Len(events)
  <2>1. PICK n \in Nat : n = Len(events)
    BY <1>1
  <2>2. IsFiniteSet(1..n) /\ Cardinality(1..n) = n
    BY FS_Interval
  <2> QED
    BY <2>1, <2>2
<1>3. f \in [E -> T]
  <2> SUFFICES ASSUME NEW i \in E
               PROVE  <<events[i].work, Rank(i)>> \in T
    OBVIOUS
  <2>1. events[i].work \in Work /\ Rank(i) \in 0..8
    BY RankType DEF RInv
  <2>2. CASE Rank(i) > 5
    <3>1. events[i].work \in W
      BY <2>2, RankType DEF Retried, RInv
    <3>2. Rank(i) \in 6..8
      BY <2>1, <2>2
    <3> QED
      BY <3>1, <3>2
  <2>3. CASE ~(Rank(i) > 5)
    <3>1. Rank(i) \in 0..5
      BY <2>1, <2>3
    <3> QED
      BY <2>1, <3>1
  <2> QED
    BY <2>2, <2>3
<1>4. \A i, j \in E : f[i] = f[j] => i = j
  <2> SUFFICES ASSUME NEW i \in E, NEW j \in E, i < j, f[i] = f[j]
               PROVE  FALSE
    BY <1>1
  <2>1. events[i].work = events[j].work /\ Rank(i) = Rank(j)
    OBVIOUS
  <2>2. Rank(i) < Rank(j)
    BY <2>1 DEF RInv, Ranked
  <2>3. Rank(i) \in Int
    BY RankType DEF RInv
  <2> QED
    BY <2>1, <2>2, <2>3
<1>5. f \in Injection(E, T)
  <2> HIDE DEF E, T, f
  <2> QED
    BY <1>3, <1>4 DEF Injection, IsInjective
<1>6. IsFiniteSet(Work) /\ Cardinality(Work) \in Nat /\ Cardinality(Work) <= Len(Plan)
  <2>1. Len(Plan) \in Nat /\ Plan \in [1..Len(Plan) -> Work]
    BY PlanAssumption
  <2>2. Plan \in Surjection(1..Len(Plan), Work)
    BY <2>1, PlanAssumption DEF Surjection
  <2>3. IsFiniteSet(1..Len(Plan)) /\ Cardinality(1..Len(Plan)) = Len(Plan)
    <3>1. PICK n \in Nat : n = Len(Plan)
      BY <2>1, Zenon
    <3>2. IsFiniteSet(1..n) /\ Cardinality(1..n) = n
      <4>1. /\ IsFiniteSet(1..n)
            /\ Cardinality(1..n) = IF 1 > n THEN 0 ELSE n - 1 + 1
        BY FS_Interval
      <4> QED
        BY <4>1
    <3> QED
      BY <3>1, <3>2, Zenon
  <2> QED
    BY <2>2, <2>3, FS_Surjection, FS_CardinalityType
<1>7. /\ IsFiniteSet(W) /\ Cardinality(W) \in Nat /\ Cardinality(retries) \in Nat
      /\ Cardinality(W) <= Cardinality(retries)
  <2>1. IsFiniteSet(retries)
    BY DEF RInv, RetriesAttempted
  <2>2. g \in Surjection(retries, W)
    BY DEF Surjection
  <2> HIDE DEF g, W
  <2> QED
    BY <2>1, <2>2, FS_Surjection, FS_CardinalityType
<1>8. /\ IsFiniteSet(0..5) /\ Cardinality(0..5) = 6
      /\ IsFiniteSet(6..8) /\ Cardinality(6..8) = 3
  BY IntervalSize, 0 \in Int, 5 \in Int, 6 \in Int, 8 \in Int, 0 <= 5, 6 <= 8,
     5 - 0 + 1 = 6, 8 - 6 + 1 = 3
<1>9. /\ IsFiniteSet(Work \X (0..5))
      /\ Cardinality(Work \X (0..5)) = Cardinality(Work) * 6
  BY <1>6, <1>8, FS_Product
<1>10. /\ IsFiniteSet(W \X (6..8))
       /\ Cardinality(W \X (6..8)) = Cardinality(W) * 3
  <2> HIDE DEF W
  <2> QED
    BY <1>7, <1>8, FS_Product
<1>11. /\ IsFiniteSet(T) /\ Cardinality(T) \in Nat
       /\ Cardinality(T) <= Cardinality(Work) * 6 + Cardinality(W) * 3
  <2> DEFINE A == Work \X (0..5)
             B == W \X (6..8)
  <2>1. IsFiniteSet(A) /\ IsFiniteSet(B)
    BY <1>9, <1>10
  <2> HIDE DEF A, B
  <2>2. /\ IsFiniteSet(A \cup B)
        /\ Cardinality(A \cup B) = Cardinality(A) + Cardinality(B) - Cardinality(A \cap B)
    BY <2>1, FS_Union
  <2>3. /\ Cardinality(A) \in Nat /\ Cardinality(B) \in Nat
        /\ Cardinality(A \cap B) \in Nat /\ Cardinality(A \cup B) \in Nat
    BY <2>1, <2>2, FS_CardinalityType, FS_Intersection
  <2>4. /\ T = A \cup B /\ Cardinality(A) = Cardinality(Work) * 6
        /\ Cardinality(B) = Cardinality(W) * 3
    BY <1>9, <1>10 DEF A, B
  <2> HIDE DEF T, W
  <2> QED
    BY <2>2, <2>3, <2>4
<1>12. Cardinality(E) <= Cardinality(T)
  <2> HIDE DEF E, T, f
  <2> QED
    BY <1>5, <1>11, FS_Injection
<1>13. SeenRetries = retries
  BY DEF SeenRetries, RInv, IInv, TypeOK, NoTableNoRows
<1>14. Len(Plan) \in Nat
  BY PlanAssumption
<1> HIDE DEF E, T, W
<1> QED
  BY <1>1, <1>2, <1>6, <1>7, <1>11, <1>12, <1>13, <1>14 DEF EventBound

(* The order of events holds of every history. *)
LEMMA RankedStepOrStutter ==
    ASSUME RInv, [Next]_vars
    PROVE  RInv'
<1>1. CASE UNCHANGED vars
  <2>1. IInv'
    BY StepPreserves DEF RInv
  <2> QED
    BY <1>1, <2>1 DEF vars, RInv, RetriesAttempted, Ranked, Rank, Retried,
                      AnswersFit, AnswerFits
<1>2. CASE Next
  BY <1>2, RankedStep
<1> QED
  BY <1>1, <1>2

LEMMA RankInvariance == Spec => []RInv
BY InitRanked, RankedStepOrStutter, PTL DEF Spec

(* However often a ledger is recovered and retried, the replay's limit on   *)
(* the number of events, six per item and three per retry, is not reached:  *)
(* _verify_history never refuses a history for its length.                  *)
THEOREM HistoryWithinBound == Spec => []EventsWithinBound
<1>1. RInv => EventsWithinBound
  BY RanksAreFew DEF EventsWithinBound
<1> QED
  BY <1>1, RankInvariance, PTL

-----------------------------------------------------------------------------
(* The triggers and the other calls.  Those that insert one event on behalf   *)
(* of an attempt know its number from Holds; recover takes it from the last   *)
(* event of the item, and the trigger wants one.                             *)

(* What is in flight has an attempt. *)
FlightsAttempted ==
    \A i \in 1..Len(events) : events[i].state = "in_flight" => events[i].attempt # 0

(* The row that moves an attempt on. *)
LEMMA HeldFollow ==
    ASSUME IInv, NEW a, NEW s, Holds(a, s), NEW t, NEW r,
           NEW e, e = Follow(Current(attempts[a].work), t, r)
    PROVE  /\ e.work = attempts[a].work /\ e.state = t /\ e.result = r
           /\ e.attempt = a /\ a # 0
           /\ e.request = Current(attempts[a].work).request
<1>1. PICK c \in Events : /\ c = Current(attempts[a].work) /\ c.attempt = a
                          /\ c.work = attempts[a].work
  BY HeldAttempt
<1>2. e = [c EXCEPT !.state = t, !.result = r]
  BY <1>1 DEF Follow
<1>3. a # 0
  BY HeldAttempt
<1> QED
  BY <1>1, <1>2, <1>3 DEF Events

LEMMA AppendedAttempted ==
    ASSUME IInv, IInv', FlightsAttempted, NEW e, events' = Append(events, e),
           e.state = "in_flight" => e.attempt # 0
    PROVE  FlightsAttempted'
<1>1. /\ Len(events') = Len(events) + 1 /\ events'[Len(events) + 1] = e
      /\ Extension
  BY AppendOne
<1>2. Len(events) \in Nat
  BY DEF IInv, TypeOK
<1> QED
  BY <1>1, <1>2 DEF Extension, FlightsAttempted

(* Only start puts an item in flight, and its row names the attempt. *)
LEMMA StepAttempted ==
    ASSUME IInv, IInv', FlightsAttempted, Next
    PROVE  FlightsAttempted'
<1>1. ASSUME NEW w \in Work, NEW q \in Requests, Reserve(w, q)
      PROVE  FlightsAttempted'
  <2>1. PICK e : e = ReservedEvent(w, q)
    OBVIOUS
  <2>2. events' = Append(events, e) /\ e.state = "reserved"
    BY <1>1, <2>1 DEF Reserve, ReservedEvent, Unattempted
  <2> QED
    BY <2>2, AppendedAttempted
<1>2. ASSUME NEW w \in Work, NEW s \in {"unavailable", "blocked"}, Skip(w, s)
      PROVE  FlightsAttempted'
  <2>1. PICK e : e = Unattempted(w, s)
    OBVIOUS
  <2>2. events' = Append(events, e) /\ e.state = s
    BY <1>2, <2>1 DEF Skip, Insert, Unattempted
  <2> QED
    BY <2>2, AppendedAttempted
<1>3. ASSUME NEW a \in 1..Len(attempts), Start(a)
      PROVE  FlightsAttempted'
  <2>1. PICK e : e = Follow(Current(attempts[a].work), "in_flight", Null)
    OBVIOUS
  <2>2. events' = Append(events, e) /\ Holds(a, "reserved")
    BY <1>3, <2>1 DEF Start, Insert, Inflight
  <2>3. e.attempt # 0
    BY <2>1, <2>2, HeldFollow
  <2> QED
    BY <2>2, <2>3, AppendedAttempted
<1>4. ASSUME NEW a \in 1..Len(attempts), Complete(a)
      PROVE  FlightsAttempted'
  <2>1. PICK c \in Events : c = Current(attempts[a].work)
    BY <1>4, HeldAttempt DEF Complete
  <2>2. PICK e : e = [c EXCEPT !.state = "completed"]
    OBVIOUS
  <2>3. events' = Append(events, e) /\ e.state = "completed"
    BY <1>4, <2>1, <2>2 DEF Complete, Insert, Events
  <2> QED
    BY <2>3, AppendedAttempted
<1>5. ASSUME NEW a \in 1..Len(attempts), NEW r \in Results, RecordResult(a, r)
      PROVE  FlightsAttempted'
  <2>1. PICK e : e = Follow(Current(attempts[a].work), "result_saved", r)
    OBVIOUS
  <2>2. events' = Append(events, e) /\ Holds(a, "in_flight")
    BY <1>5, <2>1 DEF RecordResult, Insert
  <2>3. e.state = "result_saved"
    BY <2>1, <2>2, HeldFollow
  <2> QED
    BY <2>2, <2>3, AppendedAttempted
<1>6. ASSUME NEW a \in 1..Len(attempts), NEW s \in {"failed", "limited"}, Fail(a, s)
      PROVE  FlightsAttempted'
  <2>1. PICK e : e = Follow(Current(attempts[a].work), s, Null)
    OBVIOUS
  <2>2. events' = Append(events, e) /\ Holds(a, "in_flight")
    BY <1>6, <2>1 DEF Fail, Insert
  <2>3. e.state = s
    BY <2>1, <2>2, HeldFollow
  <2> QED
    BY <2>2, <2>3, AppendedAttempted
<1>7. CASE Recover
  <2>1. /\ Extension
        /\ \A i \in Added : \E w \in InState("in_flight") :
              events'[i] = Follow(Current(w), "uncertain", Null)
    BY <1>7, RecoverInterrupts
  <2>2. \A i \in Added : events'[i].state = "uncertain"
    BY <2>1, InterruptedEvent DEF IInv
  <2>3. Len(events) \in Nat /\ Len(events') \in Nat
    BY DEF IInv, TypeOK
  <2>4. \A i \in 1..Len(events') : i \in 1..Len(events) \/ i \in Added
    BY <2>3 DEF Added
  <2> QED
    BY <2>1, <2>2, <2>4 DEF Extension, FlightsAttempted
<1>8. ASSUME NEW a \in 1..Len(attempts), NEW k \in Receipts, AuthorizeUnsentRetry(a, k)
      PROVE  FlightsAttempted'
  <2>1. PICK e : e = Follow(Current(attempts[a].work), "reserved", Null)
    OBVIOUS
  <2>2. events' = Append(events, e) /\ Holds(a, "uncertain")
    BY <1>8, <2>1 DEF AuthorizeUnsentRetry, CanRetry
  <2>3. e.state = "reserved"
    BY <2>1, <2>2, HeldFollow
  <2> QED
    BY <2>2, <2>3, AppendedAttempted
<1>9. ASSUME NEW a \in 1..Len(attempts), NEW r \in Results, NEW k \in Receipts,
             ReconcileResult(a, r, k)
      PROVE  FlightsAttempted'
  <2>1. PICK e : e = Follow(Current(attempts[a].work), "result_saved", r)
    OBVIOUS
  <2>2. events' = Append(events, e) /\ Holds(a, "uncertain")
    BY <1>9, <2>1 DEF ReconcileResult, CanReconcile
  <2>3. e.state = "result_saved"
    BY <2>1, <2>2, HeldFollow
  <2> QED
    BY <2>2, <2>3, AppendedAttempted
<1> QED
  BY <1>1, <1>2, <1>3, <1>4, <1>5, <1>6, <1>7, <1>8, <1>9 DEF Next

(* The triggers let an attempt on, wherever _transition takes it ... *)
LEMMA HeldPasses ==
    ASSUME IInv, NEW a, NEW s, Holds(a, s), NEW t, NEW r,
           \/ s = "reserved" /\ t = "in_flight"
           \/ s = "in_flight" /\ t \in {"result_saved", "failed", "limited"}
    PROVE  TriggersPass(Follow(Current(attempts[a].work), t, r))
<1>1. PICK w : w = attempts[a].work
  OBVIOUS
<1>2. PICK e : e = Follow(Current(w), t, r)
  OBVIOUS
<1>3. /\ e.work = w /\ e.state = t
      /\ e.attempt = a /\ a # 0 /\ e.request = Current(w).request
  BY <1>1, <1>2, HeldFollow
<1>4. Current(w).attempt = a /\ Current(w).state = s
  BY <1>1, HeldAttempt
<1>5. EventsGuard(e, attempts, reconciliations, retries, version)
  BY <1>3, <1>4 DEF EventsGuard
<1> QED
  BY <1>1, <1>2, <1>5 DEF TriggersPass

(* ... to completed, with the answer that was saved ... *)
LEMMA CompletePasses ==
    ASSUME IInv, NEW a, Holds(a, "result_saved")
    PROVE  TriggersPass([Current(attempts[a].work) EXCEPT !.state = "completed"])
<1>1. PICK c \in Events : /\ c = Current(attempts[a].work) /\ c.work = attempts[a].work
                          /\ c.attempt = a /\ a # 0 /\ c.state = "result_saved"
  BY HeldAttempt
<1>2. PICK e : e = [c EXCEPT !.state = "completed"]
  OBVIOUS
<1>3. /\ e.work = attempts[a].work /\ e.state = "completed"
      /\ e.attempt = a /\ e.request = c.request /\ e.result = c.result
  BY <1>1, <1>2 DEF Events
<1>4. EventsGuard(e, attempts, reconciliations, retries, version)
  BY <1>1, <1>3 DEF EventsGuard
<1> QED
  BY <1>1, <1>2, <1>4 DEF TriggersPass

(* ... an item that is passed over ... *)
LEMMA SkipPasses ==
    ASSUME IInv, NEW w \in Work, NEW s \in {"unavailable", "blocked"}, State(w) = "planned"
    PROVE  TriggersPass(Unattempted(w, s))
<1>1. \A a \in 1..Len(attempts) : attempts[a].work # w
  BY PlannedIsFirst
<1> QED
  BY <1>1 DEF TriggersPass, EventsGuard, Unattempted, State

(* ... and one that was interrupted. *)
LEMMA RecoverPasses ==
    ASSUME IInv, FlightsAttempted, NEW w \in InState("in_flight")
    PROVE  TriggersPass(Follow(Current(w), "uncertain", Null))
<1>1. PICK e : e = Follow(Current(w), "uncertain", Null)
  OBVIOUS
<1>2. /\ e.work = w /\ e.state = "uncertain" /\ e.attempt = Current(w).attempt
      /\ e.request = Current(w).request /\ Current(w).state = "in_flight"
  BY <1>1, InterruptedEvent DEF IInv
<1>3. Current(w).attempt # 0
  <2>1. w \in Work
    BY DEF InState
  <2>2. LastIndex(w) \in 1..Len(events)
    BY <2>1, CurrentIsLast DEF IInv
  <2> QED
    BY <1>2, <2>2 DEF FlightsAttempted, Current
<1>4. EventsGuard(e, attempts, reconciliations, retries, version)
  BY <1>2, <1>3 DEF EventsGuard
<1> QED
  BY <1>1, <1>4 DEF TriggersPass

(* No trigger of the schema in force aborts a call that its Python checks    *)
(* let through, whichever of the nine that write it is: for every plan,     *)
(* every history and every schema version.                                 *)
THEOREM TriggersNeverAbort == Spec => []TriggersAgree
<1> DEFINE I == IInv /\ FlightsAttempted
<1>1. Init => I
  <2> SUFFICES ASSUME Init
               PROVE  FlightsAttempted
    BY InitInvariant
  <2>1. Len(events) = Len(Plan) /\ Plan \in Seq(Work)
    BY PlanAssumption DEF Init
  <2> QED
    BY <2>1 DEF Init, Unattempted, FlightsAttempted
<1>2. I /\ [Next]_vars => I'
  <2> SUFFICES ASSUME I, [Next]_vars
               PROVE  I'
    OBVIOUS
  <2>1. IInv'
    BY StepPreserves
  <2>2. CASE Next
    BY <2>1, <2>2, StepAttempted
  <2>3. CASE UNCHANGED vars
    BY <2>1, <2>3 DEF vars, FlightsAttempted
  <2> QED
    BY <2>2, <2>3
<1>3. I => TriggersAgree
  <2> SUFFICES ASSUME I
               PROVE  TriggersAgree
    OBVIOUS
  <2>1. \A w \in Work, s \in {"unavailable", "blocked"} :
           State(w) = "planned" => TriggersPass(Unattempted(w, s))
    BY SkipPasses
  <2>2. \A a \in 1..Len(attempts) :
           Holds(a, "reserved") => TriggersPass(Inflight(attempts[a].work))
    BY HeldPasses DEF Inflight
  <2>3. \A a \in 1..Len(attempts), r \in Results : Holds(a, "in_flight") =>
           TriggersPass(Follow(Current(attempts[a].work), "result_saved", r))
    BY HeldPasses
  <2>4. \A a \in 1..Len(attempts) : Holds(a, "result_saved") =>
           TriggersPass([Current(attempts[a].work) EXCEPT !.state = "completed"])
    BY CompletePasses
  <2>5. \A a \in 1..Len(attempts), s \in {"failed", "limited"} : Holds(a, "in_flight") =>
           TriggersPass(Follow(Current(attempts[a].work), s, Null))
    BY HeldPasses
  <2>6. \A w \in InState("in_flight") : TriggersPass(Follow(Current(w), "uncertain", Null))
    BY RecoverPasses
  <2> QED
    BY <2>1, <2>2, <2>3, <2>4, <2>5, <2>6, ReserveTriggersAgree, RetryTriggersAgree,
       ReconcileTriggersAgree DEF TriggersAgree
<1> QED
  BY <1>1, <1>2, <1>3, PTL DEF Spec

-----------------------------------------------------------------------------
(* The ledger implements Dispatch *)

(* The abstract variables. *)
Phase == [w \in Work |-> PhaseOf(State(w))]
Answer == [w \in Work |-> Current(w).result]
Sent == [w \in Work |-> Sends(w)]

(* The events that handed item w to a model. *)
Sendings(w) ==
    {i \in 1..Len(events) : events[i].work = w /\ events[i].state = "in_flight"}

LEMMA SendingsFinite ==
    ASSUME IInv, NEW w
    PROVE  IsFiniteSet(Sendings(w)) /\ Sends(w) = Cardinality(Sendings(w)) /\ Sends(w) \in Nat
<1>1. PICK n \in Nat : n = Len(events)
  BY DEF IInv, TypeOK
<1>2. IsFiniteSet(1..n)
  BY FS_Interval
<1>3. IsFiniteSet(Sendings(w))
  BY <1>1, <1>2, FS_Subset DEF Sendings
<1>4. Sends(w) = Cardinality(Sendings(w))
  BY DEF Sends, Sendings
<1> QED
  BY <1>3, <1>4, FS_CardinalityType

(* The current event of an item after a step. *)
LEMMA CurrentMoves ==
    ASSUME IInv, IInv', Extension, NEW w \in Work, NEW i \in Added, events'[i].work = w
    PROVE  Current(w)' = events'[i] /\ State(w)' = events'[i].state
<1>1. IsLast(w, i, Len(events))'
  BY AddedIsLast DEF IInv
<1>2. i \in 1..Len(events') /\ Len(events') \in Nat
  BY AddedMoves DEF IInv, TypeOK
<1>3. \E j \in 1..Len(events') : IsLast(w, j, Len(events))'
  BY <1>1, <1>2
<1>4. IsLast(w, LastIndex(w), Len(events))'
  BY <1>3 DEF LastIndex
<1>5. LastIndex(w)' = i
  BY <1>1, <1>2, <1>4 DEF IsLast
<1> QED
  BY <1>5 DEF Current, State

LEMMA CurrentStays ==
    ASSUME IInv, IInv', Extension, NEW w \in Work, \A i \in Added : events'[i].work # w
    PROVE  Current(w)' = Current(w) /\ State(w)' = State(w)
<1>1. PICK p \in 1..Len(events) : p = LastIndex(w) /\ IsLast(w, p, Len(events))
  BY CurrentIsLast DEF IInv
<1>2. IsLast(w, p, Len(events))'
  BY <1>1, OthersUnchanged DEF IInv
<1>3. \E j \in 1..Len(events') : IsLast(w, j, Len(events))'
  BY <1>2 DEF IsLast
<1>4. IsLast(w, LastIndex(w), Len(events))'
  BY <1>3 DEF LastIndex
<1>5. LastIndex(w)' = p
  <2>1. Len(events') \in Nat
    BY DEF IInv, TypeOK
  <2> QED
    BY <1>2, <1>4, <2>1 DEF IsLast
<1>6. events'[p] = events[p]
  BY DEF Extension
<1> QED
  BY <1>1, <1>5, <1>6 DEF Current, State

(* How often an item was sent changes only by an event that sends it. *)
LEMMA SendsStay ==
    ASSUME IInv, IInv', Extension, NEW w \in Work,
           \A i \in Added : events'[i].work = w => events'[i].state # "in_flight"
    PROVE  Sends(w)' = Sends(w)
<1>1. Len(events) \in Nat /\ Len(events') \in Nat /\ Len(events) <= Len(events')
  BY DEF IInv, TypeOK, Extension
<1>2. Sendings(w)' = Sendings(w)
  <2>1. ASSUME NEW i \in 1..Len(events'), events'[i].work = w, events'[i].state = "in_flight"
        PROVE  i \in 1..Len(events)
    BY <1>1, <2>1 DEF Added
  <2> QED
    BY <1>1, <2>1 DEF Sendings, Extension
<1>3. Sends(w)' = Cardinality(Sendings(w)') /\ Sends(w) = Cardinality(Sendings(w))
  BY DEF Sends, Sendings
<1> QED
  BY <1>2, <1>3

LEMMA SendsGrow ==
    ASSUME IInv, IInv', Extension, NEW w \in Work, NEW i, Added = {i},
           events'[i].work = w, events'[i].state = "in_flight"
    PROVE  Sends(w)' = Sends(w) + 1
<1>1. Len(events) \in Nat /\ Len(events') \in Nat /\ Len(events) <= Len(events')
  BY DEF IInv, TypeOK, Extension
<1>2. i \in 1..Len(events') /\ i \notin 1..Len(events)
  BY <1>1 DEF Added
<1>3. \A j \in 1..Len(events') : j \in 1..Len(events) \/ j = i
  BY <1>1 DEF Added
<1>4. Sendings(w)' = Sendings(w) \cup {i}
  BY <1>1, <1>2, <1>3 DEF Sendings, Extension
<1>5. i \notin Sendings(w)
  BY <1>2 DEF Sendings
<1>6. Sends(w)' = Cardinality(Sendings(w)') /\ Sends(w) = Cardinality(Sendings(w))
  BY DEF Sends, Sendings
<1> QED
  BY <1>4, <1>5, <1>6, SendingsFinite, FS_AddElement

(* What appending one event does to the abstract variables. *)
LEMMA OneMapped ==
    ASSUME IInv, IInv', NEW e, events' = Append(events, e), NEW w \in Work, e.work = w
    PROVE  /\ Phase' = [Phase EXCEPT ![w] = PhaseOf(e.state)]
           /\ Answer' = [Answer EXCEPT ![w] = e.result]
           /\ e.state # "in_flight" => Sent' = Sent
           /\ e.state = "in_flight" => Sent' = [Sent EXCEPT ![w] = @ + 1]
<1>1. PICK i : i = Len(events) + 1
  OBVIOUS
<1>2. Extension /\ Added = {i} /\ events'[i] = e
  BY <1>1, AppendOne
<1>3. Current(w)' = e /\ State(w)' = e.state
  BY <1>2, CurrentMoves
<1>4. \A v \in Work \ {w} : Current(v)' = Current(v) /\ State(v)' = State(v) /\ Sends(v)' = Sends(v)
  BY <1>2, CurrentStays, SendsStay
<1>5. Phase' = [Phase EXCEPT ![w] = PhaseOf(e.state)]
  BY <1>3, <1>4 DEF Phase, PhaseOf
<1>6. Answer' = [Answer EXCEPT ![w] = e.result]
  BY <1>3, <1>4 DEF Answer
<1>7. ASSUME e.state # "in_flight"
      PROVE  Sent' = Sent
  BY <1>2, <1>4, <1>7, SendsStay DEF Sent
<1>8. ASSUME e.state = "in_flight"
      PROVE  Sent' = [Sent EXCEPT ![w] = @ + 1]
  <2>1. Sends(w)' = Sends(w) + 1
    BY <1>2, <1>8, SendsGrow
  <2> QED
    BY <1>4, <2>1 DEF Sent
<1> QED
  BY <1>5, <1>6, <1>7, <1>8

(* A sending ranks 2, or 5 after the retry, so that at most one of them can *)
(* come before an event that ranks no higher than 4.                        *)
LEMMA AtMostOneSending ==
    ASSUME RInv, NEW w \in Work, State(w) # "in_flight", Rank(LastIndex(w)) <= 4
    PROVE  /\ \A i, j \in Sendings(w) : i = j
           /\ Sends(w) = 0 \/ Sends(w) = 1
           /\ Sendings(w) # {} => Sends(w) = 1
<1>1. PICK p \in 1..Len(events) : /\ p = LastIndex(w) /\ IsLast(w, p, Len(events))
                                  /\ events[p].work = w /\ events[p].state # "in_flight"
  BY CurrentIsLast DEF RInv, IInv, State, Current
<1>2. ASSUME NEW i \in Sendings(w)
      PROVE  Rank(i) = 2 /\ i \in 1..Len(events) /\ i < p /\ events[i].work = w
  <2>1. i \in 1..Len(events) /\ events[i].work = w /\ events[i].state = "in_flight"
    BY <1>2 DEF Sendings
  <2>2. i < p
    BY <1>1, <2>1 DEF IsLast
  <2>3. Rank(i) < Rank(p)
    BY <1>1, <2>1, <2>2 DEF RInv, Ranked
  <2>4. Rank(i) = 2 \/ Rank(i) = 5
    BY <2>1 DEF Rank, Order, States
  <2>5. Rank(p) \in Int
    BY RankType DEF RInv
  <2> QED
    BY <1>1, <2>1, <2>2, <2>3, <2>4, <2>5
<1>3. \A i, j \in Sendings(w) : i = j
  <2> SUFFICES ASSUME NEW i \in Sendings(w), NEW j \in Sendings(w), i < j
               PROVE  FALSE
    BY <1>2
  <2>1. Rank(i) < Rank(j)
    BY <1>2 DEF RInv, Ranked
  <2> QED
    BY <1>2, <2>1
<1>4. CASE Sendings(w) = {}
  <2>1. Sends(w) = 0
    BY <1>4, SendingsFinite, FS_EmptySet DEF RInv
  <2> QED
    BY <1>3, <1>4, <2>1
<1>5. CASE Sendings(w) # {}
  <2>1. PICK i : Sendings(w) = {i}
    BY <1>3, <1>5
  <2>2. Sends(w) = 1
    BY <2>1, SendingsFinite, FS_Singleton DEF RInv
  <2> QED
    BY <1>3, <2>2
<1> QED
  BY <1>4, <1>5

(* An item that may be sent was sent at most once. *)
LEMMA SendableOnceMore ==
    ASSUME RInv, NEW w \in Work, State(w) = "reserved"
    PROVE  Sends(w) < 2
<1>1. LastIndex(w) \in 1..Len(events) /\ events[LastIndex(w)].state = "reserved"
  BY CurrentIsLast DEF RInv, IInv, State, Current
<1>2. Rank(LastIndex(w)) <= 4
  BY <1>1 DEF Rank, Order, States
<1> QED
  BY <1>2, AtMostOneSending

(* An item that was never reserved was never sent. *)
LEMMA PlannedNeverSent ==
    ASSUME RInv, NEW w \in Work, State(w) = "planned"
    PROVE  Sends(w) = 0
<1>1. events[LastIndex(w)].state = "planned"
  BY DEF State, Current
<1>2. Sendings(w) = {}
  BY <1>1, PlannedIsFirst DEF Sendings, RInv
<1> QED
  BY <1>2, SendingsFinite, FS_EmptySet DEF RInv

(* An interrupted item that was not retried was sent exactly once. *)
LEMMA InterruptedSentOnce ==
    ASSUME RInv, NEW w \in Work, State(w) = "uncertain",
           \A row \in retries : attempts[row.attempt].work # w
    PROVE  Sends(w) = 1
<1>1. PICK p \in 1..Len(events) : /\ p = LastIndex(w) /\ IsLast(w, p, Len(events))
                                  /\ events[p].work = w /\ events[p].state = "uncertain"
  BY CurrentIsLast DEF RInv, IInv, State, Current
<1>2. Rank(p) = 3
  BY <1>1 DEF Rank, Retried, Order, States
<1>3. EventVerifies(p)
  BY DEF RInv, IInv, HistoryVerifies
<1>4. PICK q \in 1..(p - 1) : Precedes(q, p) /\ MoveVerifies(q, p)
  BY <1>1, <1>3 DEF EventVerifies
<1>5. q \in 1..Len(events) /\ events[q].work = w
  BY <1>1, <1>4 DEF Precedes, IsLast
<1>6. events[q].state = "in_flight"
  <2>1. events[q].state \in States
    BY <1>5, RankType DEF RInv
  <2>2. "uncertain" \in Moves[events[q].state]
    BY <1>1, <1>4 DEF MoveVerifies
  <2> QED
    BY <2>1, <2>2 DEF Moves, States
<1>7. q \in Sendings(w)
  BY <1>5, <1>6 DEF Sendings
<1> QED
  BY <1>1, <1>2, <1>7, AtMostOneSending

(* What is known of an attempt that an operation is called with. *)
LEMMA HeldMapped ==
    ASSUME RInv, NEW a, NEW s \in States, Holds(a, s)
    PROVE  \E w \in Work, c \in Events :
              /\ w = attempts[a].work /\ c = Current(w) /\ c.work = w /\ c.state = s
              /\ a \in 1..Len(attempts)
              /\ State(w) = s
              /\ Phase[w] = PhaseOf(s) /\ Answer[w] = c.result
              /\ AnswerFits(c)
<1>1. PICK w \in Work : w = attempts[a].work /\ a \in 1..Len(attempts)
  BY HeldAttempt DEF RInv, Holds
<1>2. PICK c \in Events : c = Current(w) /\ c.work = w /\ c.state = s /\ State(w) = s
  BY <1>1, HeldAttempt DEF RInv
<1>3. AnswerFits(c)
  BY <1>2, CurrentIsLast DEF RInv, IInv, AnswersFit, Current
<1>4. Phase[w] = PhaseOf(s) /\ Answer[w] = c.result
  BY <1>2 DEF Phase, Answer
<1> QED
  BY <1>1, <1>2, <1>3, <1>4

LEMMA AbstractShape ==
    /\ Phase = [w \in Work |-> Phase[w]]
    /\ Answer = [w \in Work |-> Answer[w]]
    /\ Sent = [w \in Work |-> Sent[w]]
BY DEF Phase, Answer, Sent

(* mark_in_flight hands the item to a model. *)
LEMMA StartSends ==
    ASSUME RInv, IInv', NEW a, Start(a)
    PROVE  \E w \in Work : Abstract!Send(w)
<1>1. Holds(a, "reserved") /\ "reserved" \in States
  BY DEF Start, States
<1>2. PICK w \in Work, c \in Events :
         /\ w = attempts[a].work /\ c = Current(w) /\ c.work = w /\ c.state = "reserved"
         /\ a \in 1..Len(attempts) /\ State(w) = "reserved"
         /\ Phase[w] = PhaseOf("reserved") /\ Answer[w] = c.result /\ AnswerFits(c)
  BY <1>1, HeldMapped
<1>3. PICK e : e = [c EXCEPT !.state = "in_flight", !.result = Null]
  OBVIOUS
<1>4. e.work = w /\ e.state = "in_flight" /\ e.result = Null
  BY <1>2, <1>3 DEF Events
<1>5. events' = Append(events, e)
  BY <1>2, <1>3 DEF Start, Insert, Inflight, Follow
<1>6. /\ Phase' = [Phase EXCEPT ![w] = PhaseOf("in_flight")]
      /\ Answer' = [Answer EXCEPT ![w] = Null]
      /\ Sent' = [Sent EXCEPT ![w] = @ + 1]
  BY <1>4, <1>5, OneMapped DEF RInv
<1>7. Answer[w] = Null
  BY <1>2 DEF AnswerFits
<1>8. Answer' = Answer
  BY <1>6, <1>7, AbstractShape
<1>9. Sent[w] < 2
  BY <1>2, SendableOnceMore DEF Sent
<1>10. \A d \in Deps[w] : Phase[d] = "settled"
  <2> TAKE d \in Deps[w]
  <2>1. d \in Work
    BY PlanAssumption
  <2>2. State(d) = "completed"
    BY <1>2 DEF RInv, IInv, PromptsSettled, DependenciesCompleted
  <2> QED
    BY <2>1, <2>2 DEF Phase, PhaseOf
<1>11. PhaseOf("reserved") = "idle" /\ PhaseOf("in_flight") = "sending"
  BY DEF PhaseOf
<1>12. Abstract!Send(w)
  BY <1>2, <1>6, <1>8, <1>9, <1>10, <1>11 DEF Abstract!Send, Phase, Answer, Sent
<1> QED
  BY <1>12

LEMMA PhaseValues ==
    /\ PhaseOf("planned") = "idle" /\ PhaseOf("reserved") = "idle"
    /\ PhaseOf("in_flight") = "sending" /\ PhaseOf("uncertain") = "unknown"
    /\ PhaseOf("result_saved") = "settled" /\ PhaseOf("completed") = "settled"
    /\ PhaseOf("failed") = "closed" /\ PhaseOf("limited") = "closed"
    /\ PhaseOf("unavailable") = "closed" /\ PhaseOf("blocked") = "closed"
BY DEF PhaseOf

(* record_result and reconcile_result settle it. *)
LEMMA RecordSettles ==
    ASSUME RInv, IInv', NEW a, NEW r \in Results, RecordResult(a, r)
    PROVE  \E w \in Work : Abstract!Settle(w, r)
<1>1. Holds(a, "in_flight") /\ "in_flight" \in States
  BY DEF RecordResult, States
<1>2. PICK w \in Work, c \in Events :
         /\ w = attempts[a].work /\ c = Current(w) /\ c.work = w /\ c.state = "in_flight"
         /\ a \in 1..Len(attempts) /\ State(w) = "in_flight"
         /\ Phase[w] = PhaseOf("in_flight") /\ Answer[w] = c.result /\ AnswerFits(c)
  BY <1>1, HeldMapped
<1>3. PICK e : e = [c EXCEPT !.state = "result_saved", !.result = r]
  OBVIOUS
<1>4. e.work = w /\ e.state = "result_saved" /\ e.result = r
  BY <1>2, <1>3 DEF Events
<1>5. events' = Append(events, e)
  BY <1>2, <1>3 DEF RecordResult, Insert, Follow
<1>6. /\ Phase' = [Phase EXCEPT ![w] = PhaseOf("result_saved")]
      /\ Answer' = [Answer EXCEPT ![w] = r]
      /\ Sent' = Sent
  BY <1>4, <1>5, OneMapped DEF RInv
<1>7. Abstract!Settle(w, r)
  BY <1>2, <1>6, PhaseValues DEF Abstract!Settle, Phase, Answer, Sent
<1> QED
  BY <1>7

(* The answer that an operator found settles the item as well. *)
LEMMA ReconcileSettles ==
    ASSUME RInv, IInv', NEW a, NEW r \in Results, NEW k \in Receipts,
           ReconcileResult(a, r, k)
    PROVE  \E w \in Work : Abstract!Settle(w, r)
<1>1. Holds(a, "uncertain") /\ "uncertain" \in States
  BY DEF ReconcileResult, CanReconcile, States
<1>2. PICK w \in Work, c \in Events :
         /\ w = attempts[a].work /\ c = Current(w) /\ c.work = w /\ c.state = "uncertain"
         /\ a \in 1..Len(attempts) /\ State(w) = "uncertain"
         /\ Phase[w] = PhaseOf("uncertain") /\ Answer[w] = c.result /\ AnswerFits(c)
  BY <1>1, HeldMapped
<1>3. PICK e : e = [c EXCEPT !.state = "result_saved", !.result = r]
  OBVIOUS
<1>4. e.work = w /\ e.state = "result_saved" /\ e.result = r
  BY <1>2, <1>3 DEF Events
<1>5. events' = Append(events, e)
  BY <1>2, <1>3 DEF ReconcileResult, CanReconcile, Insert, Follow
<1>6. /\ Phase' = [Phase EXCEPT ![w] = PhaseOf("result_saved")]
      /\ Answer' = [Answer EXCEPT ![w] = r]
      /\ Sent' = Sent
  BY <1>4, <1>5, OneMapped DEF RInv
<1>7. Abstract!Settle(w, r)
  BY <1>2, <1>6, PhaseValues DEF Abstract!Settle, Phase, Answer, Sent
<1> QED
  BY <1>7

(* complete_work changes nothing that Dispatch speaks of. *)
LEMMA CompleteStutters ==
    ASSUME RInv, IInv', NEW a, Complete(a)
    PROVE  UNCHANGED Abstract!vars
<1>1. Holds(a, "result_saved") /\ "result_saved" \in States
  BY DEF Complete, States
<1>2. PICK w \in Work, c \in Events :
         /\ w = attempts[a].work /\ c = Current(w) /\ c.work = w /\ c.state = "result_saved"
         /\ a \in 1..Len(attempts) /\ State(w) = "result_saved"
         /\ Phase[w] = PhaseOf("result_saved") /\ Answer[w] = c.result /\ AnswerFits(c)
  BY <1>1, HeldMapped
<1>3. PICK e : e = [c EXCEPT !.state = "completed"]
  OBVIOUS
<1>4. e.work = w /\ e.state = "completed" /\ e.result = c.result
  BY <1>2, <1>3 DEF Events
<1>5. events' = Append(events, e)
  BY <1>2, <1>3 DEF Complete, Insert, Follow
<1>6. /\ Phase' = [Phase EXCEPT ![w] = PhaseOf("completed")]
      /\ Answer' = [Answer EXCEPT ![w] = c.result]
      /\ Sent' = Sent
  BY <1>4, <1>5, OneMapped DEF RInv
<1>7. Phase' = Phase /\ Answer' = Answer
  BY <1>2, <1>6, PhaseValues, AbstractShape
<1> QED
  BY <1>6, <1>7 DEF Abstract!vars, Phase, Answer, Sent

(* record_failure gives it up on the refusal of the model. *)
LEMMA FailCloses ==
    ASSUME RInv, IInv', NEW a, NEW s, Fail(a, s)
    PROVE  \E w \in Work : Abstract!Close(w)
<1>1. Holds(a, "in_flight") /\ "in_flight" \in States
  BY DEF Fail, States
<1>2. PICK w \in Work, c \in Events :
         /\ w = attempts[a].work /\ c = Current(w) /\ c.work = w /\ c.state = "in_flight"
         /\ a \in 1..Len(attempts) /\ State(w) = "in_flight"
         /\ Phase[w] = PhaseOf("in_flight") /\ Answer[w] = c.result /\ AnswerFits(c)
  BY <1>1, HeldMapped
<1>3. PICK e : e = [c EXCEPT !.state = s, !.result = Null]
  OBVIOUS
<1>4. e.work = w /\ e.state = s /\ e.result = Null
  BY <1>2, <1>3 DEF Events
<1>5. events' = Append(events, e)
  BY <1>2, <1>3 DEF Fail, Insert, Follow
<1>6. /\ Phase' = [Phase EXCEPT ![w] = PhaseOf(s)]
      /\ Answer' = [Answer EXCEPT ![w] = Null]
      /\ Sent' = Sent
  <2>1. s # "in_flight"
    BY DEF Fail
  <2> QED
    BY <1>4, <1>5, <2>1, OneMapped DEF RInv
<1>7. Answer[w] = Null
  BY <1>2 DEF AnswerFits
<1>8. Answer' = Answer
  BY <1>6, <1>7, AbstractShape
<1>9. PhaseOf(s) = "closed"
  BY PhaseValues DEF Fail
<1>10. Abstract!Close(w)
  BY <1>2, <1>6, <1>8, <1>9, PhaseValues DEF Abstract!Close, Phase, Answer, Sent
<1> QED
  BY <1>10

(* An operator's statement reopens it, once. *)
LEMMA RetryReopens ==
    ASSUME RInv, IInv', NEW a, NEW k \in Receipts, AuthorizeUnsentRetry(a, k)
    PROVE  \E w \in Work : Abstract!Reopen(w)
<1>1. Holds(a, "uncertain") /\ "uncertain" \in States
  BY DEF AuthorizeUnsentRetry, CanRetry, States
<1>2. PICK w \in Work, c \in Events :
         /\ w = attempts[a].work /\ c = Current(w) /\ c.work = w /\ c.state = "uncertain"
         /\ a \in 1..Len(attempts) /\ State(w) = "uncertain"
         /\ Phase[w] = PhaseOf("uncertain") /\ Answer[w] = c.result /\ AnswerFits(c)
  BY <1>1, HeldMapped
<1>3. PICK e : e = [c EXCEPT !.state = "reserved", !.result = Null]
  OBVIOUS
<1>4. e.work = w /\ e.state = "reserved" /\ e.result = Null
  BY <1>2, <1>3 DEF Events
<1>5. events' = Append(events, e)
  BY <1>2, <1>3 DEF AuthorizeUnsentRetry, CanRetry, Insert, Follow
<1>6. /\ Phase' = [Phase EXCEPT ![w] = PhaseOf("reserved")]
      /\ Answer' = [Answer EXCEPT ![w] = Null]
      /\ Sent' = Sent
  BY <1>4, <1>5, OneMapped DEF RInv
<1>7. Answer[w] = Null
  BY <1>2 DEF AnswerFits
<1>8. Answer' = Answer
  BY <1>6, <1>7, AbstractShape
<1>9. Sent[w] = 1
  <2>1. \A row \in retries : row.attempt # a
    BY DEF AuthorizeUnsentRetry, RetriesGuard, RetryRow
  <2>2. ASSUME NEW row \in retries, attempts[row.attempt].work = w
        PROVE  FALSE
    <3>1. row.attempt \in 1..Len(attempts)
      BY DEF RInv, RetriesAttempted
    <3>2. row.attempt = a
      BY <1>2, <2>2, <3>1, OneAttempt DEF RInv
    <3> QED
      BY <2>1, <3>2
  <2> QED
    BY <1>2, <2>2, InterruptedSentOnce DEF Sent
<1>10. Abstract!Reopen(w)
  BY <1>2, <1>6, <1>8, <1>9, PhaseValues DEF Abstract!Reopen, Phase, Answer, Sent
<1> QED
  BY <1>10

(* skip_unavailable and skip_blocked give up an item that was never sent. *)
LEMMA SkipCloses ==
    ASSUME RInv, IInv', NEW w \in Work, NEW s, Skip(w, s)
    PROVE  Abstract!Close(w)
<1>1. PICK e : e = Unattempted(w, s)
  OBVIOUS
<1>2. e.work = w /\ e.state = s /\ e.result = Null /\ s \in {"unavailable", "blocked"}
  BY <1>1 DEF Unattempted, Skip
<1>3. events' = Append(events, e) /\ State(w) = "planned"
  BY <1>1 DEF Skip, Insert
<1>4. /\ Phase' = [Phase EXCEPT ![w] = PhaseOf(s)]
      /\ Answer' = [Answer EXCEPT ![w] = Null]
      /\ Sent' = Sent
  BY <1>2, <1>3, OneMapped DEF RInv
<1>5. Answer[w] = Null
  BY <1>3, CurrentIsLast DEF RInv, IInv, AnswersFit, AnswerFits, Answer, State, Current
<1>6. Answer' = Answer
  BY <1>4, <1>5, AbstractShape
<1>7. Phase[w] = "idle" /\ Sent[w] = 0 /\ PhaseOf(s) = "closed"
  BY <1>2, <1>3, PhaseValues, PlannedNeverSent DEF Phase, Sent
<1> QED
  BY <1>4, <1>6, <1>7 DEF Abstract!Close, Phase, Answer, Sent

(* reserve changes nothing that Dispatch speaks of. *)
LEMMA ReserveStutters ==
    ASSUME RInv, IInv', NEW w \in Work, NEW q \in Requests, Reserve(w, q)
    PROVE  UNCHANGED Abstract!vars
<1>1. PICK e : e = ReservedEvent(w, q)
  OBVIOUS
<1>2. e.work = w /\ e.state = "reserved" /\ e.result = Null
  BY <1>1 DEF Unattempted, ReservedEvent
<1>3. events' = Append(events, e) /\ State(w) = "planned"
  BY <1>1 DEF Reserve, CanReserve
<1>4. /\ Phase' = [Phase EXCEPT ![w] = PhaseOf("reserved")]
      /\ Answer' = [Answer EXCEPT ![w] = Null]
      /\ Sent' = Sent
  BY <1>2, <1>3, OneMapped DEF RInv
<1>5. Answer[w] = Null
  BY <1>3, CurrentIsLast DEF RInv, IInv, AnswersFit, AnswerFits, Answer, State, Current
<1>6. Phase[w] = PhaseOf("reserved")
  BY <1>3, PhaseValues DEF Phase
<1>7. Phase' = Phase /\ Answer' = Answer
  BY <1>4, <1>5, <1>6, AbstractShape
<1> QED
  BY <1>4, <1>7 DEF Abstract!vars, Phase, Answer, Sent

(* recover interrupts every item in flight, and no other. *)
LEMMA RecoverIsInterrupt ==
    ASSUME RInv, IInv', Recover
    PROVE  \E S \in SUBSET Work : Abstract!Interrupt(S)
<1> DEFINE S == InState("in_flight")
<1>1. S \in SUBSET Work /\ S # {}
  BY DEF Recover, InState
<1>2. /\ Extension
      /\ \A i \in Added : \E w \in S : events'[i] = Follow(Current(w), "uncertain", Null)
      /\ \A w \in S : \E i \in Added : events'[i] = Follow(Current(w), "uncertain", Null)
  BY RecoverInterrupts DEF RInv
<1>3. ASSUME NEW w \in S
      PROVE  /\ Phase[w] = "sending" /\ Phase'[w] = "unknown"
             /\ Answer'[w] = Answer[w]
  <2>1. PICK i \in Added : events'[i] = Follow(Current(w), "uncertain", Null)
    BY <1>2
  <2>2. /\ events'[i].work = Current(w).work /\ events'[i].state = "uncertain"
        /\ events'[i].result = Null /\ Current(w).state = "in_flight"
    BY <2>1, InterruptedEvent, CurrentIsLast DEF RInv, IInv, InState
  <2>3. w \in Work /\ Current(w).work = w
    BY CurrentIsLast DEF RInv, IInv, InState
  <2>4. Current(w)' = events'[i] /\ State(w)' = "uncertain"
    BY <1>2, <2>2, <2>3, CurrentMoves DEF RInv
  <2>5. Current(w).result = Null
    BY <2>2, <2>3, CurrentIsLast DEF RInv, IInv, AnswersFit, AnswerFits, Current
  <2> QED
    BY <2>2, <2>3, <2>4, <2>5, PhaseValues DEF Phase, Answer, State
<1>4. ASSUME NEW w \in Work, w \notin S
      PROVE  Phase'[w] = Phase[w] /\ Answer'[w] = Answer[w]
  <2>1. \A i \in Added : events'[i].work # w
    BY <1>2, <1>4, InterruptedEvent DEF RInv, IInv
  <2>2. Current(w)' = Current(w) /\ State(w)' = State(w)
    BY <1>2, <2>1, CurrentStays DEF RInv
  <2> QED
    BY <2>2 DEF Phase, Answer, PhaseOf
<1>5. Sent' = Sent
  <2>1. \A i \in Added : events'[i].state # "in_flight"
    BY <1>2, InterruptedEvent DEF RInv, IInv
  <2>2. \A w \in Work : Sends(w)' = Sends(w)
    BY <1>2, <2>1, SendsStay DEF RInv
  <2> QED
    BY <2>2 DEF Sent
<1>6. Phase' = [w \in Work |-> IF w \in S THEN "unknown" ELSE Phase[w]]
  BY <1>1, <1>3, <1>4 DEF Phase
<1>7. Answer' = Answer
  BY <1>3, <1>4 DEF Answer
<1>8. \A w \in S : Phase[w] = "sending"
  BY <1>3
<1> HIDE DEF S
<1>9. Abstract!Interrupt(S)
  BY <1>1, <1>5, <1>6, <1>7, <1>8 DEF Abstract!Interrupt, Phase, Answer, Sent
<1> QED
  BY <1>1, <1>9

LEMMA InitMapped == Init => Abstract!Init
<1> SUFFICES ASSUME Init
             PROVE  Abstract!Init
  OBVIOUS
<1>1. IInv
  BY InitInvariant
<1>2. /\ Plan \in Seq(Work) /\ Len(events) = Len(Plan)
      /\ \A i \in 1..Len(events) : events[i].state = "planned" /\ events[i].result = Null
  BY PlanAssumption DEF Init, Unattempted
<1>3. ASSUME NEW w \in Work
      PROVE  State(w) = "planned" /\ Current(w).result = Null /\ Sends(w) = 0
  <2>1. LastIndex(w) \in 1..Len(events)
    BY <1>1, CurrentIsLast DEF IInv
  <2>2. Sendings(w) = {}
    BY <1>2 DEF Sendings
  <2> QED
    BY <1>1, <1>2, <2>1, <2>2, SendingsFinite, FS_EmptySet DEF State, Current
<1> QED
  BY <1>3, PhaseValues DEF Abstract!Init

(* Every step of the ledger is a step of Dispatch or changes nothing of it. *)
LEMMA StepMapped ==
    ASSUME RInv, [Next]_vars
    PROVE  [Abstract!Next]_(Abstract!vars)
<1>1. IInv'
  BY StepPreserves DEF RInv
<1>2. CASE UNCHANGED vars
  BY <1>2 DEF vars, Abstract!vars, PhaseOf, State, Current, LastIndex, IsLast, Sends
<1>3. ASSUME NEW w \in Work, NEW q \in Requests, Reserve(w, q)
      PROVE  UNCHANGED Abstract!vars
  BY <1>1, <1>3, ReserveStutters
<1>4. ASSUME NEW w \in Work, NEW s \in {"unavailable", "blocked"}, Skip(w, s)
      PROVE  Abstract!Next
  BY <1>1, <1>4, SkipCloses DEF Abstract!Next
<1>5. ASSUME NEW a \in 1..Len(attempts), Start(a) \/ Complete(a)
      PROVE  Abstract!Next \/ UNCHANGED Abstract!vars
  BY <1>1, <1>5, StartSends, CompleteStutters DEF Abstract!Next
<1>6. ASSUME NEW a \in 1..Len(attempts), NEW r \in Results, RecordResult(a, r)
      PROVE  Abstract!Next
  BY <1>1, <1>6, RecordSettles DEF Abstract!Next
<1>7. ASSUME NEW a \in 1..Len(attempts), NEW s \in {"failed", "limited"}, Fail(a, s)
      PROVE  Abstract!Next
  BY <1>1, <1>7, FailCloses DEF Abstract!Next
<1>8. CASE Recover
  BY <1>1, <1>8, RecoverIsInterrupt DEF Abstract!Next
<1>9. ASSUME NEW a \in 1..Len(attempts), NEW k \in Receipts, AuthorizeUnsentRetry(a, k)
      PROVE  Abstract!Next
  BY <1>1, <1>9, RetryReopens DEF Abstract!Next
<1>10. ASSUME NEW a \in 1..Len(attempts), NEW r \in Results, NEW k \in Receipts,
              ReconcileResult(a, r, k)
       PROVE  Abstract!Next
  BY <1>1, <1>10, ReconcileSettles DEF Abstract!Next
<1> QED
  BY <1>2, <1>3, <1>4, <1>5, <1>6, <1>7, <1>8, <1>9, <1>10 DEF Next

(* The ledger implements Dispatch, for every plan and any number of calls:  *)
(* no item is sent a third time, a second time only after an operator said  *)
(* that the first request never left, or before everything it is prompted   *)
(* with has settled; and what settled or closed stays as it is.             *)
THEOREM LedgerImplementsDispatch == Spec => ImplementsDispatch
<1>1. Init => Abstract!Init
  BY InitMapped
<1>2. RInv /\ [Next]_vars => [Abstract!Next]_(Abstract!vars)
  BY StepMapped
<1> QED
  BY <1>1, <1>2, RankInvariance, PTL DEF Spec, ImplementsDispatch, Abstract!Spec

-----------------------------------------------------------------------------
(* What each transaction does to the rows of current_states, for the proofs  *)
(* about the callers of the ledger.                                        *)

(* Event e of item w is the only one that is appended. *)
Only(w, e) ==
    /\ w \in Work /\ e \in Events /\ e.work = w
    /\ events' = Append(events, e)
    /\ Current(w)' = e
    /\ \A v \in Work \ {w} : Current(v)' = Current(v)

(* The item of attempt a moves from state s to state t with result r. *)
Moved(a, s, t, r) ==
    /\ a \in 1..Len(attempts)
    /\ Current(attempts[a].work).attempt = a
    /\ Current(attempts[a].work).state = s
    /\ \E e \in Events : /\ Only(attempts[a].work, e)
                        /\ e.state = t /\ e.attempt = a /\ e.result = r
                        /\ e.request = Current(attempts[a].work).request

LEMMA AppendIsOnly ==
    ASSUME IInv, IInv', NEW w \in Work, NEW e, e.work = w, events' = Append(events, e)
    PROVE  Only(w, e)
<1>1. PICK i : i = Len(events) + 1
  OBVIOUS
<1>2. e \in Events /\ Extension /\ Added = {i} /\ events'[i] = e
  <2>1. /\ e \in Events /\ Extension
        /\ Added = {Len(events) + 1} /\ events'[Len(events) + 1] = e
    BY AppendOne
  <2> QED
    BY <1>1, <2>1, Zenon
<1> QED
  BY <1>2, CurrentMoves, CurrentStays DEF Only

LEMMA HeldMoves ==
    ASSUME IInv, IInv', NEW a, NEW s, NEW t, NEW r, Holds(a, s),
           NEW e, e = [Current(attempts[a].work) EXCEPT !.state = t, !.result = r],
           events' = Append(events, e)
    PROVE  Moved(a, s, t, r)
<1>1. PICK w \in Work : w = attempts[a].work /\ a \in 1..Len(attempts)
  BY HeldAttempt DEF Holds
<1>2. PICK c \in Events : /\ c = Current(w) /\ c.work = w /\ c.attempt = a
                         /\ c.state = s
  BY <1>1, HeldAttempt
<1>3. e = [c EXCEPT !.state = t, !.result = r]
  BY <1>1, <1>2
<1>4. /\ e.work = w /\ e.state = t /\ e.attempt = a
      /\ e.request = c.request /\ e.result = r
  BY <1>2, <1>3 DEF Events
<1>5. Only(w, e)
  BY <1>4, AppendIsOnly
<1>6. e \in Events
  BY <1>5 DEF Only
<1> QED
  BY <1>1, <1>2, <1>4, <1>5, <1>6 DEF Moved

LEMMA StartMoves ==
    ASSUME IInv, IInv', NEW a, Start(a)
    PROVE  Moved(a, "reserved", "in_flight", Null)
<1>1. PICK e : e = [Current(attempts[a].work) EXCEPT !.state = "in_flight", !.result = Null]
  OBVIOUS
<1>2. Holds(a, "reserved") /\ events' = Append(events, e)
  BY <1>1 DEF Start, Insert, Inflight, Follow
<1> QED
  BY <1>1, <1>2, HeldMoves

LEMMA RecordResultMoves ==
    ASSUME IInv, IInv', NEW a, NEW r, RecordResult(a, r)
    PROVE  Moved(a, "in_flight", "result_saved", r)
<1>1. PICK e : e = [Current(attempts[a].work) EXCEPT !.state = "result_saved", !.result = r]
  OBVIOUS
<1>2. Holds(a, "in_flight") /\ events' = Append(events, e)
  BY <1>1 DEF RecordResult, Insert, Follow
<1> QED
  BY <1>1, <1>2, HeldMoves

LEMMA CompleteMoves ==
    ASSUME IInv, IInv', NEW a, Complete(a)
    PROVE  Moved(a, "result_saved", "completed", Current(attempts[a].work).result)
<1>1. Holds(a, "result_saved")
  BY DEF Complete
<1>2. PICK c \in Events : c = Current(attempts[a].work)
  BY <1>1, HeldAttempt
<1>3. PICK e : e = [c EXCEPT !.state = "completed"]
  OBVIOUS
<1>4. events' = Append(events, e)
  BY <1>2, <1>3 DEF Complete, Insert
<1>5. e = [c EXCEPT !.state = "completed", !.result = c.result]
  BY <1>2, <1>3 DEF Events
<1> QED
  BY <1>1, <1>2, <1>4, <1>5, HeldMoves

LEMMA FailMoves ==
    ASSUME IInv, IInv', NEW a, NEW s, Fail(a, s)
    PROVE  Moved(a, "in_flight", s, Null) /\ s \in {"failed", "limited"}
<1>1. PICK e : e = [Current(attempts[a].work) EXCEPT !.state = s, !.result = Null]
  OBVIOUS
<1>2. Holds(a, "in_flight") /\ events' = Append(events, e) /\ s \in {"failed", "limited"}
  BY <1>1 DEF Fail, Insert, Follow
<1> QED
  BY <1>1, <1>2, HeldMoves

LEMMA RetryMoves ==
    ASSUME IInv, IInv', NEW a, NEW k, AuthorizeUnsentRetry(a, k)
    PROVE  /\ Moved(a, "uncertain", "reserved", Null)
           /\ \A row \in retries : row.attempt # a
           /\ retries' = retries \cup {RetryRow(a, k)}
           /\ UNCHANGED <<attempts, reconciliations>>
<1>1. PICK e : e = [Current(attempts[a].work) EXCEPT !.state = "reserved", !.result = Null]
  OBVIOUS
<1>2. /\ Holds(a, "uncertain") /\ events' = Append(events, e)
      /\ RetriesGuard(RetryRow(a, k))
      /\ retries' = retries \cup {RetryRow(a, k)}
      /\ UNCHANGED <<attempts, reconciliations>>
  BY <1>1 DEF AuthorizeUnsentRetry, CanRetry, Follow
<1>3. Moved(a, "uncertain", "reserved", Null)
  BY <1>1, <1>2, HeldMoves
<1>4. \A row \in retries : row.attempt # a
  BY <1>2 DEF RetriesGuard, RetryRow
<1> QED
  BY <1>2, <1>3, <1>4

LEMMA ReconcileMoves ==
    ASSUME IInv, IInv', NEW a, NEW r, NEW k, ReconcileResult(a, r, k)
    PROVE  /\ Moved(a, "uncertain", "result_saved", r)
           /\ \A row \in reconciliations : row.attempt # a
           /\ reconciliations' = reconciliations \cup {ReconciliationRow(a, r, k)}
           /\ UNCHANGED <<attempts, retries>>
<1>1. PICK e : e = [Current(attempts[a].work) EXCEPT !.state = "result_saved", !.result = r]
  OBVIOUS
<1>2. /\ Holds(a, "uncertain") /\ events' = Append(events, e) /\ CanReconcile(a)
      /\ reconciliations' = reconciliations \cup {ReconciliationRow(a, r, k)}
      /\ UNCHANGED <<attempts, retries>>
  BY <1>1 DEF ReconcileResult, CanReconcile, Follow
<1>3. Moved(a, "uncertain", "result_saved", r)
  BY <1>1, <1>2, HeldMoves
<1>4. \A row \in reconciliations : row.attempt # a
  BY <1>2 DEF CanReconcile, IInv, NoTableNoRows, TypeOK
<1> QED
  BY <1>2, <1>3, <1>4

LEMMA ReserveMoves ==
    ASSUME IInv, IInv', NEW w \in Work, NEW q, Reserve(w, q)
    PROVE  /\ Current(w).state = "planned" /\ DependenciesCompleted(w)
           /\ \E e \in Events : /\ Only(w, e) /\ e.state = "reserved"
                               /\ e.attempt = Len(attempts) + 1
                               /\ e.request = q /\ e.result = Null
           /\ attempts' = Append(attempts, [work |-> w, request |-> q])
           /\ UNCHANGED <<reconciliations, retries, version>>
<1>1. PICK e : e = ReservedEvent(w, q)
  OBVIOUS
<1>2. /\ e.work = w /\ e.state = "reserved" /\ e.attempt = Len(attempts) + 1
      /\ e.request = q /\ e.result = Null
  BY <1>1 DEF ReservedEvent, Unattempted
<1>3. /\ events' = Append(events, e) /\ CanReserve(w)
      /\ attempts' = Append(attempts, [work |-> w, request |-> q])
      /\ UNCHANGED <<reconciliations, retries, version>>
  BY <1>1 DEF Reserve, AttemptRow
<1>4. Only(w, e) /\ e \in Events
  BY <1>2, <1>3, AppendIsOnly DEF Only
<1> QED
  BY <1>2, <1>3, <1>4 DEF CanReserve, State

LEMMA SkipMoves ==
    ASSUME IInv, IInv', NEW w \in Work, NEW s, Skip(w, s)
    PROVE  /\ Current(w).state = "planned" /\ s \in {"unavailable", "blocked"}
           /\ \E e \in Events : /\ Only(w, e) /\ e.state = s /\ e.attempt = 0
                               /\ e.request = Null /\ e.result = Null
           /\ UNCHANGED <<attempts, reconciliations, retries, version>>
<1>1. PICK e : e = Unattempted(w, s)
  OBVIOUS
<1>2. e.work = w /\ e.state = s /\ e.attempt = 0 /\ e.request = Null /\ e.result = Null
  BY <1>1 DEF Unattempted
<1>3. /\ events' = Append(events, e) /\ State(w) = "planned" /\ s \in {"unavailable", "blocked"}
      /\ UNCHANGED <<attempts, reconciliations, retries, version>>
  BY <1>1 DEF Skip, Insert
<1>4. Only(w, e) /\ e \in Events
  BY <1>2, <1>3, AppendIsOnly DEF Only
<1> QED
  BY <1>2, <1>3, <1>4 DEF State

LEMMA RecoverMoves ==
    ASSUME IInv, IInv', Recover
    PROVE  /\ Extension
           /\ \A i \in Added : events'[i].state = "uncertain"
           /\ \A w \in Work : Current(w).state # "in_flight" => Current(w)' = Current(w)
           /\ \A w \in Work : Current(w).state = "in_flight" =>
                 \E e \in Events : /\ Current(w)' = e
                                 /\ e.work = w /\ e.state = "uncertain" /\ e.result = Null
                                 /\ e.attempt = Current(w).attempt
                                 /\ e.request = Current(w).request
           /\ UNCHANGED <<attempts, reconciliations, retries, version>>
<1> DEFINE S == InState("in_flight")
<1>1. /\ Extension
      /\ \A i \in Added : \E w \in S : events'[i] = Follow(Current(w), "uncertain", Null)
      /\ \A w \in S : \E i \in Added : events'[i] = Follow(Current(w), "uncertain", Null)
  BY RecoverInterrupts
<1>2. ASSUME NEW i \in Added, NEW w \in S, events'[i] = Follow(Current(w), "uncertain", Null)
      PROVE  /\ w \in Work /\ events'[i].work = w /\ events'[i].state = "uncertain"
             /\ events'[i].result = Null
             /\ events'[i].attempt = Current(w).attempt
             /\ events'[i].request = Current(w).request
             /\ Current(w).state = "in_flight"
  <2>1. w \in Work /\ Current(w).work = w
    BY CurrentIsLast DEF IInv, InState
  <2> QED
    BY <1>2, <2>1, InterruptedEvent DEF IInv
<1>3. \A i \in Added : events'[i].state = "uncertain"
  BY <1>1, <1>2
<1>4. ASSUME NEW w \in Work, Current(w).state # "in_flight"
      PROVE  Current(w)' = Current(w)
  <2>1. \A i \in Added : events'[i].work # w
    BY <1>1, <1>2, <1>4
  <2> QED
    BY <1>1, <2>1, CurrentStays
<1>5. ASSUME NEW w \in Work, Current(w).state = "in_flight"
      PROVE  \E e \in Events : /\ Current(w)' = e
                             /\ e.work = w /\ e.state = "uncertain" /\ e.result = Null
                             /\ e.attempt = Current(w).attempt
                             /\ e.request = Current(w).request
  <2>1. w \in S
    BY <1>5 DEF InState, State
  <2>2. PICK i \in Added : events'[i] = Follow(Current(w), "uncertain", Null)
    BY <1>1, <2>1
  <2>3. /\ events'[i].work = w /\ events'[i].state = "uncertain"
        /\ events'[i].result = Null
        /\ events'[i].attempt = Current(w).attempt
        /\ events'[i].request = Current(w).request
    BY <1>2, <2>1, <2>2
  <2>4. Current(w)' = events'[i]
    BY <1>1, <2>3, CurrentMoves
  <2>5. events'[i] \in Events
    BY DEF IInv, TypeOK, Extension, Added
  <2> QED
    BY <2>3, <2>4, <2>5
<1> QED
  BY <1>1, <1>3, <1>4, <1>5 DEF Recover
=============================================================================
