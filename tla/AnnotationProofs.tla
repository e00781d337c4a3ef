-------------------------- MODULE AnnotationProofs --------------------------
(***************************************************************************)
(* Proofs about Annotations: the store, for every number of processes, every *)
(* set of batches, every limit and any number of deaths; the sessions, for   *)
(* all tasks and all lists of answers; the reports and releases, for every   *)
(* plan of work, every number of operators and any number of commands.      *)
(***************************************************************************)
EXTENDS Annotations, FoldFacts

-----------------------------------------------------------------------------
(* The store.                                                               *)

Clients == [state : States, batch : Batches \cup {<<>>}, at : Nat \ {0}]

(* What a client may rely on.  While it inserts, the records before `at' are  *)
(* in the table or in its transaction, which holds records of its own batch;  *)
(* after it was told so, all of them are in the table.                      *)
Sound(client, now, table, inserted) ==
    /\ client.state \in {"open", "readonly", "append", "insert"} => now = "ready"
    /\ client.state = "creating" => now = "created" /\ inserted = <<>>
    /\ client.state = "append" => client.batch \in Batches /\ client.at = 1
    /\ client.state = "insert" =>
           /\ client.batch \in Batches
           /\ ToSet(inserted) \subseteq ToSet(client.batch)
           /\ \A i \in DOMAIN client.batch :
                  i < client.at => client.batch[i] \in ToSet(table) \cup ToSet(inserted)
    /\ client.state = "imported" => ToSet(client.batch) \subseteq ToSet(table)

Writing == {"insert", "creating"}

WholeBatches ==
    \A record \in ToSet(rows) : \E batch \in Batches :
        record \in ToSet(batch) /\ ToSet(batch) \subseteq ToSet(rows)

IInv ==
    /\ TypeOK
    /\ process \in [Processes -> Clients]
    /\ \A p \in Processes : Sound(process[p], file, rows, pending)
    /\ WholeBatches

-----------------------------------------------------------------------------
LEMMA AppendSet ==
    ASSUME NEW S, NEW s \in Seq(S), NEW e \in S
    PROVE  Append(s, e) \in Seq(S) /\ ToSet(Append(s, e)) = ToSet(s) \cup {e}
<1>1. Append(s, e) \in Seq(S) /\ Len(Append(s, e)) = Len(s) + 1 /\ Len(s) \in Nat
  OBVIOUS
<1>2. \A i \in 1..Len(s) : Append(s, e)[i] = s[i]
  OBVIOUS
<1>3. Append(s, e)[Len(s) + 1] = e
  OBVIOUS
<1>4. DOMAIN s = 1..Len(s) /\ DOMAIN Append(s, e) = 1..(Len(s) + 1)
  BY <1>1
<1> QED
  BY <1>1, <1>2, <1>3, <1>4 DEF ToSet

LEMMA ConcatSet ==
    ASSUME NEW S, NEW s \in Seq(S), NEW t \in Seq(S)
    PROVE  s \o t \in Seq(S) /\ ToSet(s \o t) = ToSet(s) \cup ToSet(t)
<1> DEFINE st == s \o t
<1>1. /\ st \in Seq(S) /\ Len(st) = Len(s) + Len(t)
      /\ Len(s) \in Nat /\ Len(t) \in Nat
      /\ DOMAIN s = 1..Len(s) /\ DOMAIN t = 1..Len(t) /\ DOMAIN st = 1..(Len(s) + Len(t))
  OBVIOUS
<1>2. \A i \in 1..Len(s) : st[i] = s[i]
  OBVIOUS
<1>3. \A i \in 1..Len(t) : st[Len(s) + i] = t[i]
  OBVIOUS
<1> HIDE DEF st
<1>4. ToSet(st) \subseteq ToSet(s) \cup ToSet(t)
  <2> SUFFICES ASSUME NEW i \in DOMAIN st PROVE st[i] \in ToSet(s) \cup ToSet(t)
    BY DEF ToSet
  <2>1. CASE i \in 1..Len(s)
    BY <1>1, <1>2, <2>1 DEF ToSet
  <2>2. CASE i \notin 1..Len(s)
    <3>1. i - Len(s) \in 1..Len(t) /\ i = Len(s) + (i - Len(s))
      BY <1>1, <2>2
    <3> QED
      BY <1>1, <1>3, <3>1 DEF ToSet
  <2> QED
    BY <2>1, <2>2
<1>5. ToSet(s) \subseteq ToSet(st)
  <2>1. \A i \in DOMAIN s : i \in DOMAIN st /\ st[i] = s[i]
    BY <1>1, <1>2
  <2> QED
    BY <2>1 DEF ToSet
<1>6. ToSet(t) \subseteq ToSet(st)
  <2>1. \A i \in DOMAIN t : Len(s) + i \in DOMAIN st /\ st[Len(s) + i] = t[i]
    BY <1>1, <1>3
  <2> QED
    BY <2>1 DEF ToSet
<1> QED
  BY <1>1, <1>4, <1>5, <1>6 DEF st

LEMMA BatchRecords ==
    ASSUME NEW batch \in Batches
    PROVE  /\ \A i \in DOMAIN batch : batch[i] \in ToSet(batch) /\ batch[i] \in Entries
           /\ DOMAIN batch = 1..Len(batch) /\ Len(batch) \in Nat
<1>1. batch \in Seq([record_id : STRING, kind : {"original", "adjudication"},
                     task_id : STRING, body : STRING, bytes : Nat \ {0}])
  BY BatchesAssumption
<1>2. \A i \in DOMAIN batch : batch[i] \in ToSet(batch)
  BY DEF ToSet
<1>3. ToSet(batch) \subseteq Entries
  BY DEF Entries
<1> QED
  BY <1>1, <1>2, <1>3

LEMMA Facts ==
    ASSUME IInv, NEW p \in Processes
    PROVE  /\ process[p] \in Clients
           /\ process \in [Processes -> Clients]
           /\ Sound(process[p], file, rows, pending)
           /\ process[p].state \in Writing <=> writer = p
           /\ file \in {"absent", "created", "ready"}
           /\ journal \in {"none", "live", "hot"}
           /\ rows \in Seq(Entries) /\ pending \in Seq(Entries)
           /\ writer \in Processes \cup {None}
           /\ writer = None => pending = <<>> /\ journal # "live"
BY DEF IInv, TypeOK, Writing

(* A step of one process: while another writes, it leaves the file alone.    *)
LEMMA Update ==
    ASSUME IInv, NEW p \in Processes, NEW r \in Clients,
           process' = [process EXCEPT ![p] = r],
           Sound(r, file', rows', pending'), r.state \in Writing <=> writer' = p,
           writer \in {None, p} \/ UNCHANGED <<file, rows, pending, writer>>,
           writer' \in {None, p} \/ writer' = writer,
           file = "ready" => file' = "ready", file' \in {"absent", "created", "ready"},
           ToSet(rows) \subseteq ToSet(rows'), WholeBatches',
           journal' \in {"none", "live", "hot"},
           rows' \in Seq(Entries), pending' \in Seq(Entries),
           writer' = None => pending' = <<>> /\ journal' # "live"
    PROVE  IInv'
<1>1. /\ process \in [Processes -> Clients]
      /\ \A q \in Processes : Sound(process[q], file, rows, pending) /\ (process[q].state \in Writing <=> writer = q)
      /\ writer \in Processes \cup {None}
  BY DEF IInv, TypeOK, Writing
<1>2. /\ process' \in [Processes -> Clients]
      /\ process'[p] = r
      /\ \A q \in Processes : q # p => process'[q] = process[q]
  BY <1>1
<1>3. writer' \in Processes \cup {None}
  BY <1>1
<1>4. ASSUME NEW q \in Processes
      PROVE  process'[q].state \in Writing <=> writer' = q
  BY <1>1, <1>2, NoneAssumption
<1>5. ASSUME NEW q \in Processes
      PROVE  Sound(process'[q], file', rows', pending')
  <2>1. CASE q = p
    BY <2>1, <1>2 DEF Sound
  <2>2. CASE q # p /\ process[q].state \in Writing
    <3>1. UNCHANGED <<file, rows, pending>> /\ process'[q] = process[q]
      BY <2>2, <1>1, <1>2, NoneAssumption
    <3> QED
      BY <3>1, <1>1 DEF Sound
  <2>3. CASE q # p /\ process[q].state \notin Writing
    <3>1. process'[q] = process[q] /\ Sound(process[q], file, rows, pending)
      BY <2>3, <1>1, <1>2
    <3> QED
      BY <2>3, <3>1 DEF Sound, Writing
  <2> QED
    BY <2>1, <2>2, <2>3
<1>6. process' \in [Processes -> [state : States, batch : Batches \cup {<<>>}, at : Nat]]
  BY <1>2 DEF Clients
<1>7. TypeOK'
  BY <1>3, <1>4, <1>6 DEF TypeOK, Writing
<1> QED
  BY <1>2, <1>5, <1>7 DEF IInv

LEMMA InitInvariant == Init => IInv
<1> SUFFICES ASSUME Init PROVE IInv
  OBVIOUS
<1>1. Idle("out") \in Clients /\ Idle("out").state = "out"
  BY DEF Idle, Clients, States
<1>2. process \in [Processes -> Clients] /\ \A p \in Processes : process[p].state = "out"
  BY <1>1 DEF Init
<1>3. rows \in Seq(Entries) /\ pending \in Seq(Entries) /\ ToSet(rows) = {}
  BY DEF Init, ToSet
<1>4. TypeOK
  BY <1>2, <1>3, NoneAssumption DEF Init, TypeOK, Clients
<1>5. \A p \in Processes : Sound(process[p], file, rows, pending)
  BY <1>2 DEF Sound
<1> QED
  BY <1>2, <1>3, <1>4, <1>5 DEF IInv, WholeBatches

-----------------------------------------------------------------------------
(* A step of a process that does not write, before and after. *)
LEMMA Aside ==
    ASSUME IInv, NEW p \in Processes, NEW r \in Clients,
           process' = [process EXCEPT ![p] = r], Sound(r, file, rows, pending),
           process[p].state \notin Writing, r.state \notin Writing,
           UNCHANGED <<file, rows, writer, pending>>,
           journal' = journal \/ journal' = Recovered
    PROVE  IInv'
<1>1. writer # p /\ journal' \in {"none", "live", "hot"}
  BY Facts DEF Recovered
<1>2. writer = None => pending = <<>> /\ journal' # "live"
  BY Facts DEF Recovered
<1>3. WholeBatches'
  BY DEF IInv, WholeBatches
<1> QED
  BY <1>1, <1>2, <1>3, Facts, Update

LEMMA IdleIsSound ==
    ASSUME NEW now, NEW table, NEW inserted
    PROVE  /\ Idle("out") \in Clients /\ Idle("out").state = "out"
           /\ Sound(Idle("out"), now, table, inserted)
BY DEF Idle, Clients, States, Sound

LEMMA OpensKeep ==
    ASSUME IInv, NEW p \in Processes, Open(p) \/ OpenReadonly(p) \/ Busy(p)
    PROVE  IInv'
<1>1. PICK s \in {"open", "readonly", "refused"} :
          /\ process' = [process EXCEPT ![p] = [process[p] EXCEPT !.state = s]]
          /\ s \in {"open", "readonly"} => file = "ready"
  BY DEF Open, OpenReadonly, Busy, Become
<1> DEFINE r == [process[p] EXCEPT !.state = s]
<1>2. r \in Clients /\ r.state = s
  BY Facts DEF Clients, States
<1>3. Sound(r, file, rows, pending) /\ r.state \notin Writing
  <2> HIDE DEF r
  <2> QED
    BY <1>1, <1>2 DEF Sound, Writing
<1>5. process[p].state \notin Writing
  BY DEF Writing, Open, OpenReadonly, Busy, At
<1>4. process' = [process EXCEPT ![p] = r]
  BY <1>1
<1> HIDE DEF r
<1> QED
  BY <1>2, <1>3, <1>4, <1>5, Aside DEF Open, OpenReadonly, Busy

LEMMA SubmitKeeps ==
    ASSUME IInv, NEW p \in Processes, NEW batch \in Batches, Submit(p, batch)
    PROVE  IInv'
<1>1. PICK s \in {"append", "refused"} :
          process' = [process EXCEPT ![p] = [state |-> s, batch |-> batch, at |-> 1]]
  BY DEF Submit
<1> DEFINE r == [state |-> s, batch |-> batch, at |-> 1]
<1>2. r \in Clients /\ r.state = s
  BY DEF Clients, States
<1>3. process[p].state \notin Writing /\ file = "ready"
  BY Facts DEF Sound, Writing, Submit
<1>5. r.batch = batch /\ r.at = 1
  OBVIOUS
<1> HIDE DEF r
<1>4. process' = [process EXCEPT ![p] = r]
  BY <1>1 DEF r
<1>6. Sound(r, file, rows, pending) /\ r.state \notin Writing
  BY <1>2, <1>3, <1>5 DEF Sound, Writing
<1> QED
  BY <1>2, <1>3, <1>4, <1>6, Aside DEF Submit

LEMMA CloseKeeps ==
    ASSUME IInv, NEW p \in Processes, Close(p)
    PROVE  IInv'
<1>1. process[p].state \notin Writing
  BY DEF Close, Writing
<1> QED
  BY <1>1, IdleIsSound, Aside DEF Close, Writing

(* create *)
LEMMA CreateKeeps ==
    ASSUME IInv, NEW p \in Processes, Create(p)
    PROVE  IInv'
<1>1. CASE file = "absent" /\ journal = "none"
  <2> DEFINE r == [process[p] EXCEPT !.state = "creating"]
  <2>1. r \in Clients /\ r.state = "creating"
    BY Facts DEF Clients, States
  <2>2. writer = None
    <3>1. ASSUME NEW q \in Processes, writer = q PROVE FALSE
      <4>1. process[q].state \in Writing /\ Sound(process[q], file, rows, pending)
        BY <3>1, Facts
      <4> QED
        BY <1>1, <4>1 DEF Sound, Writing
    <3> QED
      BY <3>1, Facts
  <2>3. pending = <<>> /\ rows \in Seq(Entries) /\ pending \in Seq(Entries)
    BY <2>2, Facts
  <2>4. /\ process' = [process EXCEPT ![p] = r]
        /\ file' = "created" /\ journal' = "live" /\ writer' = p
        /\ UNCHANGED <<rows, pending>>
    BY <1>1 DEF Create, Become
  <2>5. Sound(r, file', rows', pending') /\ r.state \in Writing
    <3> HIDE DEF r
    <3> QED
      BY <2>1, <2>3, <2>4 DEF Sound, Writing
  <2>6. WholeBatches'
    BY <2>4 DEF IInv, WholeBatches
  <2> HIDE DEF r
  <2> QED
    BY <1>1, <2>1, <2>2, <2>3, <2>4, <2>5, <2>6, NoneAssumption, Update
<1>2. CASE ~(file = "absent" /\ journal = "none")
  <2> DEFINE r == [process[p] EXCEPT !.state = "refused"]
  <2>1. r \in Clients /\ r.state = "refused"
    BY Facts DEF Clients, States
  <2>2. process' = [process EXCEPT ![p] = r] /\ process[p].state \notin Writing
    BY <1>2 DEF Create, Become, At, Writing
  <2>3. UNCHANGED <<file, rows, writer, pending, journal>>
    BY <1>2 DEF Create
  <2>4. Sound(r, file, rows, pending) /\ r.state \notin Writing
    <3> HIDE DEF r
    <3> QED
      BY <2>1 DEF Sound, Writing
  <2> HIDE DEF r
  <2> QED
    BY <2>1, <2>2, <2>3, <2>4, Aside
<1> QED
  BY <1>1, <1>2

LEMMA CreateEndsKeeps ==
    ASSUME IInv, NEW p \in Processes, CreateCommits(p) \/ CreateFails(p)
    PROVE  IInv'
<1>1. writer = p /\ file = "created" /\ pending = <<>>
  BY Facts DEF CreateCommits, CreateFails, At, Writing, Sound
<1>2. PICK s \in {"open", "refused"} :
          /\ process' = [process EXCEPT ![p] = [process[p] EXCEPT !.state = s]]
          /\ file' \in {"absent", "ready"} /\ (s = "open" => file' = "ready")
          /\ journal' = "none" /\ writer' = None /\ UNCHANGED <<rows, pending>>
  BY DEF CreateCommits, CreateFails, Become
<1> DEFINE r == [process[p] EXCEPT !.state = s]
<1>3. r \in Clients /\ r.state = s
  BY Facts DEF Clients, States
<1>4. process' = [process EXCEPT ![p] = r]
  BY <1>2
<1> HIDE DEF r
<1>5. Sound(r, file', rows', pending') /\ r.state \notin Writing
  BY <1>2, <1>3 DEF Sound, Writing
<1>6. WholeBatches'
  BY <1>2 DEF IInv, WholeBatches
<1> QED
  BY <1>1, <1>2, <1>3, <1>4, <1>5, <1>6, Facts, NoneAssumption, Update

(* append *)
LEMMA BeginKeeps ==
    ASSUME IInv, NEW p \in Processes, Begin(p)
    PROVE  IInv'
<1> DEFINE r == [process[p] EXCEPT !.state = "insert"]
<1>1. r \in Clients /\ r.state = "insert" /\ r.batch = process[p].batch /\ r.at = process[p].at
  BY Facts DEF Clients, States
<1>2. /\ process' = [process EXCEPT ![p] = r]
      /\ writer = None /\ writer' = p /\ UNCHANGED <<file, rows, pending>>
      /\ journal' = Recovered /\ pending = <<>>
  BY Facts DEF Begin, Become
<1>3. /\ file = "ready" /\ process[p].batch \in Batches /\ process[p].at = 1
  BY Facts DEF Begin, At, Sound
<1>4. ToSet(pending) = {}
  BY <1>2 DEF ToSet
<1> HIDE DEF r
<1>6. Sound(r, file', rows', pending') /\ r.state \in Writing
  <2>1. \A i \in DOMAIN r.batch : ~(i < r.at)
    <3>1. \A i \in DOMAIN process[p].batch : i \in Nat /\ i >= 1
      BY <1>3, BatchRecords
    <3> QED
      BY <1>1, <1>3, <3>1
  <2> QED
    BY <1>1, <1>2, <1>3, <1>4, <2>1 DEF Sound, Writing
<1>7. WholeBatches' /\ journal' \in {"none", "live", "hot"}
  BY <1>2, Facts DEF IInv, WholeBatches, Recovered
<1> QED
  BY <1>1, <1>2, <1>3, <1>6, <1>7, Facts, NoneAssumption, Update

LEMMA KeepKeeps ==
    ASSUME IInv, NEW p \in Processes, Keep(p)
    PROVE  IInv'
<1> DEFINE client == process[p]
           record == client.batch[client.at]
           r == [client EXCEPT !.at = @ + 1]
<1>1. /\ client.state = "insert" /\ client.batch \in Batches /\ client.at \in Nat \ {0}
      /\ client.at <= Len(client.batch)
      /\ file = "ready" /\ writer = p
      /\ ToSet(pending) \subseteq ToSet(client.batch)
  BY Facts DEF Keep, Unfinished, At, Sound, Writing, Clients
<1>2. r \in Clients /\ r.state = "insert" /\ r.batch = client.batch /\ r.at = client.at + 1
  <2>1. client.at + 1 \in Nat \ {0}
    BY <1>1
  <2> QED
    BY <1>1, <2>1, Facts DEF Clients
<1>3. client.at \in DOMAIN client.batch /\ record \in ToSet(client.batch) /\ record \in Entries
  BY <1>1, BatchRecords
<1>4. /\ pending' \in Seq(Entries) /\ journal' \in {"none", "live", "hot"}
      /\ ToSet(pending') \subseteq ToSet(client.batch)
      /\ ToSet(pending) \subseteq ToSet(pending')
      /\ record \in ToSet(rows) \cup ToSet(pending')
  <2>1. CASE Duplicate(record) /\ UNCHANGED <<journal, pending>>
    <3>1. rows \in Seq(Entries) /\ pending \in Seq(Entries)
      BY Facts
    <3>2. record \in ToSet(rows) \cup ToSet(pending)
      BY <2>1, <3>1, ConcatSet DEF Duplicate, Present
    <3> QED
      BY <1>1, <2>1, <3>1, <3>2, Facts
  <2>2. CASE pending' = Append(pending, record) /\ journal' = "live"
    <3>1. pending \in Seq(Entries)
      BY Facts
    <3>2. pending' \in Seq(Entries) /\ ToSet(pending') = ToSet(pending) \cup {record}
      BY <1>3, <2>2, <3>1, AppendSet
    <3> QED
      BY <1>1, <1>3, <2>2, <3>2
  <2> QED
    BY <2>1, <2>2 DEF Keep
<1>5. process' = [process EXCEPT ![p] = r] /\ UNCHANGED <<file, rows, writer>>
  BY DEF Keep, Advance
<1>6. \A i \in DOMAIN client.batch :
          i < client.at + 1 => client.batch[i] \in ToSet(rows) \cup ToSet(pending')
  <2>1. ASSUME NEW i \in DOMAIN client.batch, i < client.at + 1
        PROVE  i < client.at \/ i = client.at
    <3>1. i \in Nat
      BY <1>1, BatchRecords
    <3> QED
      BY <1>1, <2>1, <3>1
  <2>2. \A i \in DOMAIN client.batch :
            i < client.at => client.batch[i] \in ToSet(rows) \cup ToSet(pending)
    BY <1>1, Facts DEF Sound
  <2> QED
    BY <2>1, <2>2, <1>4
<1>7. Sound(r, file', rows', pending')
  <2> HIDE DEF r
  <2> QED
    BY <1>1, <1>2, <1>4, <1>5, <1>6 DEF Sound
<1>8. WholeBatches'
  BY <1>5 DEF IInv, WholeBatches
<1> HIDE DEF r
<1> QED
  BY <1>1, <1>2, <1>4, <1>5, <1>7, <1>8, Facts, NoneAssumption, Update DEF Writing

(* The end of a transaction: what the table holds then. *)
LEMMA CommitRows ==
    ASSUME IInv, NEW p \in Processes, At(p, "insert"), ~Unfinished(p),
           rows' = rows \o pending
    PROVE  /\ rows' \in Seq(Entries) /\ ToSet(rows) \subseteq ToSet(rows')
           /\ ToSet(process[p].batch) \subseteq ToSet(rows')
           /\ WholeBatches'
<1>1. rows \in Seq(Entries) /\ pending \in Seq(Entries)
  BY Facts
<1>2. rows' \in Seq(Entries) /\ ToSet(rows') = ToSet(rows) \cup ToSet(pending)
  BY <1>1, ConcatSet
<1>3. /\ process[p].batch \in Batches /\ process[p].at \in Nat
      /\ ~(process[p].at <= Len(process[p].batch))
      /\ ToSet(pending) \subseteq ToSet(process[p].batch)
      /\ \A i \in DOMAIN process[p].batch :
             i < process[p].at => process[p].batch[i] \in ToSet(rows')
  BY <1>2, Facts DEF Sound, At, Unfinished, Clients
<1>4. \A i \in DOMAIN process[p].batch : i < process[p].at
  <2>1. Len(process[p].batch) \in Nat /\ DOMAIN process[p].batch = 1..Len(process[p].batch)
    BY <1>3, BatchRecords
  <2> QED
    BY <1>3, <2>1
<1>5. ToSet(process[p].batch) \subseteq ToSet(rows')
  BY <1>3, <1>4 DEF ToSet
<1>6. ASSUME NEW record \in ToSet(rows')
      PROVE  \E batch \in Batches : record \in ToSet(batch) /\ ToSet(batch) \subseteq ToSet(rows')
  <2>1. CASE record \in ToSet(rows)
    <3>1. PICK batch \in Batches : record \in ToSet(batch) /\ ToSet(batch) \subseteq ToSet(rows)
      BY <2>1 DEF IInv, WholeBatches
    <3> QED
      BY <1>2, <3>1
  <2>2. CASE record \in ToSet(pending)
    BY <1>3, <1>5, <2>2
  <2> QED
    BY <1>2, <2>1, <2>2
<1> QED
  BY <1>2, <1>5, <1>6 DEF WholeBatches

LEMMA EndKeeps ==
    ASSUME IInv, NEW p \in Processes, Commit(p) \/ Abort(p) \/ Refuse(p)
    PROVE  IInv'
<1>1. writer = p /\ At(p, "insert") /\ file = "ready" /\ rows \in Seq(Entries)
  BY Facts DEF Commit, Abort, Refuse, Unfinished, At, Writing, Sound
<1>2. PICK s \in {"imported", "refused"} :
          /\ process' = [process EXCEPT ![p] = [process[p] EXCEPT !.state = s]]
          /\ journal' = "none" /\ writer' = None /\ pending' = <<>> /\ UNCHANGED file
          /\ s = "imported" => ~Unfinished(p) /\ rows' = rows \o pending
          /\ s = "refused" => UNCHANGED rows
  BY DEF Commit, Abort, Refuse, End, Become, Rollback
<1> DEFINE r == [process[p] EXCEPT !.state = s]
<1>3. r \in Clients /\ r.state = s /\ r.batch = process[p].batch
  BY Facts DEF Clients, States
<1>4. process' = [process EXCEPT ![p] = r]
  BY <1>2
<1> HIDE DEF r
<1>5. /\ rows' \in Seq(Entries) /\ ToSet(rows) \subseteq ToSet(rows') /\ WholeBatches'
      /\ s = "imported" => ToSet(r.batch) \subseteq ToSet(rows')
  <2>1. CASE s = "imported"
    BY <1>1, <1>2, <1>3, <2>1, CommitRows
  <2>2. CASE s = "refused"
    BY <1>1, <1>2, <2>2 DEF IInv, WholeBatches
  <2> QED
    BY <2>1, <2>2
<1>6. Sound(r, file', rows', pending') /\ r.state \notin Writing
  BY <1>2, <1>3, <1>5 DEF Sound, Writing
<1>7. pending' \in Seq(Entries)
  BY <1>2
<1> QED
  BY <1>1, <1>2, <1>3, <1>4, <1>5, <1>6, <1>7, Facts, NoneAssumption, Update

LEMMA DiesKeeps ==
    ASSUME IInv, NEW p \in Processes, Dies(p)
    PROVE  IInv'
<1> DEFINE r == Idle("out")
<1>1. r \in Clients /\ Sound(r, file', rows', pending') /\ r.state \notin Writing
  BY IdleIsSound DEF Writing
<1>2. process' = [process EXCEPT ![p] = r]
  BY DEF Dies
<1> HIDE DEF r
<1>3. CASE writer # p
  <2>1. process[p].state \notin Writing /\ UNCHANGED <<file, journal, rows, writer, pending>>
    BY <1>3, Facts DEF Dies
  <2>2. Sound(r, file, rows, pending)
    BY <1>1, <2>1
  <2> QED
    BY <1>1, <1>2, <2>1, <2>2, Aside
<1>4. CASE writer = p
  <2>1. /\ writer' = None /\ pending' = <<>> /\ journal' \in {"none", "hot"}
        /\ file = "ready" => file' = "ready"
        /\ file' \in {"absent", "created", "ready"}
        /\ \/ UNCHANGED rows
           \/ At(p, "insert") /\ ~Unfinished(p) /\ rows' = rows \o pending
    BY <1>4, Facts DEF Dies
  <2>2. rows' \in Seq(Entries) /\ ToSet(rows) \subseteq ToSet(rows') /\ WholeBatches'
    <3>1. CASE UNCHANGED rows
      BY <3>1, Facts DEF IInv, WholeBatches
    <3>2. CASE At(p, "insert") /\ ~Unfinished(p) /\ rows' = rows \o pending
      BY <3>2, CommitRows
    <3> QED
      BY <2>1, <3>1, <3>2
  <2>3. pending' \in Seq(Entries)
    BY <2>1
  <2> QED
    BY <1>1, <1>2, <1>4, <2>1, <2>2, <2>3, NoneAssumption, Update
<1> QED
  BY <1>3, <1>4

LEMMA StepPreserves ==
    ASSUME IInv, [Next]_vars
    PROVE  IInv'
<1>1. CASE UNCHANGED vars
  BY <1>1 DEF IInv, TypeOK, WholeBatches, vars
<1>2. CASE Next
  BY <1>2, CreateKeeps, CreateEndsKeeps, OpensKeep, SubmitKeeps, BeginKeeps, KeepKeeps,
     EndKeeps, CloseKeeps, DiesKeeps DEF Next
<1> QED
  BY <1>1, <1>2

-----------------------------------------------------------------------------
(* The tables hold records, and one process at a time is inside a            *)
(* transaction, for any number of processes and deaths.                      *)
THEOREM TypeCorrect == Spec => []TypeOK
<1>1. IInv => TypeOK
  BY DEF IInv
<1> QED
  BY <1>1, InitInvariant, StepPreserves, PTL DEF Spec

(* A caller that was told its batch is imported finds every record of it      *)
(* (append answers after its COMMIT, and nothing removes a row).             *)
THEOREM ImportedStays == Spec => []ImportedIsThere
<1>1. IInv => ImportedIsThere
  BY DEF IInv, Sound, ImportedIsThere, At
<1> QED
  BY <1>1, InitInvariant, StepPreserves, PTL DEF Spec

(* No batch is in the file in part: append inserts its records in one         *)
(* transaction, and the records it skips are those it finds.                 *)
THEOREM AllOrNothing == Spec => []RowsFromWholeBatches
<1>1. IInv => RowsFromWholeBatches
  <2>1. \A i \in DOMAIN rows : rows[i] \in ToSet(rows)
    BY DEF ToSet
  <2> QED
    BY <2>1 DEF IInv, WholeBatches, RowsFromWholeBatches
<1> QED
  BY <1>1, InitInvariant, StepPreserves, PTL DEF Spec

(* What the run checks of the file: whole batches, and every batch that was   *)
(* reported as imported.                                                     *)
THEOREM WholeAndKept == Spec => []BatchesWhole
<1>1. RowsFromWholeBatches /\ ImportedIsThere => BatchesWhole
  BY DEF BatchesWhole
<1> QED
  BY <1>1, ImportedStays, AllOrNothing, PTL

LEMMA ConcatPrefix ==
    ASSUME NEW S, NEW s \in Seq(S), NEW t \in Seq(S)
    PROVE  IsPrefix(s, s \o t)
<1>1. Len(s) \in Nat /\ Len(s) <= Len(s \o t)
  OBVIOUS
<1>2. SubSeq(s, 1, Len(s)) = SubSeq(s \o t, 1, Len(s))
  OBVIOUS
<1> QED
  BY <1>1, <1>2 DEF IsPrefix

(* Rows are only added, and only at the end.                                *)
THEOREM OnlyAppends == Spec => AppendOnly
<1>1. ASSUME IInv, [Next]_vars PROVE rows' = rows \/ rows' = rows \o pending
  BY <1>1 DEF Next, vars, Create, CreateCommits, CreateFails, Open, OpenReadonly, Submit, Begin,
     Busy, Keep, Refuse, Commit, Abort, Close, Dies, Rollback
<1>2. ASSUME IInv, rows' = rows \o pending PROVE IsPrefix(rows, rows')
  <2>1. rows \in Seq(Entries) /\ pending \in Seq(Entries)
    BY <1>2 DEF IInv, TypeOK
  <2> QED
    BY <1>2, <2>1, ConcatPrefix
<1>3. IInv /\ [Next]_vars => [IsPrefix(rows, rows')]_rows
  BY <1>1, <1>2
<1> QED
  BY <1>3, InitInvariant, StepPreserves, PTL DEF Spec, AppendOnly

-----------------------------------------------------------------------------
(* The total of bytes, as the sum over the positions.  FoldLeft takes the    *)
(* last position of what is left each time.                                 *)
BytesOf(records) == [i \in DOMAIN records |-> records[i].bytes]

Records(s, n) ==
    /\ n \in Nat /\ DOMAIN s = 1..n
    /\ \A i \in 1..n : s[i].bytes \in Nat

LEMMA LastPosition ==
    ASSUME NEW n \in Nat, NEW S \in SUBSET (1..n), S # {}
    PROVE  \E x \in S : \A y \in S : x >= y
<1> DEFINE X == {T \in SUBSET (1..n) : T = {} \/ \E x \in T : \A y \in T : x >= y}
<1>1. {} \in X
  OBVIOUS
<1>2. ASSUME NEW T \in SUBSET S, NEW x \in S \ T, T \in X
      PROVE  T \cup {x} \in X
  <2>1. CASE T = {}
    BY <2>1
  <2>2. CASE T # {}
    <3>1. PICK y \in T : \A z \in T : y >= z
      BY <1>2, <2>2
    <3>2. x \in Nat /\ y \in Nat /\ \A z \in T : z \in Nat
      OBVIOUS
    <3>3. CASE x >= y
      <4>1. \A z \in T \cup {x} : x >= z
        BY <3>1, <3>2, <3>3
      <4> QED
        BY <4>1
    <3>4. CASE ~(x >= y)
      <4>1. \A z \in T \cup {x} : y >= z
        BY <3>1, <3>2, <3>4
      <4> QED
        BY <4>1
    <3> QED
      BY <3>3, <3>4
  <2> QED
    BY <2>1, <2>2
<1>3. IsFiniteSet(S)
  <2>1. IsFiniteSet(1..n)
    BY FS_Interval
  <2> QED
    BY <2>1, FS_Subset
<1>4. S \in X
  <2> HIDE DEF X
  <2> QED
    BY <1>1, <1>2, <1>3, FiniteInduction
<1> QED
  BY <1>4

LEMMA TotalIsSum ==
    ASSUME NEW s, NEW n, Records(s, n)
    PROVE  TotalBytes(s) = SumOf(BytesOf(s), 1..n)
<1> DEFINE S == 1..n
           f == BytesOf(s)
           Pick(r) == CHOOSE x \in r : \A y \in r : x >= y
           Steps(t) == [r \in SUBSET S |->
                          IF r = {} THEN 0 ELSE t[r \ {Pick(r)}] + s[Pick(r)].bytes]
           t == CHOOSE iter : iter = Steps(iter)
<1>1. TotalBytes(s) = t[S]
  BY DEF TotalBytes, FoldLeft, MapThenFoldSet, Max, Records
<1>2. Weighs(f, S) /\ IsFiniteSet(S)
  <2>1. n \in Nat /\ DOMAIN s = S /\ \A i \in S : s[i].bytes \in Nat
    BY DEF Records
  <2>2. IsFiniteSet(S)
    BY <2>1, FS_Interval
  <2>3. \A i \in S : f[i] = s[i].bytes
    BY <2>1 DEF BytesOf
  <2> HIDE DEF f, S
  <2> QED
    BY <2>1, <2>2, <2>3 DEF Weighs
<1>3. PICK g : Additive(g, f, S)
  BY <1>2, AdditiveExists
<1>4. ASSUME NEW r \in SUBSET S, r # {}
      PROVE  Pick(r) \in r /\ Pick(r) \in S
  BY <1>4, LastPosition DEF Records
<1>5. ASSUME NEW r \in SUBSET S, r # {}
      PROVE  g[r] = g[r \ {Pick(r)}] + s[Pick(r)].bytes
  <2>1. Pick(r) \in r /\ Pick(r) \in S
    BY <1>4, <1>5
  <2> DEFINE x == Pick(r)
  <2> HIDE DEF x
  <2>2. x \in r /\ x \in S
    BY <2>1 DEF x
  <2>3. g[r] = f[x] + g[r \ {x}] /\ f[x] \in Nat /\ g[r \ {x}] \in Nat
    BY <1>2, <1>3, <2>2 DEF Additive, Weighs
  <2>4. f[x] = s[x].bytes
    BY <2>2 DEF BytesOf, Records
  <2> QED
    BY <2>3, <2>4 DEF x
<1>6. g = Steps(g)
  <2>1. g \in [SUBSET S -> Nat] /\ g[{}] = 0
    BY <1>3 DEF Additive
  <2> HIDE DEF Pick
  <2> QED
    BY <1>5, <2>1
<1>7. t = Steps(t)
  <2> HIDE DEF Steps
  <2> QED
    BY <1>6
<1> DEFINE Bad == {r \in SUBSET S : t[r] # g[r]}
<1>8. ASSUME Bad # {}
      PROVE  FALSE
  <2>1. Bad \subseteq SUBSET S
    OBVIOUS
  <2>2. PICK r \in Bad : \A x \in r : r \ {x} \notin Bad
    <3> HIDE DEF Bad
    <3> QED
      BY <1>2, <1>8, <2>1, SmallestSubset
  <2>3. r \in SUBSET S /\ t[r] # g[r]
    BY <2>2
  <2>4. CASE r = {}
    <3> HIDE DEF Pick, t
    <3> QED
      BY <1>3, <1>7, <2>3, <2>4 DEF Additive
  <2>5. CASE r # {}
    <3>1. t[r] = t[r \ {Pick(r)}] + s[Pick(r)].bytes
      <4> HIDE DEF t, Pick
      <4> QED
        BY <1>7, <2>3, <2>5
    <3>2. t[r \ {Pick(r)}] = g[r \ {Pick(r)}]
      <4>1. Pick(r) \in r /\ r \ {Pick(r)} \in SUBSET S
        BY <1>4, <2>3, <2>5
      <4> HIDE DEF t, Pick
      <4> QED
        BY <2>2, <4>1
    <3>3. g[r] = g[r \ {Pick(r)}] + s[Pick(r)].bytes
      BY <1>5, <2>3, <2>5
    <3> HIDE DEF t, Pick
    <3> QED
      BY <2>3, <3>1, <3>2, <3>3
  <2> QED
    BY <2>4, <2>5
<1>9. t[S] = g[S]
  <2> HIDE DEF t
  <2> QED
    BY <1>8
<1>10. g[S] = SumOf(f, S)
  <2>1. Tallies(g, f, S)
    BY <1>3 DEF Additive, Tallies
  <2> HIDE DEF f
  <2> QED
    BY <1>2, <2>1, SumComputed
<1> QED
  BY <1>1, <1>9, <1>10

(* What _bounds demands of the rows, of any list of records. *)
Fits(records) ==
    /\ Len(records) <= MaxRecords
    /\ TotalBytes(records) <= MaxTotalBytes
    /\ \A i \in DOMAIN records : records[i].bytes <= MaxRecordBytes
    /\ DistinctIds(records)

LEMMA EntrySequence ==
    ASSUME NEW s \in Seq(Entries)
    PROVE  /\ Len(s) \in Nat /\ DOMAIN s = 1..Len(s)
           /\ Records(s, Len(s))
           /\ TotalBytes(s) \in Nat
<1>1. Len(s) \in Nat /\ DOMAIN s = 1..Len(s) /\ \A i \in 1..Len(s) : s[i] \in Entries
  OBVIOUS
<1>2. \A e \in Entries : e.bytes \in Nat
  <2> SUFFICES ASSUME NEW batch \in Batches, NEW i \in DOMAIN batch
               PROVE  batch[i].bytes \in Nat
    BY DEF Entries, ToSet
  <2> DEFINE R == [record_id : STRING, kind : {"original", "adjudication"},
                   task_id : STRING, body : STRING, bytes : Nat \ {0}]
  <2>1. batch \in Seq(R)
    BY BatchesAssumption
  <2>2. \A r \in R : r.bytes \in Nat
    OBVIOUS
  <2>3. batch[i] \in R
    <3> HIDE DEF R
    <3> QED
      BY <2>1
  <2> HIDE DEF R
  <2> QED
    BY <2>2, <2>3
<1>3. Records(s, Len(s))
  BY <1>1, <1>2 DEF Records
<1>4. Weighs(BytesOf(s), 1..Len(s)) /\ IsFiniteSet(1..Len(s))
  <2>1. \A i \in 1..Len(s) : BytesOf(s)[i] \in Nat
    BY <1>3 DEF BytesOf, Records
  <2>2. Weighs(BytesOf(s), 1..Len(s))
    BY <2>1 DEF Weighs
  <2>3. IsFiniteSet(1..Len(s))
    BY <1>1, FS_Interval
  <2> QED
    BY <2>2, <2>3
<1> QED
  BY <1>1, <1>3, <1>4, TotalIsSum, SumType

(* One record more. *)
LEMMA TotalOfAppend ==
    ASSUME NEW s \in Seq(Entries), NEW e \in Entries
    PROVE  TotalBytes(Append(s, e)) = TotalBytes(s) + e.bytes
<1> DEFINE t == Append(s, e)
           n == Len(s)
           f == BytesOf(t)
<1>1. t \in Seq(Entries) /\ Len(t) = n + 1 /\ t[n + 1] = e /\ \A i \in 1..n : t[i] = s[i]
  OBVIOUS
<1>2. Records(s, n) /\ Records(t, n + 1) /\ n \in Nat
  BY <1>1, EntrySequence
<1>3. TotalBytes(t) = SumOf(f, 1..(n + 1)) /\ TotalBytes(s) = SumOf(BytesOf(s), 1..n)
  BY <1>2, TotalIsSum
<1>4. 1..(n + 1) = (1..n) \cup {n + 1} /\ n + 1 \notin 1..n
  BY <1>2
<1>5. IsFiniteSet(1..n)
  BY <1>2, FS_Interval
<1>6. Weighs(f, 1..(n + 1)) /\ Weighs(BytesOf(s), 1..n) /\ f[n + 1] = e.bytes
      /\ \A i \in 1..n : f[i] = BytesOf(s)[i]
  BY <1>1, <1>2, <1>4 DEF Weighs, BytesOf, Records
<1> HIDE DEF f, t, n
<1>7. SumOf(f, 1..(n + 1)) = SumOf(f, 1..n) + f[n + 1]
  <2> DEFINE S == 1..n
  <2>1. Weighs(f, S \cup {n + 1}) /\ n + 1 \notin S /\ IsFiniteSet(S)
    BY <1>4, <1>5, <1>6
  <2> HIDE DEF S
  <2>2. SumOf(f, S \cup {n + 1}) = SumOf(f, S) + f[n + 1]
    BY <2>1, SumAddElement
  <2> QED
    BY <1>4, <2>2 DEF S
<1>8. SumOf(f, 1..n) = SumOf(BytesOf(s), 1..n)
  BY <1>5, <1>6, SumExtensional
<1> QED
  BY <1>3, <1>6, <1>7, <1>8 DEF t

(* The records of a batch that are all in the table total no more than it. *)
LEMMA TotalOfPart ==
    ASSUME NEW s \in Seq(Entries), NEW t \in Seq(Entries),
           DistinctIds(s), ToSet(s) \subseteq ToSet(t)
    PROVE  TotalBytes(s) <= TotalBytes(t)
<1> DEFINE S == 1..Len(s)
           T == 1..Len(t)
           p == [i \in S |-> CHOOSE j \in T : t[j] = s[i]]
           f == BytesOf(t)
           h == BytesOf(s)
<1>1. /\ Len(s) \in Nat /\ DOMAIN s = S /\ Records(s, Len(s))
      /\ Len(t) \in Nat /\ DOMAIN t = T /\ Records(t, Len(t))
  BY EntrySequence
<1>2. \A i \in S : \E j \in T : t[j] = s[i]
  BY <1>1 DEF ToSet
<1>3. \A i \in S : p[i] \in T /\ t[p[i]] = s[i]
  BY <1>2
<1> HIDE DEF p
<1>4. \A i, k \in S : p[i] = p[k] => i = k
  BY <1>1, <1>3 DEF DistinctIds
<1>5. IsFiniteSet(S) /\ IsFiniteSet(T)
  BY <1>1, FS_Interval
<1>6. {p[i] : i \in S} \subseteq T
  BY <1>3
<1>7. Weighs(f, T) /\ Weighs(f, {p[i] : i \in S}) /\ \A i \in S : h[i] = f[p[i]]
  BY <1>1, <1>3, <1>6 DEF Weighs, BytesOf, Records
<1>8. TotalBytes(s) = SumOf(h, S) /\ TotalBytes(t) = SumOf(f, T)
  BY <1>1, TotalIsSum
<1> HIDE DEF S, T, f, h
<1>9. SumOf(h, S) = SumOf(f, {p[i] : i \in S})
  BY <1>4, <1>5, <1>7, SumOfImage
<1>10. SumOf(f, {p[i] : i \in S}) <= SumOf(f, T)
  BY <1>5, <1>6, <1>7, SumOfSubset
<1> QED
  BY <1>8, <1>9, <1>10

-----------------------------------------------------------------------------
(* The limits hold of the rows and of the rows with those that a transaction  *)
(* has inserted, which Room and Conflict look at record by record; the batch *)
(* that is being inserted was prepared.                                     *)
Preparing(client) == client.state \in {"append", "insert"} => Prepared(client.batch)

LInv ==
    /\ IInv
    /\ Fits(rows) /\ Fits(Present)
    /\ \A p \in Processes : Preparing(process[p])

LEMMA EmptyFits == Fits(<<>>)
<1>1. TotalBytes(<<>>) = 0
  <2>1. Records(<<>>, 0)
    BY DEF Records
  <2>2. TotalBytes(<<>>) = SumOf(BytesOf(<<>>), 1..0)
    BY <2>1, TotalIsSum
  <2>3. 1..0 = {}
    OBVIOUS
  <2> QED
    BY <2>2, <2>3, SumEmpty
<1>2. Len(<<>>) = 0 /\ DOMAIN <<>> = {}
  OBVIOUS
<1> QED
  BY <1>1, <1>2, LimitsAssumption DEF Fits, DistinctIds

(* What append inserts: a record that is neither there nor in conflict, for   *)
(* which there is room.                                                     *)
LEMMA InsertFits ==
    ASSUME NEW s \in Seq(Entries), Fits(s), NEW e \in Entries,
           e.bytes <= MaxRecordBytes,
           \A i \in DOMAIN s : s[i].record_id # e.record_id,
           Len(s) + 1 <= MaxRecords, TotalBytes(s) + e.bytes <= MaxTotalBytes
    PROVE  Fits(Append(s, e))
<1> DEFINE t == Append(s, e)
<1>1. /\ Len(s) \in Nat /\ DOMAIN s = 1..Len(s)
      /\ Len(t) = Len(s) + 1 /\ DOMAIN t = 1..(Len(s) + 1)
      /\ t[Len(s) + 1] = e /\ \A i \in 1..Len(s) : t[i] = s[i]
  OBVIOUS
<1>2. TotalBytes(t) = TotalBytes(s) + e.bytes
  BY TotalOfAppend
<1> HIDE DEF t
<1>3. \A i \in DOMAIN t : i \in 1..Len(s) \/ i = Len(s) + 1
  BY <1>1
<1>4. \A i \in DOMAIN t : t[i].bytes <= MaxRecordBytes
  BY <1>1, <1>3 DEF Fits
<1>5. DistinctIds(t)
  <2> SUFFICES ASSUME NEW i \in DOMAIN t, NEW j \in DOMAIN t,
                      t[i].record_id = t[j].record_id
               PROVE  i = j
    BY DEF DistinctIds
  <2>1. DistinctIds(s)
    BY DEF Fits
  <2>2. CASE i \in 1..Len(s) /\ j \in 1..Len(s)
    BY <1>1, <2>1, <2>2 DEF DistinctIds
  <2>3. CASE i \in 1..Len(s) /\ j = Len(s) + 1
    BY <1>1, <2>3
  <2>4. CASE i = Len(s) + 1 /\ j \in 1..Len(s)
    <3>1. s[j].record_id = e.record_id
      BY <1>1, <2>4
    <3> QED
      BY <1>1, <2>4, <3>1
  <2> QED
    BY <1>3, <2>2, <2>3, <2>4
<1> QED
  BY <1>1, <1>2, <1>4, <1>5 DEF Fits, t

LEMMA InsertMoves ==
    ASSUME NEW s \in Seq(Entries), NEW t \in Seq(Entries), NEW e \in Entries
    PROVE  s \o Append(t, e) = Append(s \o t, e) /\ s \o t \in Seq(Entries) /\ s \o <<>> = s
OBVIOUS

(* Before a step of the loop of append, and after it. *)
LEMMA KeepFits ==
    ASSUME LInv, NEW p \in Processes, Keep(p)
    PROVE  Fits(rows \o pending')
<1> DEFINE client == process[p]
           record == client.batch[client.at]
<1>1. /\ client.batch \in Batches /\ client.at \in DOMAIN client.batch
      /\ record \in Entries /\ record.bytes <= MaxRecordBytes
  <2>1. /\ client.state = "insert" /\ client.batch \in Batches /\ client.at \in Nat \ {0}
        /\ client.at <= Len(client.batch) /\ Prepared(client.batch)
    BY Facts DEF LInv, Preparing, Keep, Unfinished, At, Sound, Clients
  <2>2. client.at \in DOMAIN client.batch /\ record \in Entries
    BY <2>1, BatchRecords
  <2> QED
    BY <2>1, <2>2 DEF Prepared
<1>2. rows \in Seq(Entries) /\ pending \in Seq(Entries) /\ Present \in Seq(Entries)
  BY Facts, InsertMoves DEF LInv, Present
<1>3. CASE Duplicate(record) /\ UNCHANGED pending
  BY <1>3 DEF LInv, Present
<1>4. CASE ~Duplicate(record) /\ ~Conflict(record) /\ Room(record) /\ pending' = Append(pending, record)
  <2>1. \A i \in DOMAIN Present : Present[i].record_id # record.record_id
    BY <1>4 DEF Conflict
  <2>2. rows \o pending' = Append(Present, record)
    BY <1>1, <1>2, <1>4, InsertMoves DEF Present
  <2> HIDE DEF record
  <2> QED
    BY <1>1, <1>2, <1>4, <2>1, <2>2, InsertFits DEF LInv, Room
<1> QED
  BY <1>3, <1>4 DEF Keep

LEMMA LimitsPreserved ==
    ASSUME LInv, [Next]_vars
    PROVE  LInv'
<1>1. IInv'
  BY StepPreserves DEF LInv
<1>2. process \in [Processes -> Clients] /\ rows \in Seq(Entries) /\ pending \in Seq(Entries)
  BY DEF LInv, IInv, TypeOK
<1>3. Fits(rows') /\ Fits(Present')
  <2>1. CASE UNCHANGED <<rows, pending>>
    BY <2>1 DEF LInv, Present, Fits
  <2>2. ASSUME NEW p \in Processes, Keep(p)
        PROVE  Fits(rows') /\ Fits(Present')
    BY <2>2, KeepFits DEF LInv, Present, Keep, Fits
  <2>3. CASE rows' \in {rows, Present} /\ pending' = <<>>
    <3>1. Present' = rows' /\ (rows' = rows \/ rows' = Present)
      BY <1>2, <2>3 DEF Present
    <3> QED
      BY <3>1 DEF LInv
  <2>4. UNCHANGED <<rows, pending>> \/ (\E p \in Processes : Keep(p))
        \/ (rows' \in {rows, Present} /\ pending' = <<>>)
    BY DEF Next, vars, Create, CreateCommits, CreateFails, Open, OpenReadonly, Submit, Begin,
       Busy, Refuse, Commit, Abort, Close, Dies, Rollback, End, Present
  <2> QED
    BY <2>1, <2>2, <2>3, <2>4
<1>4. ASSUME NEW q \in Processes
      PROVE  Preparing(process'[q])
  <2>1. Preparing(process[q])
    BY DEF LInv
  <2>2. CASE process'[q] = process[q]
    BY <2>1, <2>2
  <2>3. ASSUME NEW p \in Processes, NEW r, process' = [process EXCEPT ![p] = r],
               r.state \in {"append", "insert"} =>
                   Prepared(r.batch) \/ (r.batch = process[p].batch
                                        /\ process[p].state \in {"append", "insert"})
        PROVE  Preparing(process'[q])
    <3>1. CASE q = p
      <4>1. process'[q] = r
        BY <1>2, <2>3, <3>1
      <4> QED
        BY <2>1, <2>3, <3>1, <4>1 DEF Preparing
    <3>2. CASE q # p
      BY <1>2, <2>2, <2>3, <3>2
    <3> QED
      BY <3>1, <3>2
  <2>4. ASSUME NEW p \in Processes, NEW s \in States \ {"append", "insert"}, Become(p, s)
        PROVE  Preparing(process'[q])
    <3> DEFINE r == [process[p] EXCEPT !.state = s]
    <3>1. process' = [process EXCEPT ![p] = r] /\ r.state = s
      BY <1>2, <2>4 DEF Become, Clients
    <3> HIDE DEF r
    <3> QED
      BY <2>3, <3>1
  <2>5. ASSUME NEW p \in Processes,
               \/ Create(p) \/ CreateCommits(p) \/ CreateFails(p)
               \/ Open(p) \/ OpenReadonly(p) \/ Busy(p)
               \/ Refuse(p) \/ Commit(p) \/ Abort(p)
        PROVE  Preparing(process'[q])
    BY <2>4, <2>5 DEF Create, CreateCommits, CreateFails, Open, OpenReadonly, Busy, Refuse, Commit,
       Abort, End, States
  <2>6. ASSUME NEW p \in Processes, NEW batch \in Batches, Submit(p, batch)
        PROVE  Preparing(process'[q])
    <3> DEFINE r == [state |-> IF Prepared(batch) /\ At(p, "open") THEN "append" ELSE "refused",
                     batch |-> batch, at |-> 1]
    <3>1. process' = [process EXCEPT ![p] = r]
      BY <2>6 DEF Submit
    <3>2. r.batch = batch /\ (r.state \in {"append", "insert"} => Prepared(batch))
      OBVIOUS
    <3> HIDE DEF r
    <3> QED
      BY <2>3, <3>1, <3>2
  <2>7. ASSUME NEW p \in Processes, Begin(p)
        PROVE  Preparing(process'[q])
    <3> DEFINE r == [process[p] EXCEPT !.state = "insert"]
    <3>1. process' = [process EXCEPT ![p] = r] /\ process[p].state = "append"
      BY <2>7 DEF Begin, Become, At
    <3>2. r.batch = process[p].batch
      BY <1>2 DEF Clients
    <3> HIDE DEF r
    <3> QED
      BY <2>3, <3>1, <3>2
  <2>8. ASSUME NEW p \in Processes, Keep(p)
        PROVE  Preparing(process'[q])
    <3> DEFINE r == [process[p] EXCEPT !.at = @ + 1]
    <3>1. process' = [process EXCEPT ![p] = r] /\ process[p].state = "insert"
      BY <2>8 DEF Keep, Advance, Unfinished, At
    <3>2. r.batch = process[p].batch
      BY <1>2 DEF Clients
    <3> HIDE DEF r
    <3> QED
      BY <2>3, <3>1, <3>2
  <2>9. ASSUME NEW p \in Processes, Close(p) \/ Dies(p)
        PROVE  Preparing(process'[q])
    <3>1. process' = [process EXCEPT ![p] = Idle("out")]
      BY <2>9 DEF Close, Dies
    <3> QED
      BY <2>3, <3>1, IdleIsSound
  <2> QED
    BY <2>2, <2>5, <2>6, <2>7, <2>8, <2>9 DEF Next, vars
<1> QED
  BY <1>1, <1>3, <1>4 DEF LInv

(* What append lets into the file, record by record, is what every later open *)
(* accepts (_bounds over the whole file), and a batch that is in the file     *)
(* whole passes _prepare_batch again: no caller is shut out of what is there.  *)
THEOREM NobodyShutOut == Spec => []LimitsAgree
<1>1. Init => LInv
  <2> SUFFICES ASSUME Init PROVE LInv
    OBVIOUS
  <2>1. rows = <<>> /\ Present = <<>>
    BY DEF Init, Present
  <2>2. \A p \in Processes : Preparing(process[p])
    BY IdleIsSound DEF Init, Preparing
  <2> QED
    BY <2>1, <2>2, EmptyFits, InitInvariant DEF LInv
<1>2. LInv => LimitsAgree
  <2> SUFFICES ASSUME LInv PROVE Reopens /\ RepeatFits
    BY DEF LimitsAgree
  <2>1. Reopens
    BY DEF LInv, Fits, Reopens, Verifies
  <2>2. ASSUME NEW batch \in Batches, DistinctIds(batch),
               ToSet(batch) \subseteq ToSet(rows), Len(batch) <= MaxBatchRecords
        PROVE  Prepared(batch)
    <3>1. rows \in Seq(Entries)
      BY Facts DEF LInv, IInv, TypeOK
    <3>2. batch \in Seq(Entries)
      BY BatchRecords, BatchesAssumption
    <3>3. TotalBytes(batch) <= TotalBytes(rows) /\ TotalBytes(rows) <= MaxTotalBytes
      BY <2>2, <3>1, <3>2, TotalOfPart DEF LInv, Fits
    <3>4. TotalBytes(batch) <= MaxTotalBytes
      BY <3>1, <3>2, <3>3, EntrySequence, LimitsAssumption
    <3>5. ASSUME NEW i \in DOMAIN batch
          PROVE  batch[i].bytes <= MaxRecordBytes
      <4>1. PICK j \in DOMAIN rows : rows[j] = batch[i]
        BY <2>2 DEF ToSet
      <4> QED
        BY <4>1 DEF LInv, Fits
    <3> QED
      BY <2>2, <3>4, <3>5 DEF Prepared
  <2> QED
    BY <2>1, <2>2 DEF RepeatFits
<1> QED
  BY <1>1, <1>2, LimitsPreserved, PTL DEF Spec

-----------------------------------------------------------------------------
(* The sessions.                                                            *)

(* The parts of a session directory are written one after another. *)
PartsInOrder ==
    /\ files \in [ToSet(Session!Parts) -> {"absent", "torn", "whole"}]
    /\ \A i, j \in DOMAIN Session!Parts :
          i < j /\ files[Session!Parts[j]] # "absent" => files[Session!Parts[i]] = "whole"

(* What a valid answer, which is not unanswered, becomes. *)
Recorded ==
    {Session!RecordOf(kind, answer) : kind \in {"original", "adjudication"},
        answer \in {x \in Session!Answers : x.status = "answered" /\ x.decision # None}}

DistinctRecords(s) == \A i, j \in DOMAIN s : s[i].record_id = s[j].record_id => i = j

(* The ids of the originals of a case among the first records. *)
Earlier(s, n, case) ==
    {s[j].record_id : j \in {k \in 1..n : s[k].kind = "original" /\ s[k].body.case = case}}

BasedOnAll(s) ==
    \A i \in DOMAIN s : s[i].kind = "adjudication" =>
        s[i].body.based_on = Earlier(s, i - 1, s[i].body.case)

SessionInv ==
    /\ PartsInOrder
    /\ answers \in Seq(Recorded)
    /\ DistinctRecords(answers)
    /\ BasedOnAll(answers)

-----------------------------------------------------------------------------
LEMMA SameLists ==
    /\ \A s : Session!ToSet(s) = ToSet(s)
    /\ \A s, set : Session!Only(s, set) = Only(s, set)
BY DEF ToSet, Session!ToSet, Only, Session!Only

LEMMA PartNames ==
    /\ DOMAIN Session!Parts = 1..6
    /\ Session!Parts[1] = "objects" /\ Session!Parts[2] = "packet"
    /\ Session!Parts[3] = "template" /\ Session!Parts[4] = "custody"
    /\ Session!Parts[5] = "pointer" /\ Session!Parts[6] = "store"
    /\ ToSet(Session!Parts) = {"objects", "packet", "template", "custody", "pointer", "store"}
<1>1. DOMAIN Session!Parts = 1..6 /\ 1..6 = {1, 2, 3, 4, 5, 6}
  BY DEF Session!Parts
<1>2. /\ Session!Parts[1] = "objects" /\ Session!Parts[2] = "packet"
      /\ Session!Parts[3] = "template" /\ Session!Parts[4] = "custody"
      /\ Session!Parts[5] = "pointer" /\ Session!Parts[6] = "store"
  BY DEF Session!Parts
<1>3. ToSet(Session!Parts) = {Session!Parts[i] : i \in {1, 2, 3, 4, 5, 6}}
  BY <1>1 DEF ToSet
<1> QED
  BY <1>1, <1>2, <1>3

LEMMA PartsWhole == PartsInOrder => Session!OpensWhole
<1> SUFFICES ASSUME PartsInOrder, Session!Opens
             PROVE  \A part \in ToSet(Session!Parts) : files[part] = "whole"
  BY SameLists DEF Session!OpensWhole
<1>1. files["store"] = "whole"
  BY PartNames, SameLists DEF Session!Opens
<1>2. 3 \in DOMAIN Session!Parts /\ 6 \in DOMAIN Session!Parts /\ 3 < 6
  BY PartNames
<1>3. files[Session!Parts[3]] = "whole"
  BY <1>1, <1>2, PartNames DEF PartsInOrder
<1> QED
  BY <1>3, PartNames, SameLists DEF Session!Opens

LEMMA PartsKept ==
    ASSUME PartsInOrder, Session!Create
    PROVE  PartsInOrder'
<1> DEFINE P == Session!Parts
           N == DOMAIN P
<1>1. PICK i \in N :
          /\ Session!Turn(i)
          /\ files' = [files EXCEPT ![P[i]] = IF @ = "absent" THEN "torn" ELSE "whole"]
  BY DEF Session!Create
<1>2. /\ \A j \in N : P[j] \in ToSet(P)
      /\ \A j, k \in N : P[j] = P[k] => j = k
      /\ N = 1..6
  BY PartNames DEF ToSet
<1>3. files[P[i]] # "whole" /\ \A j \in N : files[P[j]] # "whole" => i <= j
  BY <1>1 DEF Session!Turn, Session!Missing
<1> HIDE DEF P, N
<1>4. files \in [ToSet(P) -> {"absent", "torn", "whole"}]
  BY DEF PartsInOrder, P
<1>5. files' \in [ToSet(P) -> {"absent", "torn", "whole"}]
  BY <1>1, <1>4
<1>6. \A j \in N : j # i => files'[P[j]] = files[P[j]]
  BY <1>1, <1>2, <1>4
<1>7. ASSUME NEW j \in N, NEW k \in N, j < k, files'[P[k]] # "absent"
      PROVE  files'[P[j]] = "whole"
  <2>0. i \in 1..6 /\ j \in 1..6 /\ k \in 1..6
    BY <1>2
  <2>1. CASE k = i
    <3>1. files[P[j]] = "whole"
      BY <1>3, <1>7, <2>0, <2>1
    <3> QED
      BY <1>6, <1>7, <2>0, <2>1, <3>1
  <2>2. CASE k # i
    <3>1. files[P[k]] # "absent" /\ files[P[j]] = "whole"
      BY <1>6, <1>7, <2>2 DEF PartsInOrder, P, N
    <3>2. j # i
      BY <1>3, <3>1
    <3> QED
      BY <1>6, <3>1, <3>2
  <2> QED
    BY <2>1, <2>2
<1> QED
  BY <1>5, <1>7 DEF PartsInOrder, P, N

-----------------------------------------------------------------------------
(* What a call to import a batch adds: new records of one kind, with ids that *)
(* are not there yet and differ, each from a valid answer of the batch.       *)
Added(new, kind) ==
    /\ new \in Seq(Recorded)
    /\ DistinctRecords(new)
    /\ answers' = answers \o new
    /\ \A k \in DOMAIN new :
          /\ new[k].kind = kind
          /\ \A i \in DOMAIN answers : answers[i].record_id # new[k].record_id
          /\ kind = "adjudication" =>
                new[k].body.based_on = Earlier(answers, Len(answers), new[k].body.case)

LEMMA OriginalsAreEarlier ==
    ASSUME answers \in Seq(Recorded), NEW case
    PROVE  Session!OriginalsFor(case) = Earlier(answers, Len(answers), case)
<1>1. DOMAIN answers = 1..Len(answers)
  OBVIOUS
<1> QED
  BY <1>1 DEF Session!OriginalsFor, Session!Records, Earlier, Session!ToSet

LEMMA ImportAdds ==
    ASSUME SessionInv, NEW kind \in {"original", "adjudication"},
           NEW batch \in OriginalBatches \cup AdjudicationBatches, Session!Import(kind, batch)
    PROVE  \E new : Added(new, kind)
<1> DEFINE good == {answer \in ToSet(batch) : answer.status = "answered"}
           some == Only(batch, good)
<1>p. PICK made : made = [i \in DOMAIN some |-> Session!RecordOf(kind, some[i])]
  OBVIOUS
<1> DEFINE fresh == {record \in ToSet(made) : ~Session!Known(record.record_id)}
           new == Only(made, fresh)
<1>1. batch \in Seq(Session!Answers)
  BY AnswersAssumption
<1>2. /\ Session!ValidBatch(batch)
      /\ \A answer \in ToSet(batch) :
            /\ Session!ValidAnswer(answer)
            /\ kind = "adjudication" => Session!BasisAccepted(answer)
      /\ answers' = answers \o new
  <2> DEFINE some_ == Session!Answered(batch)
             made_ == [i \in DOMAIN some_ |-> Session!RecordOf(kind, some_[i])]
  <2>1. some_ = some
    <3>1. Session!ToSet(batch) = ToSet(batch)
      BY SameLists
    <3> QED
      BY <3>1, SameLists DEF Session!Answered
  <2>2. made_ = made
    <3> HIDE DEF some, some_
    <3> QED
      BY <1>p, <2>1
  <2>3. /\ Session!ValidBatch(batch)
        /\ \A answer \in Session!ToSet(batch) :
              IF kind = "adjudication"
              THEN Session!ValidAdjudication(answer) /\ Session!BasisAccepted(answer)
              ELSE Session!ValidAnswer(answer)
        /\ Session!AppendNew(made_)
    BY DEF Session!Import
  <2> HIDE DEF some_, made_
  <2>4. answers' = answers \o new
    <3>1. Session!ToSet(made) = ToSet(made)
      BY SameLists
    <3> QED
      BY <2>2, <2>3, <3>1, SameLists DEF Session!AppendNew
  <2>5. \A answer \in ToSet(batch) :
            IF kind = "adjudication"
            THEN Session!ValidAdjudication(answer) /\ Session!BasisAccepted(answer)
            ELSE Session!ValidAnswer(answer)
    BY <2>3, SameLists
  <2> QED
    BY <2>3, <2>4, <2>5 DEF Session!ValidAdjudication
<1>s. some \in Seq(Session!Answers) /\ \E to : Picks(to, some, batch, good, Len(batch))
  <2> HIDE DEF good
  <2> QED
    BY <1>1, OnlyPicks
<1> HIDE DEF some
<1>i. PICK src : Picks(src, some, batch, good, Len(batch))
  BY <1>s
<1>3. /\ src \in [1..Len(some) -> 1..Len(batch)]
      /\ \A k \in 1..Len(some) : some[k] = batch[src[k]] /\ batch[src[k]] \in good
      /\ \A j, k \in 1..Len(some) : src[j] = src[k] => j = k
  <2> HIDE DEF good
  <2>1. Len(batch) \in Nat /\ Len(some) \in Nat
    BY <1>1, <1>s
  <2>2. Stands(src, some, batch, good)
    BY <1>i, <2>1, PickedMembers
  <2> QED
    BY <2>2 DEF Stands
<1>4. /\ DOMAIN some = 1..Len(some) /\ Len(some) \in Nat /\ DOMAIN batch = 1..Len(batch)
      /\ \A k \in 1..Len(some) : some[k] \in Session!Answers
  BY <1>1, <1>s
<1>5. ASSUME NEW k \in 1..Len(some)
      PROVE  /\ some[k] \in ToSet(batch) /\ some[k].status = "answered" /\ some[k].decision # None
  <2>1. some[k] \in good
    BY <1>3
  <2> QED
    BY <1>2, <2>1 DEF Session!ValidAnswer
<1>6. \A j, k \in 1..Len(some) : some[j].response_id = some[k].response_id => j = k
  <2> TAKE j, k \in 1..Len(some)
  <2> HAVE some[j].response_id = some[k].response_id
  <2>1. src[j] \in DOMAIN batch /\ src[k] \in DOMAIN batch
    BY <1>3, <1>4
  <2>2. batch[src[j]].response_id = batch[src[k]].response_id
    BY <1>3
  <2>3. src[j] = src[k]
    BY <1>2, <2>1, <2>2 DEF Session!ValidBatch
  <2> QED
    BY <1>3, <2>3
<1>7. \A k \in 1..Len(some) : made[k] = Session!RecordOf(kind, some[k])
  BY <1>p, <1>4
<1>8. made \in Seq(Recorded) /\ Len(made) = Len(some)
  <2>1. \A k \in 1..Len(some) : Session!RecordOf(kind, some[k]) \in Recorded
    BY <1>4, <1>5 DEF Recorded
  <2>2. made \in [1..Len(some) -> Recorded]
    BY <1>p, <1>4, <2>1
  <2> QED
    BY <1>4, <2>2
<1>n. new \in Seq(Recorded) /\ \E to : Picks(to, new, made, fresh, Len(made))
  <2> HIDE DEF fresh
  <2> QED
    BY <1>8, OnlyPicks
<1>j. PICK to : Picks(to, new, made, fresh, Len(made))
  BY <1>n
<1>9. /\ to \in [1..Len(new) -> 1..Len(made)]
      /\ \A k \in 1..Len(new) : new[k] = made[to[k]] /\ made[to[k]] \in fresh
      /\ \A j, k \in 1..Len(new) : to[j] = to[k] => j = k
  <2> HIDE DEF new, fresh
  <2>1. Len(made) \in Nat /\ Len(new) \in Nat
    BY <1>8, <1>n
  <2>2. Stands(to, new, made, fresh)
    BY <1>j, <2>1, PickedMembers
  <2> QED
    BY <2>2 DEF Stands
<1>10. ASSUME NEW k \in 1..Len(new)
       PROVE  /\ to[k] \in 1..Len(some) /\ new[k] = Session!RecordOf(kind, some[to[k]])
              /\ new[k].record_id = some[to[k]].response_id
              /\ ~Session!Known(new[k].record_id)
  <2>1. to[k] \in 1..Len(made) /\ new[k] = made[to[k]] /\ made[to[k]] \in fresh
    <3> HIDE DEF new, fresh
    <3> QED
      BY <1>9
  <2>2. to[k] \in 1..Len(some) /\ new[k] = Session!RecordOf(kind, some[to[k]])
    BY <1>7, <1>8, <2>1
  <2>3. new[k].record_id = some[to[k]].response_id
    <3> HIDE DEF new, fresh
    <3> QED
      BY <2>2 DEF Session!RecordOf
  <2> QED
    BY <2>1, <2>2, <2>3
<1> HIDE DEF new, fresh
<1>11. DOMAIN new = 1..Len(new) /\ Len(new) \in Nat
  BY <1>n
<1>12. DistinctRecords(new)
  <2> SUFFICES ASSUME NEW j \in 1..Len(new), NEW k \in 1..Len(new),
                      new[j].record_id = new[k].record_id
               PROVE  j = k
    BY <1>11 DEF DistinctRecords
  <2>1. some[to[j]].response_id = some[to[k]].response_id
    BY <1>10
  <2>2. to[j] = to[k]
    BY <1>6, <1>10, <2>1
  <2> QED
    BY <1>9, <2>2
<1>13. ASSUME NEW k \in DOMAIN new
       PROVE  /\ new[k].kind = kind
              /\ \A i \in DOMAIN answers : answers[i].record_id # new[k].record_id
              /\ kind = "adjudication" =>
                    new[k].body.based_on = Earlier(answers, Len(answers), new[k].body.case)
  <2> DEFINE answer == some[to[k]]
  <2>1. /\ to[k] \in 1..Len(some) /\ new[k] = Session!RecordOf(kind, answer)
        /\ ~Session!Known(new[k].record_id)
    BY <1>10, <1>11
  <2>2. answer \in ToSet(batch)
    BY <1>5, <2>1
  <2>3. /\ new[k].kind = kind /\ new[k].record_id = answer.response_id
        /\ new[k].body.based_on = answer.based_on /\ new[k].body.case = CaseOf[answer.task]
    <3> HIDE DEF answer
    <3> QED
      BY <2>1 DEF Session!RecordOf, Session!Normalize
  <2> HIDE DEF answer
  <2>4. \A i \in DOMAIN answers : answers[i].record_id # new[k].record_id
    BY <2>1 DEF Session!Known, Session!Records, Session!ToSet
  <2>5. ASSUME kind = "adjudication"
        PROVE  answer.based_on = Earlier(answers, Len(answers), CaseOf[answer.task])
    <3>1. answer.based_on = Session!OriginalsFor(CaseOf[answer.task])
      BY <1>2, <2>1, <2>2, <2>3, <2>5 DEF Session!BasisAccepted
    <3> QED
      BY <3>1, OriginalsAreEarlier DEF SessionInv
  <2> QED
    BY <2>3, <2>4, <2>5
<1>14. Added(new, kind)
  BY <1>2, <1>n, <1>12, <1>13 DEF Added
<1> QED
  BY <1>14

LEMMA ImportKeeps ==
    ASSUME SessionInv, NEW kind \in {"original", "adjudication"}, NEW new, Added(new, kind)
    PROVE  /\ answers' \in Seq(Recorded) /\ DistinctRecords(answers') /\ BasedOnAll(answers')
<1> DEFINE n == Len(answers)
           m == Len(new)
<1>1. /\ answers \in Seq(Recorded) /\ new \in Seq(Recorded) /\ answers' = answers \o new
      /\ n \in Nat /\ m \in Nat /\ DOMAIN answers = 1..n /\ DOMAIN new = 1..m
  BY DEF SessionInv, Added
<1>2. /\ answers' \in Seq(Recorded) /\ Len(answers') = n + m /\ DOMAIN answers' = 1..(n + m)
      /\ \A i \in 1..n : answers'[i] = answers[i]
      /\ \A i \in 1..m : answers'[n + i] = new[i]
  BY <1>1
<1> HIDE DEF n, m
<1>3. \A i \in 1..(n + m) : i \in 1..n \/ (i - n \in 1..m /\ i = n + (i - n))
  BY <1>1
<1>4. ASSUME NEW i \in 1..m
      PROVE  /\ new[i].kind = kind
             /\ \A j \in 1..n : answers[j].record_id # new[i].record_id
             /\ kind = "adjudication" =>
                   new[i].body.based_on = Earlier(answers, n, new[i].body.case)
  BY <1>1 DEF Added, n
<1>5. DistinctRecords(answers')
  <2> SUFFICES ASSUME NEW i \in 1..(n + m), NEW j \in 1..(n + m),
                      answers'[i].record_id = answers'[j].record_id
               PROVE  i = j
    BY <1>2 DEF DistinctRecords
  <2>1. CASE i \in 1..n /\ j \in 1..n
    BY <1>1, <1>2, <2>1 DEF SessionInv, DistinctRecords
  <2>2. CASE i \notin 1..n /\ j \notin 1..n
    <3>1. i - n \in 1..m /\ j - n \in 1..m /\ i = n + (i - n) /\ j = n + (j - n)
      BY <1>3, <2>2
    <3>2. new[i - n].record_id = new[j - n].record_id
      BY <1>2, <3>1
    <3>3. i - n = j - n
      BY <1>1, <3>1, <3>2 DEF Added, DistinctRecords
    <3> QED
      BY <3>1, <3>3
  <2>3. CASE i \in 1..n /\ j \notin 1..n
    <3>1. j - n \in 1..m /\ j = n + (j - n)
      BY <1>3, <2>3
    <3> QED
      BY <1>2, <1>4, <2>3, <3>1
  <2>4. CASE i \notin 1..n /\ j \in 1..n
    <3>1. i - n \in 1..m /\ i = n + (i - n)
      BY <1>3, <2>4
    <3> QED
      BY <1>2, <1>4, <2>4, <3>1
  <2> QED
    BY <2>1, <2>2, <2>3, <2>4
<1>6. ASSUME NEW i \in 1..(n + m), answers'[i].kind = "adjudication"
      PROVE  answers'[i].body.based_on = Earlier(answers', i - 1, answers'[i].body.case)
  <2> DEFINE case == answers'[i].body.case
  <2>1. CASE i \in 1..n
    <3>1. \A k \in 1..(i - 1) : k \in 1..n /\ answers'[k] = answers[k]
      BY <1>1, <1>2, <2>1
    <3>2. Earlier(answers', i - 1, case) = Earlier(answers, i - 1, case)
      <4> HIDE DEF case
      <4> QED
        BY <3>1 DEF Earlier
    <3>3. answers'[i] = answers[i] /\ i \in DOMAIN answers
      BY <1>1, <1>2, <2>1
    <3> QED
      BY <1>6, <3>2, <3>3 DEF SessionInv, BasedOnAll
  <2>2. CASE i \notin 1..n
    <3>1. i - n \in 1..m /\ i = n + (i - n) /\ answers'[i] = new[i - n]
      BY <1>2, <1>3, <2>2
    <3>2. answers'[i].body.based_on = Earlier(answers, n, case)
      BY <1>4, <1>6, <3>1
    <3>3. \A k \in 1..n : k \in 1..(i - 1) /\ answers'[k] = answers[k]
      BY <1>1, <1>2, <3>1
    <3>4. ASSUME NEW k \in 1..(i - 1), answers'[k].kind = "original"
          PROVE  k \in 1..n
      <4> SUFFICES ASSUME k \notin 1..n PROVE FALSE
        OBVIOUS
      <4>1. k \in 1..(n + m)
        BY <1>1
      <4>2. k - n \in 1..m /\ answers'[k] = new[k - n]
        BY <1>2, <1>3, <4>1
      <4>3. kind = "original" /\ kind = "adjudication"
        BY <1>4, <1>6, <3>1, <3>4, <4>2
      <4> QED
        BY <4>3
    <3>5. Earlier(answers', i - 1, case) = Earlier(answers, n, case)
      <4> HIDE DEF case
      <4> QED
        BY <3>3, <3>4 DEF Earlier
    <3> QED
      BY <3>2, <3>5
  <2> QED
    BY <2>1, <2>2
<1>7. BasedOnAll(answers')
  BY <1>2, <1>6 DEF BasedOnAll
<1> QED
  BY <1>2, <1>5, <1>7

LEMMA SessionInit == Session!Init => SessionInv
<1> SUFFICES ASSUME Session!Init PROVE SessionInv
  OBVIOUS
<1>1. /\ files = [part \in ToSet(Session!Parts) |-> "absent"] /\ answers = <<>>
  BY SameLists DEF Session!Init
<1>2. \A i \in DOMAIN Session!Parts : Session!Parts[i] \in ToSet(Session!Parts)
  BY DEF ToSet
<1>3. PartsInOrder
  BY <1>1, <1>2 DEF PartsInOrder
<1>4. answers \in Seq(Recorded) /\ DOMAIN answers = {}
  BY <1>1
<1> QED
  BY <1>3, <1>4 DEF SessionInv, DistinctRecords, BasedOnAll

LEMMA SessionStep == SessionInv /\ [Session!Next]_sessionVars => SessionInv'
<1> SUFFICES ASSUME SessionInv, [Session!Next]_sessionVars PROVE SessionInv'
  OBVIOUS
<1>1. CASE Session!Create
  <2>1. answers' = answers
    BY <1>1 DEF Session!Create
  <2>2. PartsInOrder'
    BY <1>1, PartsKept DEF SessionInv
  <2> QED
    BY <2>1, <2>2 DEF SessionInv, DistinctRecords, BasedOnAll, Earlier
<1>2. ASSUME NEW kind \in {"original", "adjudication"},
             NEW batch \in OriginalBatches \cup AdjudicationBatches, Session!Import(kind, batch)
      PROVE  SessionInv'
  <2>1. PICK new : Added(new, kind)
    BY <1>2, ImportAdds
  <2>2. answers' \in Seq(Recorded) /\ DistinctRecords(answers') /\ BasedOnAll(answers')
    BY <2>1, ImportKeeps
  <2>3. files' = files
    BY <1>2 DEF Session!Import
  <2>4. PartsInOrder'
    BY <2>3 DEF SessionInv, PartsInOrder
  <2> QED
    BY <2>2, <2>4 DEF SessionInv
<1>3. CASE UNCHANGED sessionVars
  BY <1>3 DEF sessionVars, SessionInv, PartsInOrder, DistinctRecords, BasedOnAll, Earlier
<1> QED
  BY <1>1, <1>2, <1>3 DEF Session!Next, Session!ImportOriginals, Session!ImportAdjudications

-----------------------------------------------------------------------------
LEMMA RecordFields ==
    ASSUME NEW r \in Recorded
    PROVE  /\ r.kind \in {"original", "adjudication"}
           /\ Session!Normalize(r.body.original_response) = r.body
           /\ r.body.decision \in {"acceptable", "unacceptable", "abstain"}
           /\ r.body.complete \in BOOLEAN
           /\ r.body.complete => r.body.decision # "abstain"
<1>1. PICK kind \in {"original", "adjudication"}, answer \in Session!Answers :
          answer.decision # None /\ r = Session!RecordOf(kind, answer)
  BY DEF Recorded
<1> DEFINE body == Session!Normalize(answer)
<1>2. r.kind = kind /\ r.body = body
  <2> HIDE DEF body
  <2>1. r = [record_id |-> answer.response_id, kind |-> kind, task_id |-> answer.task,
             body |-> body]
    BY <1>1 DEF Session!RecordOf, body
  <2> QED
    BY <2>1
<1>3. /\ body.original_response = answer /\ body.decision = answer.decision
      /\ body.complete = Session!Complete(answer)
  <2> HIDE DEF Session!Complete
  <2> QED
    BY DEF Session!Normalize
<1> HIDE DEF body
<1>4. answer.decision \in {"acceptable", "unacceptable", "abstain"} /\ answer.required \in BOOLEAN
  BY <1>1 DEF Session!Answers
<1>5. Session!Complete(answer) \in BOOLEAN
      /\ (Session!Complete(answer) => answer.decision # "abstain")
  BY DEF Session!Complete
<1> QED
  BY <1>2, <1>3, <1>4, <1>5 DEF body

(* An adjudication of a case has seen all its originals iff none came after it. *)
LEMMA SeenAll ==
    ASSUME SessionInv, NEW i \in DOMAIN answers, answers[i].kind = "adjudication"
    PROVE  answers[i].body.based_on = Session!OriginalsFor(answers[i].body.case)
           <=> \A j \in (i + 1)..Len(answers) :
                  answers[j].kind = "original" => answers[j].body.case # answers[i].body.case
<1> DEFINE n == Len(answers)
           case == answers[i].body.case
           based == answers[i].body.based_on
<1>1. answers \in Seq(Recorded) /\ n \in Nat /\ DOMAIN answers = 1..n
  BY DEF SessionInv
<1>2. based = Earlier(answers, i - 1, case)
  BY DEF SessionInv, BasedOnAll
<1>3. Session!OriginalsFor(case) = Earlier(answers, n, case)
  BY <1>1, OriginalsAreEarlier
<1> HIDE DEF n, case, based
<1>4. \A k \in 1..(i - 1) : k \in 1..n
  BY <1>1
<1>5. ASSUME \A j \in (i + 1)..n : answers[j].kind = "original" => answers[j].body.case # case
      PROVE  Earlier(answers, i - 1, case) = Earlier(answers, n, case)
  <2>1. \A k \in 1..n : k \in 1..(i - 1) \/ k = i \/ k \in (i + 1)..n
    BY <1>1
  <2>2. \A k \in 1..n : answers[k].kind = "original" /\ answers[k].body.case = case
                        => k \in 1..(i - 1)
    BY <1>5, <2>1
  <2> QED
    BY <1>4, <2>2 DEF Earlier
<1>6. ASSUME Earlier(answers, i - 1, case) = Earlier(answers, n, case),
             NEW j \in (i + 1)..n, answers[j].kind = "original", answers[j].body.case = case
      PROVE  FALSE
  <2>1. j \in 1..n /\ ~(j \in 1..(i - 1))
    BY <1>1
  <2>2. answers[j].record_id \in Earlier(answers, i - 1, case)
    BY <1>6, <2>1 DEF Earlier
  <2>3. PICK k \in 1..(i - 1) : answers[k].record_id = answers[j].record_id
    BY <2>2 DEF Earlier
  <2>4. k = j
    BY <1>1, <1>4, <2>1, <2>3 DEF SessionInv, DistinctRecords
  <2> QED
    BY <2>1, <2>4
<1> QED
  BY <1>2, <1>3, <1>5, <1>6 DEF n, case, based

LEMMA SessionIsRight ==
    ASSUME SessionInv
    PROVE  /\ Session!OpensWhole /\ Session!BasedOnEarlier
           /\ Session!ResolvedUntilNextOriginal /\ Session!ResolvedIsSelectable
           /\ Session!NoReferenceFromAbstention
<1>1. /\ answers \in Seq(Recorded) /\ DOMAIN answers = 1..Len(answers)
      /\ Session!Records = {answers[i] : i \in DOMAIN answers}
      /\ \A i \in DOMAIN answers : answers[i] \in Recorded
  BY DEF SessionInv, Session!Records, Session!ToSet
<1>2. Session!OpensWhole
  BY PartsWhole DEF SessionInv
<1>3. Session!BasedOnEarlier
  BY DEF Session!BasedOnEarlier, SessionInv, BasedOnAll, Earlier
<1>4. Session!ResolvedUntilNextOriginal
  <2> SUFFICES ASSUME NEW case \in Session!Disputes
               PROVE  (\E record \in Session!Records : Session!Settles(record, case))
                      <=> \E i \in DOMAIN answers :
                             /\ answers[i].kind = "adjudication"
                             /\ answers[i].body.case = case /\ answers[i].body.complete
                             /\ \A j \in (i + 1)..Len(answers) :
                                   answers[j].kind = "original" => answers[j].body.case # case
    BY DEF Session!ResolvedUntilNextOriginal, Session!Resolved
  <2>1. \A i \in DOMAIN answers :
            Session!Settles(answers[i], case)
            <=> /\ answers[i].kind = "adjudication"
                /\ answers[i].body.case = case /\ answers[i].body.complete
                /\ \A j \in (i + 1)..Len(answers) :
                      answers[j].kind = "original" => answers[j].body.case # case
    <3> TAKE i \in DOMAIN answers
    <3>1. CASE answers[i].kind = "adjudication" /\ answers[i].body.case = case
      BY <3>1, SeenAll DEF Session!Settles
    <3> QED
      BY <3>1 DEF Session!Settles
  <2> QED
    BY <1>1, <2>1
<1>5. Session!ResolvedIsSelectable
  <2> SUFFICES ASSUME NEW case \in Session!Disputes
               PROVE  \A record \in Session!Records :
                          Session!Settles(record, case)
                          <=> /\ record.kind = "adjudication"
                              /\ Session!Selectable(record, case)
                              /\ Session!Acceptability(record) # "unknown"
    BY DEF Session!ResolvedIsSelectable, Session!Resolved
  <2> TAKE record \in Session!Records
  <2>1. record \in Recorded
    BY <1>1
  <2>2. /\ Session!Normalize(record.body.original_response) = record.body
        /\ record.body.complete \in BOOLEAN
    BY <2>1, RecordFields
  <2>3. Session!Acceptability(record) # "unknown" <=> record.body.complete
    BY <2>2 DEF Session!Acceptability
  <2> QED
    BY <2>2, <2>3 DEF Session!Settles, Session!Selectable
<1>6. Session!NoReferenceFromAbstention
  <2> SUFFICES ASSUME NEW record \in Session!Records, Session!Acceptability(record) # "unknown"
               PROVE  record.body.decision = Session!Acceptability(record)
    BY DEF Session!NoReferenceFromAbstention
  <2>1. record \in Recorded
    BY <1>1
  <2>2. /\ record.body.decision \in {"acceptable", "unacceptable", "abstain"}
        /\ record.body.complete \in BOOLEAN
        /\ record.body.complete => record.body.decision # "abstain"
    BY <2>1, RecordFields
  <2> QED
    BY <2>2 DEF Session!Acceptability
<1> QED
  BY <1>2, <1>3, <1>4, <1>5, <1>6

(* A session that opens is whole, and its status says of a dispute what the    *)
(* order of its records says, whatever the raters and the adjudicator answer   *)
(* (_import compares sets of ids, annotation_status too, and neither of them   *)
(* keeps the order).                                                         *)
THEOREM SessionsAreSound == AnnotationsSpec => []SessionIsSound
<1> DEFINE I == subject = "session" => SessionInv
<1>1. AnnotationsInit => I
  BY SessionInit DEF AnnotationsInit
<1>2. I /\ [AnnotationsNext]_allVars => I'
  <2> SUFFICES ASSUME I, [AnnotationsNext]_allVars, subject' = "session" PROVE SessionInv'
    OBVIOUS
  <2>1. subject = "session" /\ [Session!Next]_sessionVars
    BY DEF AnnotationsNext, allVars
  <2> QED
    BY <2>1, SessionStep
<1>3. I => SessionIsSound
  BY SessionIsRight DEF SessionIsSound
<1> QED
  BY <1>1, <1>2, <1>3, PTL DEF AnnotationsSpec

-----------------------------------------------------------------------------
(* The reports and the releases.                                            *)

(* A record that is used was original, or had seen the originals it is shown with. *)
Honest(report) ==
    \A choice \in report.selected :
        choice.record.kind = "adjudication" => choice.record.based_on = choice.originals

Signed(content, source) ==
    \E approval \in approvals : approval.projection = content /\ approval.source = source

Free(content, source) ==
    \A w \in content.evidence :
        /\ source.run # None /\ source.run[w] = "completed"
        /\ Rights[w] \cup {SuiteRights} = {"redistributable"}

(* What may be in a directory. *)
Proper(d, content, source) ==
    /\ d \in Reporting!Dirs
    /\ source \in Reporting!ReportTexts \cup {None}
    /\ d = "preparation" => content \in Reporting!BindingsTexts
    /\ d \in {"report", "copy"} => content \in Reporting!ReportTexts /\ Honest(content)
    /\ d = "release" =>
          content \in Reporting!ProjectionTexts /\ Signed(content, source) /\ Free(content, source)

Loads(c) ==
    /\ c.at \in {"load", "bind"} => c.run \in Reporting!Snapshots \cup {None}
    /\ c.at = "bind" => c.bundle \in SUBSET Work

Makes(c) ==
    c.at \in {"select", "made"} =>
        /\ c = [op |-> c.op, at |-> c.at, report |-> c.report]
        /\ c.report \in Reporting!ReportTexts /\ Honest(c.report)

Written(c) ==
    c.at \in {"create", "write", "done", "refused"} =>
        /\ c = [op |-> c.op, at |-> c.at, d |-> c.d, content |-> c.content, source |-> c.source]
        /\ Proper(c.d, c.content, c.source)

(* What a command writes is there while it writes and when it is done. *)
There(c) ==
    /\ c.at \in {"write", "done"} => dir[c.d] # None /\ dir[c.d].content = c.content
    /\ c.at = "done" => dir[c.d].files = Reporting!FileCount(c.d)

CommandOk(c) == Loads(c) /\ Makes(c) /\ Written(c) /\ There(c)

DirOk(d) ==
    dir[d] # None =>
        /\ dir[d] \in Reporting!Directories
        /\ Proper(d, dir[d].content, dir[d].source)

ReportsInv ==
    /\ run \in Reporting!Snapshots
    /\ known \subseteq Reporting!Records
    /\ dir = [d \in Reporting!Dirs |-> dir[d]]
    /\ command = [p \in Processes |-> command[p]]
    /\ \A d \in Reporting!Dirs : DirOk(d)
    /\ \A p \in Processes : CommandOk(command[p])
    /\ \A approval \in approvals : approval.selection \in Selections

-----------------------------------------------------------------------------
LEMMA SameCardinality == \A S : Reporting!Cardinality(S) = Cardinality(S)
BY DEF Cardinality, Reporting!Cardinality

LEMMA Projected ==
    ASSUME NEW report \in Reporting!ReportTexts, NEW selection \in Selections
    PROVE  /\ Reporting!Projection(report, selection) \in Reporting!ProjectionTexts
           /\ Reporting!Projection(report, selection).evidence = selection.evidence
<1>1. selection.panels \subseteq Reporting!Roles /\ selection.evidence \subseteq Work
  BY ReportsAssumption
<1>2. \A role : /\ Reporting!RowsOf(report, role) \subseteq Work
                /\ Reporting!Covered(report, role) \subseteq Work
  BY DEF Reporting!RowsOf, Reporting!Covered
<1>3. \A set : set \subseteq Work => Cardinality(set) \in Nat
  BY ReportsAssumption, FS_Subset, FS_CardinalityType
<1>4. ASSUME NEW role \in Reporting!Roles
      PROVE  Reporting!Panel(report, role) \in Reporting!Panels
  <2> DEFINE items == Reporting!RowsOf(report, role)
             counts == [s \in Reporting!RunStates |->
                           Cardinality({w \in items : report.run[w] = s})]
             status == Reporting!Status(report, role)
             covered == Cardinality(Reporting!Covered(report, role))
  <2>1. covered \in Nat
    BY <1>2, <1>3
  <2>2. counts \in [Reporting!RunStates -> Nat]
    <3>1. \A s : {w \in items : report.run[w] = s} \subseteq Work
      BY <1>2
    <3>2. \A s \in Reporting!RunStates : Cardinality({w \in items : report.run[w] = s}) \in Nat
      BY <1>3, <3>1
    <3> QED
      BY <3>2
  <2>3. status \in {"not_run", "incomplete", "unassessed", "inconclusive"}
    <3> DEFINE none == \A w \in items : report.run[w] = "planned"
               some == \E w \in items : report.run[w] # "completed"
               unscored == Reporting!Covered(report, role) = {}
    <3>1. status = IF none THEN "not_run" ELSE IF some THEN "incomplete"
                   ELSE IF unscored THEN "unassessed" ELSE "inconclusive"
      BY DEF Reporting!Status
    <3> HIDE DEF none, some, unscored, status
    <3> QED
      BY <3>1
  <2>4. Reporting!Panel(report, role) =
            [role |-> role, status |-> status, counts |-> counts, covered |-> covered]
    BY SameCardinality, Zenon DEF Reporting!Panel
  <2> HIDE DEF counts, status, covered
  <2> QED
    BY <2>1, <2>2, <2>3, <2>4 DEF Reporting!Panels
<1>5. {Reporting!Panel(report, role) : role \in selection.panels} \in SUBSET Reporting!Panels
  BY <1>1, <1>4
<1> QED
  BY <1>1, <1>5 DEF Reporting!Projection, Reporting!ProjectionTexts

LEMMA Typed == ReportsInv =>
    /\ \A p \in Processes : CommandOk(command[p])
    /\ \A d \in Reporting!Dirs : dir[d] # None =>
          /\ dir[d] \in Reporting!Directories
          /\ Proper(d, dir[d].content, dir[d].source)
BY DEF ReportsInv, DirOk

LEMMA Replaced ==
    ASSUME NEW S, NEW f, f = [x \in S |-> f[x]], NEW y \in S, NEW v, NEW g,
           g = [f EXCEPT ![y] = v]
    PROVE  g = [x \in S |-> g[x]] /\ \A x \in S : g[x] = IF x = y THEN v ELSE f[x]
<1>1. DOMAIN f = S
  OBVIOUS
<1> QED
  BY <1>1

(* A step that only changes what one process is doing. *)
LEMMA CommandMoves ==
    ASSUME ReportsInv, NEW p \in Processes, NEW value, CommandOk(value),
           Reporting!Become(p, value), UNCHANGED <<run, known, dir, approvals>>
    PROVE  ReportsInv'
<1>1. command' = [command EXCEPT ![p] = value]
  BY DEF Reporting!Become
<1>2. /\ command' = [q \in Processes |-> command'[q]]
      /\ \A q \in Processes : command'[q] = IF q = p THEN value ELSE command[q]
  BY <1>1, Replaced DEF ReportsInv
<1>3. \A c : CommandOk(c) => CommandOk(c)'
  BY DEF CommandOk, Loads, Makes, Written, There, Proper, Honest, Signed, Free
<1> QED
  BY <1>2, <1>3 DEF ReportsInv, DirOk, Proper, Honest, Signed, Free

LEMMA IdleOk == CommandOk(Reporting!Idle)
BY DEF CommandOk, Loads, Makes, Written, There, Reporting!Idle

LEMMA WritesOk ==
    ASSUME NEW op, NEW d, NEW content, NEW source, Proper(d, content, source)
    PROVE  CommandOk(Reporting!Writes(op, d, content, source))
<1> DEFINE c == Reporting!Writes(op, d, content, source)
<1>1. /\ c = [op |-> op, at |-> "create", d |-> d, content |-> content, source |-> source]
      /\ c.op = op /\ c.at = "create" /\ c.d = d /\ c.content = content /\ c.source = source
  BY DEF Reporting!Writes
<1> HIDE DEF c
<1>2. CommandOk(c)
  BY <1>1 DEF CommandOk, Loads, Makes, Written, There
<1> QED
  BY <1>2 DEF c

LEMMA MadeOk ==
    ASSUME NEW at \in {"select", "made"}, NEW report \in Reporting!ReportTexts, Honest(report)
    PROVE  CommandOk([op |-> "build", at |-> at, report |-> report])
BY DEF CommandOk, Loads, Makes, Written, There

-----------------------------------------------------------------------------
LEMMA RunSteps ==
    ASSUME ReportsInv,
           \/ \E w \in Work : Reporting!Progress(w)
           \/ \E original \in Originals : Reporting!Import(original)
           \/ \E id \in Adjudications, w \in Work : Reporting!Adjudicate(id, w)
    PROVE  ReportsInv'
<1>1. UNCHANGED <<dir, command, approvals>>
  BY DEF Reporting!Progress, Reporting!Import, Reporting!Adjudicate
<1>2. run' \in Reporting!Snapshots /\ known' \subseteq Reporting!Records
  <2>1. ASSUME NEW w \in Work, Reporting!Progress(w)
        PROVE  run' \in Reporting!Snapshots /\ known' \subseteq Reporting!Records
    BY <2>1 DEF Reporting!Progress, ReportsInv, Reporting!Snapshots
  <2>2. ASSUME NEW original \in Originals, Reporting!Import(original)
        PROVE  run' \in Reporting!Snapshots /\ known' \subseteq Reporting!Records
    <3> DEFINE r == [id |-> original.id, case |-> original.case, kind |-> "original",
                     based_on |-> {}]
    <3>1. original.id \in Reporting!AllIds
      BY DEF Reporting!AllIds
    <3>2. r \in Reporting!Records
      BY <3>1 DEF Reporting!Records
    <3>3. known' = known \cup {r} /\ run' = run
      BY <2>2 DEF Reporting!Import
    <3> QED
      BY <3>2, <3>3 DEF ReportsInv
  <2>3. ASSUME NEW id \in Adjudications, NEW w \in Work, Reporting!Adjudicate(id, w)
        PROVE  run' \in Reporting!Snapshots /\ known' \subseteq Reporting!Records
    <3> DEFINE basis == Reporting!Ids(Reporting!OriginalsOf(w))
               r == [id |-> id, case |-> w, kind |-> "adjudication", based_on |-> basis]
    <3>1. id \in Reporting!AllIds
      BY DEF Reporting!AllIds
    <3>2. basis \in SUBSET Reporting!AllIds
      BY DEF ReportsInv, Reporting!Ids, Reporting!OriginalsOf, Reporting!Records
    <3>3. known' = known \cup {r} /\ run' = run
      BY <2>3 DEF Reporting!Adjudicate
    <3> HIDE DEF basis
    <3>4. r \in Reporting!Records
      BY <3>1, <3>2 DEF Reporting!Records
    <3> QED
      BY <3>3, <3>4 DEF ReportsInv
  <2> QED
    BY <2>1, <2>2, <2>3
<1> QED
  BY <1>1, <1>2 DEF ReportsInv, DirOk, CommandOk, Loads, Makes, Written, There, Proper, Honest,
      Signed, Free

(* The commands that take a snapshot or a report when they start. *)
LEMMA Starts ==
    ASSUME ReportsInv, NEW p \in Processes,
           \/ Reporting!Prepare(p) \/ \E inputs \in Reporting!Inputs : Reporting!Build(p, inputs)
           \/ Reporting!Replay(p) \/ \E approval \in approvals : Reporting!Export(p, approval)
    PROVE  ReportsInv'
<1>1. CASE Reporting!Prepare(p)
  <2> DEFINE content == Reporting!Bindings(run)
  <2>1. content \in Reporting!BindingsTexts
    BY DEF ReportsInv, Reporting!Bindings, Reporting!BindingsTexts, Reporting!Cases
  <2>2. /\ Reporting!Become(p, Reporting!Writes("prepare", "preparation", content, None))
        /\ UNCHANGED <<run, known, dir, approvals>>
    BY <1>1 DEF Reporting!Prepare
  <2> HIDE DEF content
  <2>3. Proper("preparation", content, None)
    BY <2>1 DEF Proper, Reporting!Dirs
  <2> QED
    BY <2>2, <2>3, WritesOk, CommandMoves
<1>2. ASSUME NEW inputs \in Reporting!Inputs, Reporting!Build(p, inputs)
      PROVE  ReportsInv'
  <2> DEFINE of == IF inputs.run THEN run ELSE None
             c == [op |-> "build", at |-> "load", inputs |-> inputs, run |-> of]
  <2>1. of \in Reporting!Snapshots \cup {None}
    BY DEF ReportsInv
  <2>2. Reporting!Become(p, c) /\ UNCHANGED <<run, known, dir, approvals>>
    BY <1>2 DEF Reporting!Build
  <2> HIDE DEF of
  <2>3. CommandOk(c)
    BY <2>1 DEF CommandOk, Loads, Makes, Written, There
  <2> HIDE DEF c
  <2> QED
    BY <2>2, <2>3, CommandMoves
<1>3. CASE Reporting!Replay(p)
  <2> DEFINE content == dir["report"].content
  <2>1. dir["report"] # None /\ "report" \in Reporting!Dirs /\ "copy" \in Reporting!Dirs
    BY <1>3 DEF Reporting!Replay, Reporting!Readable, Reporting!Dirs
  <2>2. Proper("report", content, dir["report"].source)
    BY <2>1, Typed
  <2>3. /\ Reporting!Become(p, Reporting!Writes("replay", "copy", content, None))
        /\ UNCHANGED <<run, known, dir, approvals>>
    BY <1>3 DEF Reporting!Replay
  <2> HIDE DEF content
  <2>4. Proper("copy", content, None)
    BY <2>1, <2>2 DEF Proper
  <2> QED
    BY <2>3, <2>4, WritesOk, CommandMoves
<1>4. ASSUME NEW approval \in approvals, Reporting!Export(p, approval)
      PROVE  ReportsInv'
  <2> DEFINE report == dir["report"].content
             selection == approval.selection
             content == Reporting!Projection(report, selection)
  <2>1. /\ dir["report"] # None /\ "report" \in Reporting!Dirs /\ "release" \in Reporting!Dirs
        /\ Reporting!Releasable(report, selection)
        /\ approval.source = report /\ approval.projection = content
        /\ Reporting!Become(p, Reporting!Writes("export", "release", content, report))
        /\ UNCHANGED <<run, known, dir, approvals>>
    BY <1>4 DEF Reporting!Export, Reporting!Readable, Reporting!Dirs, Reporting!Matches
  <2>2. report \in Reporting!ReportTexts
    BY <2>1, Typed DEF Proper
  <2>3. content \in Reporting!ProjectionTexts /\ content.evidence = selection.evidence
    BY <2>2, Projected DEF ReportsInv
  <2>4. \A w \in selection.evidence :
            /\ report.run # None /\ report.run[w] = "completed"
            /\ Rights[w] \cup {SuiteRights} = {"redistributable"}
    <3> HIDE DEF report, selection
    <3> QED
      BY <2>1 DEF Reporting!Releasable, Reporting!Evidence
  <2> HIDE DEF report, selection, content
  <2>5. Proper("release", content, report)
    BY <2>1, <2>2, <2>3, <2>4 DEF Proper, Signed, Free
  <2> QED
    BY <2>1, <2>5, WritesOk, CommandMoves
<1> QED
  BY <1>1, <1>2, <1>3, <1>4

LEMMA RunOnly ==
    ASSUME NEW of \in Reporting!Snapshots \cup {None}
    PROVE  LET report == [run |-> of, bundle |-> None, bindings |-> None, selected |-> {}]
           IN  report \in Reporting!ReportTexts /\ report.selected = {}
BY DEF Reporting!ReportTexts

LEMMA Loadings ==
    ASSUME ReportsInv, NEW p \in Processes, Reporting!LoadBundle(p) \/ Reporting!LoadBindings(p)
    PROVE  ReportsInv'
<1> DEFINE c == command[p]
           prepared == dir["preparation"]
<1>1. CommandOk(c)
  BY Typed
<1>2. prepared # None => prepared.content \in Reporting!BindingsTexts
  BY Typed DEF Proper, Reporting!Dirs
<1>3. CASE Reporting!LoadBundle(p)
  <2> DEFINE report == [run |-> c.run, bundle |-> None, bindings |-> None, selected |-> {}]
             next == [op |-> "build", at |-> "bind", inputs |-> c.inputs, run |-> c.run,
                      bundle |-> prepared.content.bundle]
  <2>1. /\ c.at = "load"
        /\ \/ Reporting!Become(p, Reporting!Writes("build", "report", report, None))
           \/ Reporting!Become(p, Reporting!Idle)
           \/ prepared # None /\ Reporting!Become(p, next)
        /\ UNCHANGED <<run, known, dir, approvals>>
    BY <1>3 DEF Reporting!LoadBundle
  <2>2. c.run \in Reporting!Snapshots \cup {None}
    BY <1>1, <2>1 DEF CommandOk, Loads
  <2>3. CommandOk(Reporting!Writes("build", "report", report, None))
    <3>1. Proper("report", report, None)
      <4>1. report \in Reporting!ReportTexts /\ report.selected = {}
        BY <2>2, RunOnly
      <4> HIDE DEF report
      <4> QED
        BY <4>1 DEF Proper, Honest, Reporting!Dirs
    <3> HIDE DEF report
    <3> QED
      BY <3>1, WritesOk
  <2>4. ASSUME prepared # None
        PROVE  CommandOk(next)
    <3>1. prepared.content.bundle \in SUBSET Work
      BY <1>2, <2>4 DEF Reporting!BindingsTexts
    <3> HIDE DEF c, prepared
    <3> QED
      BY <2>2, <3>1 DEF CommandOk, Loads, Makes, Written, There
  <2> HIDE DEF report, next, c, prepared
  <2> QED
    BY <2>1, <2>3, <2>4, IdleOk, CommandMoves
<1>4. CASE Reporting!LoadBindings(p)
  <2> DEFINE bindings == IF c.inputs.bindings /\ prepared # None /\ prepared.files >= 2
                         THEN prepared.content ELSE None
             report == [run |-> c.run, bundle |-> c.bundle, bindings |-> bindings,
                        selected |-> {}]
             next(at) == [op |-> "build", at |-> at, report |-> report]
  <2>1. /\ c.at = "bind"
        /\ \/ Reporting!Become(p, next("select"))
           \/ Reporting!Become(p, next("made"))
           \/ Reporting!Become(p, Reporting!Idle)
        /\ UNCHANGED <<run, known, dir, approvals>>
    BY <1>4 DEF Reporting!LoadBindings
  <2>2. c.run \in Reporting!Snapshots \cup {None} /\ c.bundle \in SUBSET Work
    BY <1>1, <2>1 DEF CommandOk, Loads
  <2>3. bindings \in Reporting!BindingsTexts \cup {None}
    BY <1>2
  <2> HIDE DEF bindings, c, prepared
  <2>4. report \in Reporting!ReportTexts /\ report.selected = {}
    BY <2>2, <2>3 DEF Reporting!ReportTexts
  <2> HIDE DEF report
  <2>5. CommandOk(next("select")) /\ CommandOk(next("made"))
    BY <2>4, MadeOk DEF Honest
  <2> HIDE DEF next
  <2> QED
    BY <2>1, <2>5, IdleOk, CommandMoves
<1> QED
  BY <1>3, <1>4

LEMMA Selecting ==
    ASSUME ReportsInv, NEW p \in Processes,
           Reporting!Select(p) \/ Reporting!SelectsNothing(p) \/ Reporting!Made(p)
    PROVE  ReportsInv'
<1> DEFINE c == command[p]
<1>1. CommandOk(c)
  BY Typed
<1>2. CASE Reporting!Select(p)
  <2>1. PICK record \in known :
            /\ c.at = "select"
            /\ IF Reporting!Selectable(record)
               THEN Reporting!Become(p, [op |-> "build", at |-> "made",
                        report |-> [c.report EXCEPT !.selected =
                            {[record |-> record,
                              originals |-> Reporting!Ids(Reporting!OriginalsOf(record.case))]}]])
               ELSE Reporting!Become(p, Reporting!Idle)
            /\ UNCHANGED <<run, known, dir, approvals>>
    BY <1>2 DEF Reporting!Select
  <2>2. CASE ~Reporting!Selectable(record)
    BY <2>1, <2>2, IdleOk, CommandMoves
  <2>3. CASE Reporting!Selectable(record)
    <3> DEFINE basis == Reporting!Ids(Reporting!OriginalsOf(record.case))
               choice == [record |-> record, originals |-> basis]
               report == [c.report EXCEPT !.selected = {choice}]
    <3>1. c.report \in Reporting!ReportTexts
      BY <1>1, <2>1 DEF CommandOk, Makes
    <3>2. basis \in SUBSET Reporting!AllIds /\ record \in Reporting!Records
      BY DEF ReportsInv, Reporting!Ids, Reporting!OriginalsOf, Reporting!Records
    <3>3. record.kind = "adjudication" => record.based_on = basis
      BY <2>3 DEF Reporting!Selectable
    <3>4. Reporting!Become(p, [op |-> "build", at |-> "made", report |-> report])
      BY <2>1, <2>3
    <3> HIDE DEF basis
    <3>5. choice \in [record : Reporting!Records, originals : SUBSET Reporting!AllIds]
          /\ choice.record = record /\ choice.originals = basis
      BY <3>2
    <3> HIDE DEF choice, c
    <3>6. report \in Reporting!ReportTexts /\ report.selected = {choice}
      BY <3>1, <3>5 DEF Reporting!ReportTexts
    <3> HIDE DEF report
    <3>7. Honest(report)
      BY <3>3, <3>5, <3>6 DEF Honest
    <3>8. CommandOk([op |-> "build", at |-> "made", report |-> report])
      BY <3>6, <3>7, MadeOk
    <3> QED
      BY <2>1, <3>4, <3>8, CommandMoves
  <2> QED
    BY <2>2, <2>3
<1>3. CASE Reporting!SelectsNothing(p)
  <2>1. /\ c.at = "select" /\ Reporting!Become(p, [c EXCEPT !.at = "made"])
        /\ UNCHANGED <<run, known, dir, approvals>>
    BY <1>3 DEF Reporting!SelectsNothing
  <2>2. c = [op |-> c.op, at |-> c.at, report |-> c.report]
        /\ c.report \in Reporting!ReportTexts /\ Honest(c.report)
    BY <1>1, <2>1 DEF CommandOk, Makes
  <2> DEFINE next == [c EXCEPT !.at = "made"]
  <2> HIDE DEF c
  <2>3. next = [op |-> c.op, at |-> "made", report |-> c.report]
    BY <2>2
  <2>4. CommandOk(next)
    <3> HIDE DEF next
    <3> QED
      BY <2>2, <2>3 DEF CommandOk, Loads, Makes, Written, There
  <2> QED
    BY <2>1, <2>4, CommandMoves
<1>4. CASE Reporting!Made(p)
  <2>1. /\ c.at = "made"
        /\ \/ Reporting!Become(p, Reporting!Writes("build", "report", c.report, None))
           \/ Reporting!Become(p, Reporting!Idle)
        /\ UNCHANGED <<run, known, dir, approvals>>
    BY <1>4 DEF Reporting!Made
  <2>2. Proper("report", c.report, None)
    BY <1>1, <2>1 DEF CommandOk, Makes, Proper, Reporting!Dirs
  <2>3. CommandOk(Reporting!Writes("build", "report", c.report, None))
    BY <2>2, WritesOk
  <2> QED
    BY <2>1, <2>3, IdleOk, CommandMoves
<1> QED
  BY <1>2, <1>3, <1>4

LEMMA FileNumbers ==
    \A d : Reporting!FileCount(d) \in Nat
BY DEF Reporting!FileCount

(* The end of a command, its death, and its progress when no file is written. *)
LEMMA Ends ==
    ASSUME ReportsInv, NEW p \in Processes,
           Reporting!Finish(p) \/ Reporting!Return(p) \/ Reporting!Dies(p)
    PROVE  ReportsInv'
<1> DEFINE c == command[p]
<1>1. CommandOk(c)
  BY Typed
<1>2. CASE Reporting!Return(p) \/ Reporting!Dies(p)
  <2>1. Reporting!Become(p, Reporting!Idle) /\ UNCHANGED <<run, known, dir, approvals>>
    BY <1>2 DEF Reporting!Return, Reporting!Dies
  <2> QED
    BY <2>1, IdleOk, CommandMoves
<1>3. CASE Reporting!Finish(p)
  <2>1. PICK at \in {"done", "refused"} :
            /\ c.at = "write" /\ dir[c.d].files = Reporting!FileCount(c.d)
            /\ Reporting!Become(p, [c EXCEPT !.at = at])
            /\ UNCHANGED <<run, known, dir, approvals>>
    BY <1>3 DEF Reporting!Finish
  <2>2. /\ c = [op |-> c.op, at |-> c.at, d |-> c.d, content |-> c.content, source |-> c.source]
        /\ Proper(c.d, c.content, c.source)
        /\ dir[c.d] # None /\ dir[c.d].content = c.content
    BY <1>1, <2>1 DEF CommandOk, Written, There
  <2> DEFINE next == [c EXCEPT !.at = at]
  <2> HIDE DEF c
  <2>3. next = [op |-> c.op, at |-> at, d |-> c.d, content |-> c.content, source |-> c.source]
    BY <2>2
  <2> HIDE DEF next
  <2>4. /\ next = [op |-> next.op, at |-> next.at, d |-> next.d, content |-> next.content,
                   source |-> next.source]
        /\ next.at = at /\ next.d = c.d /\ next.content = c.content /\ next.source = c.source
    BY <2>3
  <2>5. CommandOk(next)
    BY <2>1, <2>2, <2>4 DEF CommandOk, Loads, Makes, Written, There
  <2> QED
    BY <2>1, <2>5, CommandMoves DEF next
<1> QED
  BY <1>2, <1>3

(* What the commands do and what is in the other directories does not depend  *)
(* on a directory that no command writes to or has just written.              *)
LEMMA DirMoves ==
    ASSUME ReportsInv, UNCHANGED <<run, known, approvals>>, NEW d \in Reporting!Dirs, NEW value,
           dir' = [dir EXCEPT ![d] = value]
    PROVE  /\ dir' = [e \in Reporting!Dirs |-> dir'[e]]
           /\ \A e \in Reporting!Dirs : dir'[e] = IF e = d THEN value ELSE dir[e]
           /\ \A e \in Reporting!Dirs : e # d => DirOk(e)'
           /\ \A e, content, source : Proper(e, content, source) => Proper(e, content, source)'
           /\ \A c : CommandOk(c) /\ There(c)' => CommandOk(c)'
           /\ \A c : CommandOk(c) /\ (c.at \in {"write", "done"} => c.d # d) => CommandOk(c)'
<1>1. /\ dir' = [e \in Reporting!Dirs |-> dir'[e]]
      /\ \A e \in Reporting!Dirs : dir'[e] = IF e = d THEN value ELSE dir[e]
  BY Replaced DEF ReportsInv
<1>2. \A e, content, source : Proper(e, content, source) => Proper(e, content, source)'
  BY DEF Proper, Honest, Signed, Free
<1>3. \A e \in Reporting!Dirs : e # d => DirOk(e)'
  BY <1>1, <1>2 DEF ReportsInv, DirOk
<1>4. ASSUME NEW c, CommandOk(c), There(c)'
      PROVE  CommandOk(c)'
  BY <1>2, <1>4 DEF CommandOk, Loads, Makes, Written, Honest
<1>5. ASSUME NEW c, CommandOk(c), c.at \in {"write", "done"} => c.d # d
      PROVE  CommandOk(c)'
  <2>1. c.at \in {"write", "done"} => c.d \in Reporting!Dirs
    BY <1>5 DEF CommandOk, Written, Proper
  <2>2. There(c)'
    BY <1>1, <1>5, <2>1 DEF CommandOk, There
  <2> QED
    BY <1>4, <1>5, <2>2
<1> QED
  BY <1>1, <1>2, <1>3, <1>4, <1>5

LEMMA Creates ==
    ASSUME ReportsInv, NEW p \in Processes, Reporting!Create(p)
    PROVE  ReportsInv'
<1>c. PICK c : c = command[p]
  OBVIOUS
<1>1. CommandOk(c) /\ c.at = "create"
  BY <1>c, Typed DEF Reporting!Create
<1>2. /\ c = [op |-> c.op, at |-> c.at, d |-> c.d, content |-> c.content, source |-> c.source]
      /\ Proper(c.d, c.content, c.source) /\ c.d \in Reporting!Dirs
  BY <1>1 DEF CommandOk, Written, Proper
<1>3. CASE dir[c.d] # None
  <2>1. Reporting!Become(p, Reporting!Idle) /\ UNCHANGED <<run, known, dir, approvals>>
    BY <1>c, <1>3 DEF Reporting!Create
  <2> QED
    BY <2>1, IdleOk, CommandMoves
<1>4. CASE dir[c.d] = None
  <2>d. PICK d : d = c.d
    OBVIOUS
  <2>m. PICK made : made = [content |-> c.content, source |-> c.source, files |-> 0]
    OBVIOUS
  <2>n. PICK next : next = [c EXCEPT !.at = "write"]
    OBVIOUS
  <2>1. /\ dir' = [dir EXCEPT ![d] = made] /\ command' = [command EXCEPT ![p] = next]
        /\ UNCHANGED <<run, known, approvals>>
    BY <1>c, <1>4, <2>d, <2>m, <2>n DEF Reporting!Create, Reporting!Become
  <2>2. next = [op |-> c.op, at |-> "write", d |-> d, content |-> c.content, source |-> c.source]
    BY <1>2, <2>d, <2>n
  <2>3. /\ next = [op |-> next.op, at |-> next.at, d |-> next.d, content |-> next.content,
                   source |-> next.source]
        /\ next.at = "write" /\ next.d = d /\ next.content = c.content /\ next.source = c.source
    BY <2>2
  <2>4. /\ made \in Reporting!Directories /\ made # None
        /\ made.content = c.content /\ made.source = c.source
    <3>1. /\ c.content \in Reporting!BindingsTexts \cup Reporting!ReportTexts
                                 \cup Reporting!ProjectionTexts
          /\ c.source \in Reporting!ReportTexts \cup {None}
      BY <1>2 DEF Proper, Reporting!Dirs
    <3>2. made \in Reporting!Directories /\ made.content = c.content /\ made.source = c.source
      BY <2>m, <3>1 DEF Reporting!Directories
    <3> QED
      BY <3>2, ReportsAssumption
  <2>5. /\ dir' = [e \in Reporting!Dirs |-> dir'[e]]
        /\ \A e \in Reporting!Dirs : dir'[e] = IF e = d THEN made ELSE dir[e]
        /\ \A e \in Reporting!Dirs : e # d => DirOk(e)'
        /\ \A e, content, source : Proper(e, content, source) => Proper(e, content, source)'
        /\ \A k : CommandOk(k) /\ (k.at \in {"write", "done"} => k.d # d) => CommandOk(k)'
    BY <1>2, <2>d, <2>1, DirMoves
  <2>6. \A q \in Processes : command[q].at \in {"write", "done"} => command[q].d # d
    BY <1>4, <2>d, Typed DEF CommandOk, There
  <2>7. /\ command' = [q \in Processes |-> command'[q]]
        /\ \A q \in Processes : command'[q] = IF q = p THEN next ELSE command[q]
    BY <2>1, Replaced DEF ReportsInv
  <2>8. DirOk(d)'
    BY <1>2, <2>d, <2>4, <2>5 DEF DirOk
  <2>9. CommandOk(next)'
    <3>1. There(next)'
      BY <1>2, <2>d, <2>3, <2>4, <2>5 DEF There
    <3>2. Proper(next.d, next.content, next.source)'
      BY <1>2, <2>d, <2>3, <2>5
    <3> QED
      BY <2>3, <3>1, <3>2 DEF CommandOk, Loads, Makes, Written
  <2>10. \A q \in Processes : CommandOk(command[q])'
    <3> TAKE q \in Processes
    <3>1. CASE q = p
      BY <2>7, <2>9, <3>1
    <3>2. CASE q # p
      <4>1. PICK k : k = command[q]
        OBVIOUS
      <4>2. CommandOk(k)'
        BY <2>5, <2>6, <4>1, Typed
      <4> QED
        BY <2>7, <3>2, <4>1, <4>2
    <3> QED
      BY <3>1, <3>2
  <2>11. \A e \in Reporting!Dirs : DirOk(e)'
    BY <2>5, <2>8
  <2> QED
    BY <2>1, <2>5, <2>7, <2>10, <2>11 DEF ReportsInv
<1> QED
  BY <1>3, <1>4

LEMMA WritesFile ==
    ASSUME ReportsInv, NEW p \in Processes, Reporting!Write(p)
    PROVE  ReportsInv'
<1>c. PICK c : c = command[p]
  OBVIOUS
<1>d. PICK d : d = c.d
  OBVIOUS
<1>o. PICK old : old = dir[d]
  OBVIOUS
<1>v. PICK value : value = [old EXCEPT !.files = @ + 1]
  OBVIOUS
<1>1. /\ CommandOk(c) /\ c.at = "write" /\ old.files < Reporting!FileCount(d)
      /\ dir' = [dir EXCEPT ![d] = value] /\ UNCHANGED <<run, known, command, approvals>>
  BY <1>c, <1>d, <1>o, <1>v, Typed DEF Reporting!Write
<1>2. d \in Reporting!Dirs /\ old # None
  BY <1>1, <1>d, <1>o DEF CommandOk, Written, There, Proper
<1>3. old \in Reporting!Directories /\ Proper(d, old.content, old.source)
  BY <1>2, <1>o, Typed
<1>4. /\ value \in Reporting!Directories /\ value # None
      /\ value.content = old.content /\ value.source = old.source
  BY <1>3, <1>v, ReportsAssumption DEF Reporting!Directories
<1>5. /\ dir' = [e \in Reporting!Dirs |-> dir'[e]]
      /\ \A e \in Reporting!Dirs : dir'[e] = IF e = d THEN value ELSE dir[e]
      /\ \A e \in Reporting!Dirs : e # d => DirOk(e)'
      /\ \A e, content, source : Proper(e, content, source) => Proper(e, content, source)'
      /\ \A k : CommandOk(k) /\ There(k)' => CommandOk(k)'
      /\ \A k : CommandOk(k) /\ (k.at \in {"write", "done"} => k.d # d) => CommandOk(k)'
  BY <1>1, <1>2, DirMoves
<1>6. DirOk(d)'
  BY <1>2, <1>3, <1>4, <1>5 DEF DirOk
<1>7. \A q \in Processes : CommandOk(command[q])'
  <2> TAKE q \in Processes
  <2>1. PICK k : k = command[q]
    OBVIOUS
  <2>2. CommandOk(k)
    BY <2>1, Typed
  <2>3. CASE k.at \in {"write", "done"} /\ k.d = d
    <3>1. k.at # "done" /\ old.content = k.content
      BY <1>1, <1>3, <1>o, <2>2, <2>3, FileNumbers DEF CommandOk, There, Reporting!Directories
    <3>2. There(k)'
      BY <1>2, <1>4, <1>5, <2>3, <3>1 DEF There
    <3>3. CommandOk(k)'
      BY <1>5, <2>2, <3>2
    <3> QED
      BY <1>1, <2>1, <3>3
  <2>4. CASE ~(k.at \in {"write", "done"} /\ k.d = d)
    <3>1. CommandOk(k)'
      BY <1>5, <2>2, <2>4
    <3> QED
      BY <1>1, <2>1, <3>1
  <2> QED
    BY <2>3, <2>4
<1>8. \A e \in Reporting!Dirs : DirOk(e)'
  BY <1>5, <1>6
<1> QED
  BY <1>1, <1>5, <1>7, <1>8 DEF ReportsInv

LEMMA Removes ==
    ASSUME ReportsInv, NEW d \in Reporting!Dirs, Reporting!Remove(d)
    PROVE  ReportsInv'
<1>1. /\ dir' = [dir EXCEPT ![d] = None] /\ UNCHANGED <<run, known, command, approvals>>
      /\ \A p \in Processes : command[p].at \in {"write", "done"} => command[p].d # d
  BY DEF Reporting!Remove
<1>2. /\ dir' = [e \in Reporting!Dirs |-> dir'[e]]
      /\ \A e \in Reporting!Dirs : dir'[e] = IF e = d THEN None ELSE dir[e]
      /\ \A e \in Reporting!Dirs : e # d => DirOk(e)'
      /\ \A k : CommandOk(k) /\ (k.at \in {"write", "done"} => k.d # d) => CommandOk(k)'
  BY <1>1, DirMoves
<1>3. \A q \in Processes : CommandOk(command[q])'
  <2> TAKE q \in Processes
  <2>1. PICK k : k = command[q]
    OBVIOUS
  <2>2. CommandOk(k)'
    BY <1>1, <1>2, <2>1, Typed
  <2> QED
    BY <1>1, <2>1, <2>2
<1>4. \A e \in Reporting!Dirs : DirOk(e)'
  BY <1>2 DEF DirOk
<1> QED
  BY <1>1, <1>2, <1>3, <1>4 DEF ReportsInv

LEMMA Approves ==
    ASSUME ReportsInv, NEW selection \in Selections, Reporting!Approve(selection)
    PROVE  ReportsInv'
<1>1. PICK report, projection :
          approvals' = approvals \cup
              {[source |-> report, selection |-> selection, projection |-> projection]}
  BY DEF Reporting!Approve
<1>2. UNCHANGED <<run, known, dir, command>>
  BY DEF Reporting!Approve
<1>3. \A content, source : Signed(content, source) => Signed(content, source)'
  BY <1>1 DEF Signed
<1>4. \A e, content, source : Proper(e, content, source) => Proper(e, content, source)'
  BY <1>3 DEF Proper, Honest, Free
<1>5. \A d \in Reporting!Dirs : DirOk(d)'
  BY <1>2, <1>4 DEF ReportsInv, DirOk
<1>6. \A p \in Processes : CommandOk(command[p])'
  BY <1>2, <1>4 DEF ReportsInv, CommandOk, Loads, Makes, Written, There, Honest
<1>7. \A approval \in approvals' : approval.selection \in Selections
  BY <1>1 DEF ReportsInv
<1> QED
  BY <1>2, <1>5, <1>6, <1>7 DEF ReportsInv

LEMMA ReportsStep ==
    ASSUME ReportsInv, [Reporting!Next]_reportVars
    PROVE  ReportsInv'
<1>1. CASE UNCHANGED reportVars
  BY <1>1 DEF reportVars, ReportsInv, DirOk, CommandOk, Loads, Makes, Written, There, Proper,
      Honest, Signed, Free
<1>2. CASE Reporting!Next
  <2>1. \/ \/ \E w \in Work : Reporting!Progress(w)
           \/ \E original \in Originals : Reporting!Import(original)
           \/ \E id \in Adjudications, w \in Work : Reporting!Adjudicate(id, w)
        \/ \E p \in Processes :
              \/ \/ Reporting!Prepare(p)
                 \/ \E inputs \in Reporting!Inputs : Reporting!Build(p, inputs)
                 \/ Reporting!Replay(p) \/ \E approval \in approvals : Reporting!Export(p, approval)
              \/ Reporting!LoadBundle(p) \/ Reporting!LoadBindings(p)
              \/ Reporting!Select(p) \/ Reporting!SelectsNothing(p) \/ Reporting!Made(p)
              \/ Reporting!Create(p) \/ Reporting!Write(p)
              \/ Reporting!Finish(p) \/ Reporting!Return(p) \/ Reporting!Dies(p)
        \/ \E selection \in Selections : Reporting!Approve(selection)
        \/ \E d \in Removable : Reporting!Remove(d)
    BY <1>2 DEF Reporting!Next
  <2> QED
    BY <2>1, ReportsAssumption, RunSteps, Starts, Loadings, Selecting, Creates, WritesFile, Ends,
       Removes, Approves
<1> QED
  BY <1>1, <1>2

LEMMA ReportsInit ==
    ASSUME Reporting!Init
    PROVE  ReportsInv
<1>1. /\ run = [w \in Work |-> "planned"] /\ known = {} /\ approvals = {}
      /\ dir = [d \in Reporting!Dirs |-> None]
      /\ command = [p \in Processes |-> Reporting!Idle]
  BY DEF Reporting!Init
<1>2. run \in Reporting!Snapshots
  BY <1>1 DEF Reporting!Snapshots, Reporting!RunStates
<1> QED
  BY <1>1, <1>2, IdleOk DEF ReportsInv, DirOk

-----------------------------------------------------------------------------
LEMMA ReportsAreRight ==
    ASSUME ReportsInv
    PROVE  /\ Reporting!ScoredOnItsRun /\ Reporting!AdjudicationIsCurrent
           /\ Reporting!DoneIsWhole /\ Reporting!NothingPromoted
<1>1. ASSUME NEW d \in Reporting!PrivateReports
      PROVE  /\ d \in {"report", "copy"} /\ Honest(dir[d].content)
             /\ Reporting!ValidReport(dir[d].content)
  <2>1. d \in {"report", "copy"} /\ Reporting!Readable(d)
    BY DEF Reporting!PrivateReports
  <2>2. dir[d] # None /\ Reporting!ValidReport(dir[d].content) /\ d \in Reporting!Dirs
    BY <2>1 DEF Reporting!Readable, Reporting!Dirs
  <2> QED
    BY <2>1, <2>2, Typed DEF Proper
<1>2. Reporting!ScoredOnItsRun
  <2> SUFFICES ASSUME NEW d \in Reporting!PrivateReports, NEW report,
                      report = dir[d].content, report.run # None, report.bundle # None
               PROVE  /\ report.bundle =
                            {w \in Work : report.run[w] = "completed" /\ Role[w] # "reviewer"}
                      /\ report.bindings.snapshot = report.run
    BY DEF Reporting!ScoredOnItsRun
  <2>1. report.bundle = Reporting!Cases(report.run)
        /\ report.bindings = Reporting!Bindings(report.run)
    BY <1>1 DEF Reporting!ValidReport, Reporting!Bound
  <2> QED
    BY <2>1 DEF Reporting!Cases, Reporting!Bindings
<1>3. Reporting!AdjudicationIsCurrent
  BY <1>1 DEF Reporting!AdjudicationIsCurrent, Honest
<1>4. Reporting!DoneIsWhole
  BY Typed DEF Reporting!DoneIsWhole, CommandOk, There
<1>5. ASSUME NEW report, Reporting!ValidReport(report), report.run # None,
             NEW role \in Reporting!Roles
      PROVE  /\ \A w \in Reporting!Evidence(report) : report.run[w] = "completed"
             /\ Reporting!Panel(report, role).covered
                   <= Reporting!Panel(report, role).counts["completed"]
  <2> DEFINE covered == Reporting!Covered(report, role)
             completed == {w \in Reporting!RowsOf(report, role) : report.run[w] = "completed"}
  <2>1. \A w \in Reporting!Evidence(report) : report.run[w] = "completed"
    BY <1>5 DEF Reporting!Evidence
  <2>2. report.bundle # None => report.bundle = Reporting!Cases(report.run)
    BY <1>5 DEF Reporting!ValidReport, Reporting!Bound
  <2>3. covered \subseteq completed /\ completed \subseteq Work
    BY <1>5, <2>2 DEF Reporting!Covered, Reporting!Cases, Reporting!RowsOf
  <2>4. Cardinality(covered) <= Cardinality(completed)
    <3> HIDE DEF covered, completed
    <3> QED
      BY <2>3, ReportsAssumption, FS_Subset
  <2>5. Reporting!Panel(report, role).covered = Cardinality(covered)
        /\ Reporting!Panel(report, role).counts["completed"] = Cardinality(completed)
    <3> HIDE DEF covered
    <3> QED
      BY SameCardinality DEF Reporting!Panel, Reporting!RunStates, covered
  <2> QED
    BY <2>1, <2>4, <2>5
<1>6. Reporting!NothingPromoted
  <2> SUFFICES ASSUME NEW d \in Reporting!PrivateReports, dir[d].content.run # None
               PROVE  /\ \A w \in Reporting!Evidence(dir[d].content) :
                            dir[d].content.run[w] = "completed"
                      /\ \A role \in Reporting!Roles :
                            Reporting!Panel(dir[d].content, role).covered
                            <= Reporting!Panel(dir[d].content, role).counts["completed"]
    BY DEF Reporting!NothingPromoted
  <2>1. Reporting!Roles # {}
    BY DEF Reporting!Roles
  <2> QED
    BY <1>1, <1>5, <2>1
<1> QED
  BY <1>2, <1>3, <1>4, <1>6

LEMMA ReleasesAreRight ==
    ASSUME ReportsInv
    PROVE  Reporting!ReleasedAsApproved /\ Reporting!ReleasedEvidenceIsFree
<1>1. Reporting!Readable("release") =>
          /\ Signed(dir["release"].content, dir["release"].source)
          /\ Free(dir["release"].content, dir["release"].source)
  BY Typed DEF Reporting!Readable, Proper, Reporting!Dirs
<1> QED
  BY <1>1 DEF Reporting!ReleasedAsApproved, Reporting!ReleasedEvidenceIsFree, Signed, Free

LEMMA ReportsInvariant ==
    AnnotationsSpec => [](subject \in {"reports", "release"} => ReportsInv)
<1> DEFINE I == subject \in {"reports", "release"} => ReportsInv
<1>1. AnnotationsInit => I
  BY ReportsInit DEF AnnotationsInit
<1>2. I /\ [AnnotationsNext]_allVars => I'
  <2> SUFFICES ASSUME I, [AnnotationsNext]_allVars, subject' \in {"reports", "release"}
               PROVE  ReportsInv'
    OBVIOUS
  <2>1. subject \in {"reports", "release"} /\ [Reporting!Next]_reportVars
    BY DEF AnnotationsNext, allVars
  <2> QED
    BY <2>1, ReportsStep
<1> QED
  BY <1>1, <1>2, PTL DEF AnnotationsSpec

(* A report that can be read shows one run with the scores of that run and no  *)
(* adjudication that was stale, and what a command reports as written is      *)
(* there, although build_report reads the snapshot, the bundle, the bindings  *)
(* and the records one after another while all of them may change.           *)
THEOREM ReportsStayCurrent == AnnotationsSpec => []ReportsAreCurrent
<1>1. (subject \in {"reports", "release"} => ReportsInv) => ReportsAreCurrent
  BY ReportsAreRight DEF ReportsAreCurrent
<1> QED
  BY <1>1, ReportsInvariant, PTL

(* Whatever is removed and rebuilt between the check and the export, a release *)
(* is the projection that was signed of the very report it was signed for,     *)
(* and its evidence is completed work that may leave (_export compares the     *)
(* approval with the report it reads then).                                  *)
THEOREM ReleasesStayApproved == AnnotationsSpec => []ReleasesAreApproved
<1>1. (subject \in {"reports", "release"} => ReportsInv) => ReleasesAreApproved
  BY ReleasesAreRight DEF ReleasesAreApproved
<1> QED
  BY <1>1, ReportsInvariant, PTL

(* A behaviour of the whole is one of the store: what is proved of the store    *)
(* alone (append and its transactions) holds of it.                           *)
THEOREM StoreIsPart == AnnotationsSpec => Spec
<1>1. AnnotationsInit => Init
  BY DEF AnnotationsInit
<1>2. [AnnotationsNext]_allVars => [Next]_vars
  BY DEF AnnotationsNext, allVars
<1> QED
  BY <1>1, <1>2, PTL DEF AnnotationsSpec, Spec

=============================================================================
