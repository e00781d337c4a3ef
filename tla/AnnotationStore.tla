-------------------------- MODULE AnnotationStore --------------------------
(***************************************************************************)
(* The custody of annotation records: class AnnotationStore of             *)
(* src/draftbench/annotation_store.py, an append-only SQLite file.  Several *)
(* connections, one per process, import batches of records; a batch is one  *)
(* transaction that inserts its records one by one.  A process can die      *)
(* anywhere, which leaves the rollback journal of its transaction behind.   *)
(*                                                                         *)
(* A record stands for its canonical bytes, `bytes' for their number.  The  *)
(* time of arrival, which no comparison looks at, is left out, and so are   *)
(* the checks of paths, permissions, hashes and of the schema's text.       *)
(***************************************************************************)
EXTENDS Integers, Sequences, SequencesExt

CONSTANTS
    Processes,
    Batches,          \* the lists of records that callers import
    MaxBatchRecords,  \* MAX_BATCH_RECORDS
    MaxRecordBytes,   \* MAX_RECORD_BYTES
    MaxTotalBytes,    \* MAX_TOTAL_BYTES
    MaxRecords,       \* MAX_RECORDS
    None

ASSUME NoneAssumption == None \notin Processes

ASSUME LimitsAssumption ==
    {MaxBatchRecords, MaxRecordBytes, MaxTotalBytes, MaxRecords} \subseteq Nat

(* A record is [record_id, kind, task_id, body, bytes]. *)
ASSUME BatchesAssumption ==
    \A batch \in Batches :
        batch \in Seq([record_id : STRING, kind : {"original", "adjudication"},
                       task_id : STRING, body : STRING, bytes : Nat \ {0}])

VARIABLES
    file,      \* "absent", "created" (its schema is not committed) or "ready"
    journal,   \* the rollback journal: "none", "live" or "hot" (its writer died)
    rows,      \* the committed rows of table records, by position
    writer,    \* the process inside a write transaction
    pending,   \* the rows that its transaction has inserted
    process    \* process[p]: [state, batch, at]

vars == <<file, journal, rows, writer, pending, process>>

States == {"out", "creating", "open", "readonly", "append", "insert", "imported", "refused"}

Entries == UNION {ToSet(batch) : batch \in Batches}

-----------------------------------------------------------------------------
TotalBytes(records) == FoldLeft(LAMBDA sum, record : sum + record.bytes, 0, records)

DistinctIds(records) ==
    \A i, j \in DOMAIN records : records[i].record_id = records[j].record_id => i = j

(* _prepare_batch: what is refused before the file is looked at. *)
Prepared(batch) ==
    /\ Len(batch) <= MaxBatchRecords
    /\ \A i \in DOMAIN batch : batch[i].bytes <= MaxRecordBytes
    /\ TotalBytes(batch) <= MaxTotalBytes
    /\ DistinctIds(batch)

(* _bounds and _verify: what every open and every read demands of the rows. *)
Verifies ==
    /\ Len(rows) <= MaxRecords
    /\ TotalBytes(rows) <= MaxTotalBytes
    /\ \A i \in DOMAIN rows : rows[i].bytes <= MaxRecordBytes
    /\ DistinctIds(rows)

Present == rows \o pending

Duplicate(record) == record \in ToSet(Present)

Conflict(record) ==
    /\ ~Duplicate(record)
    /\ \E i \in DOMAIN Present : Present[i].record_id = record.record_id

(* Mutant: the bound is compared with what was there before. *)
Room_late(record) ==
    /\ Len(Present) <= MaxRecords
    /\ TotalBytes(Present) <= MaxTotalBytes

Room(record) ==
    /\ Len(Present) + 1 <= MaxRecords
    /\ TotalBytes(Present) + record.bytes <= MaxTotalBytes

Idle(state) == [state |-> state, batch |-> <<>>, at |-> 1]

At(p, state) == process[p].state = state

Become(p, state) == process' = [process EXCEPT ![p].state = state]

(* SQLite rolls the journal of a dead writer back before it reads or writes. *)
Recovered == IF journal = "hot" THEN "none" ELSE journal

-----------------------------------------------------------------------------
Init ==
    /\ file = "absent" /\ journal = "none"
    /\ rows = <<>> /\ pending = <<>> /\ writer = None
    /\ process = [p \in Processes |-> Idle("out")]

(* create: an exclusive open, then the schema in one transaction.  Callers   *)
(* hold the session's lock, so nobody opens the file meanwhile.  A sidecar   *)
(* without its database is never taken over.                                *)
Create(p) ==
    /\ At(p, "out")
    /\ IF file = "absent" /\ journal = "none"
       THEN /\ Become(p, "creating")
            /\ file' = "created" /\ journal' = "live" /\ writer' = p
       ELSE /\ Become(p, "refused")
            /\ UNCHANGED <<file, journal, writer>>
    /\ UNCHANGED <<rows, pending>>

CreateCommits(p) ==
    /\ At(p, "creating")
    /\ Become(p, "open")
    /\ file' = "ready" /\ journal' = "none" /\ writer' = None
    /\ UNCHANGED <<rows, pending>>

(* An error: the connection is closed and the file unlinked. *)
CreateFails(p) ==
    /\ At(p, "creating")
    /\ Become(p, "refused")
    /\ file' = "absent" /\ journal' = "none" /\ writer' = None
    /\ UNCHANGED <<rows, pending>>

Unlocked == \A q \in Processes : ~At(q, "creating")

(* open: a file that holds no schema is corrupt; a writable connection rolls *)
(* the journal back first, a read-only one refuses any.                      *)
Open(p) ==
    /\ At(p, "out") /\ Unlocked
    /\ Become(p, IF file = "ready" /\ Verifies THEN "open" ELSE "refused")
    /\ journal' = IF file = "absent" THEN journal ELSE Recovered
    /\ UNCHANGED <<file, rows, writer, pending>>

OpenReadonly(p) ==
    /\ At(p, "out") /\ Unlocked
    /\ Become(p, IF file = "ready" /\ journal = "none" /\ Verifies
                 THEN "readonly" ELSE "refused")
    /\ UNCHANGED <<file, journal, rows, writer, pending>>

(* append, before its transaction. *)
Submit(p, batch) ==
    /\ process[p].state \in {"open", "readonly"}
    /\ process' = [process EXCEPT ![p] =
           [state |-> IF Prepared(batch) /\ At(p, "open") THEN "append" ELSE "refused",
            batch |-> batch, at |-> 1]]
    /\ UNCHANGED <<file, journal, rows, writer, pending>>

(* BEGIN IMMEDIATE and _bounds. *)
Begin(p) ==
    /\ At(p, "append") /\ writer = None /\ Verifies
    /\ Become(p, "insert")
    /\ writer' = p /\ journal' = Recovered
    /\ UNCHANGED <<file, rows, pending>>

(* Another writer is inside for longer than the busy timeout. *)
Busy(p) ==
    /\ At(p, "append") /\ writer # None
    /\ Become(p, "refused")
    /\ UNCHANGED <<file, journal, rows, writer, pending>>

Unfinished(p) == At(p, "insert") /\ process[p].at <= Len(process[p].batch)

Advance(p) == process' = [process EXCEPT ![p].at = @ + 1]

(* One record of the loop of append. *)
Keep(p) ==
    /\ Unfinished(p)
    /\ LET record == process[p].batch[process[p].at] IN
          \/ /\ Duplicate(record)
             /\ UNCHANGED <<journal, pending>>
          \/ /\ ~Duplicate(record) /\ ~Conflict(record) /\ Room(record)
             /\ pending' = Append(pending, record)
             /\ journal' = "live"
    /\ Advance(p)
    /\ UNCHANGED <<file, rows, writer>>

(* Mutant: what the loop has inserted before it met the error is committed. *)
Rollback_partial == rows' = rows \o pending

Rollback == UNCHANGED rows

End(p, state) ==
    /\ Become(p, state)
    /\ journal' = "none" /\ writer' = None /\ pending' = <<>>
    /\ UNCHANGED file

Refuse(p) ==
    /\ Unfinished(p)
    /\ LET record == process[p].batch[process[p].at] IN
          /\ ~Duplicate(record)
          /\ Conflict(record) \/ ~Room(record)
    /\ End(p, "refused") /\ Rollback

Commit(p) ==
    /\ At(p, "insert") /\ ~Unfinished(p)
    /\ End(p, "imported")
    /\ rows' = rows \o pending

(* COMMIT fails, the disk is full, the process is interrupted. *)
Abort(p) ==
    /\ At(p, "insert")
    /\ End(p, "refused") /\ Rollback

(* The caller leaves and calls again; the batch is forgotten. *)
Close(p) ==
    /\ process[p].state \in {"open", "readonly", "imported", "refused"}
    /\ process' = [process EXCEPT ![p] = Idle("out")]
    /\ UNCHANGED <<file, journal, rows, writer, pending>>

(* Death.  Inside COMMIT it may come after the journal was deleted, which is *)
(* the moment when the transaction counts.                                  *)
Dies(p) ==
    /\ ~At(p, "out")
    /\ process' = [process EXCEPT ![p] = Idle("out")]
    /\ IF writer = p
       THEN /\ writer' = None /\ pending' = <<>>
            /\ \/ /\ journal' = IF journal = "live" THEN "hot" ELSE journal
                  /\ UNCHANGED <<file, rows>>
               \/ /\ At(p, "insert") /\ ~Unfinished(p)
                  /\ rows' = rows \o pending /\ journal' = "none"
                  /\ UNCHANGED file
               \/ /\ At(p, "creating")
                  /\ file' = "ready" /\ journal' = "none"
                  /\ UNCHANGED rows
       ELSE UNCHANGED <<file, journal, rows, writer, pending>>

Next ==
    \E p \in Processes :
        \/ Create(p) \/ CreateCommits(p) \/ CreateFails(p)
        \/ Open(p) \/ OpenReadonly(p)
        \/ \E batch \in Batches : Submit(p, batch)
        \/ Begin(p) \/ Busy(p) \/ Keep(p) \/ Refuse(p) \/ Commit(p) \/ Abort(p)
        \/ Close(p) \/ Dies(p)

Spec == Init /\ [][Next]_vars

-----------------------------------------------------------------------------
(* Rows and inserted rows are records; only the writer has inserted any, and *)
(* a journal that is not hot belongs to a writer.                            *)
TypeOK ==
    /\ file \in {"absent", "created", "ready"}
    /\ journal \in {"none", "live", "hot"}
    /\ rows \in Seq(Entries) /\ pending \in Seq(Entries)
    /\ writer \in Processes \cup {None}
    /\ process \in [Processes -> [state : States, batch : Batches \cup {<<>>}, at : Nat]]
    /\ \A p \in Processes : process[p].state \in {"insert", "creating"} <=> writer = p
    /\ writer = None => pending = <<>> /\ journal # "live"

(* No sequence of imports, refusals and deaths writes what the next open     *)
(* refuses: append checks the limits record by record, _bounds over the      *)
(* file, and they must be the same limits.                                  *)
Reopens == Verifies

(* All or nothing: every row comes from a batch that is in the file whole,   *)
(* whether its transaction was refused half way, interrupted or committed.   *)
RowsFromWholeBatches ==
    \A i \in DOMAIN rows : \E batch \in Batches :
        rows[i] \in ToSet(batch) /\ ToSet(batch) \subseteq ToSet(rows)

(* A caller that was told "imported" finds every record of its batch, byte   *)
(* for byte, as inserted or as the duplicate it was.                         *)
ImportedIsThere ==
    \A p \in Processes : At(p, "imported") => ToSet(process[p].batch) \subseteq ToSet(rows)

(* Importing again is harmless: a batch whose records are all in the file is *)
(* not refused by the limits that are checked before the file is looked at,  *)
(* which do not know its duplicates.                                        *)
RepeatFits ==
    \A batch \in Batches :
        DistinctIds(batch) /\ ToSet(batch) \subseteq ToSet(rows)
        /\ Len(batch) <= MaxBatchRecords => Prepared(batch)

(* A batch goes into the file whole or not at all, and stays there.          *)
BatchesWhole == RowsFromWholeBatches /\ ImportedIsThere

(* The limits that append, _bounds and _prepare_batch check, each in its own  *)
(* way and at its own time, never shut a caller out of what is there.        *)
LimitsAgree == Reopens /\ RepeatFits

(* Rows are only ever added at the end: no record is changed or removed.     *)
AppendOnly == [][IsPrefix(rows, rows')]_rows

=============================================================================
