---------------------------- MODULE ArtifactStore ----------------------------
(***************************************************************************)
(* The content-addressed store of a run directory: put and get of class    *)
(* ArtifactStore in src/draftbench/store.py, called by any number of       *)
(* processes over one directory.  put writes a private staging file, syncs *)
(* it, hard-links it under its digest and syncs the directory; it never    *)
(* replaces what already has the name.  A process can die at any point,    *)
(* and the machine can lose power: then a file that was not synced may be  *)
(* incomplete, and a directory entry that was not synced may be missing.   *)
(* A digest stands for the bytes it is the digest of.                      *)
(***************************************************************************)
EXTENDS Naturals, FiniteSets

CONSTANTS
    Digests,   \* the digests of what is put
    Writers,   \* the processes
    Files,     \* the files that puts may create, one each
    None       \* no directory entry, no put

ASSUME NoneAssumption == None \notin Files \cup Digests

VARIABLES
    data,     \* data[f]: what the file holds
    cached,   \* cached[d]: the file that the name d has now, or None
    synced,   \* synced[d]: the file that the name d has on the disk
    put,      \* put[w]: how far the put of process w is
    acked     \* the digests that some put has returned

vars == <<data, cached, synced, put, acked>>

(* A file that does not exist yet, one whose bytes are incomplete, one     *)
(* whose bytes are in the page cache only, and one that is on the disk.     *)
FileStates == {"unused", "torn", "written", "durable"}

Steps == {"idle", "look", "publish", "stage", "sync", "link", "check", "syncdir"}

Puts == [pc : Steps, digest : Digests \cup {None}, file : Files \cup {None}]

Idle == [pc |-> "idle", digest |-> None, file |-> None]

-----------------------------------------------------------------------------
(* Every read of an object checks its bytes against its name.              *)
Whole(d) == cached[d] # None /\ data[cached[d]] \in {"written", "durable"}

At(w, pc) == put[w].pc = pc
Digest(w) == put[w].digest

Goto(w, pc) == put' = [put EXCEPT ![w].pc = pc]

(* The put is over.  What it has linked stays, whether it failed or not.   *)
Quit(w) == put' = [put EXCEPT ![w] = Idle]

Init ==
    /\ data = [f \in Files |-> "unused"]
    /\ cached = [d \in Digests |-> None]
    /\ synced = [d \in Digests |-> None]
    /\ put = [w \in Writers |-> Idle]
    /\ acked = {}

Begin(w, d) ==
    /\ At(w, "idle")
    /\ put' = [put EXCEPT ![w] = [pc |-> "look", digest |-> d, file |-> None]]
    /\ UNCHANGED <<data, cached, synced, acked>>

(* Mutant: what another put has linked counts as published. *)
FindExisting_trusting(w) ==
    /\ At(w, "look")
    /\ Whole(Digest(w))
    /\ acked' = acked \cup {Digest(w)}
    /\ Quit(w)
    /\ UNCHANGED <<data, cached, synced>>

(* _read(missing_ok=True, sync=True): an object that is already there is   *)
(* verified and synced.                                                    *)
FindExisting(w) ==
    /\ At(w, "look")
    /\ Whole(Digest(w))
    /\ data' = [data EXCEPT ![cached[Digest(w)]] = "durable"]
    /\ Goto(w, "syncdir")
    /\ UNCHANGED <<cached, synced, acked>>

FindNothing(w) ==
    /\ At(w, "look")
    /\ cached[Digest(w)] = None
    /\ Goto(w, "publish")
    /\ UNCHANGED <<data, cached, synced, acked>>

(* _publish *)
CreateStage(w, f) ==
    /\ At(w, "publish")
    /\ data[f] = "unused"
    /\ data' = [data EXCEPT ![f] = "torn"]
    /\ put' = [put EXCEPT ![w].pc = "stage", ![w].file = f]
    /\ UNCHANGED <<cached, synced, acked>>

WriteStage(w) ==
    /\ At(w, "stage")
    /\ data' = [data EXCEPT ![put[w].file] = "written"]
    /\ Goto(w, "sync")
    /\ UNCHANGED <<cached, synced, acked>>

(* Mutant: the file is only flushed to the page cache. *)
Flushed_unsynced == "written"

(* stream.flush and os.fsync. *)
Flushed == "durable"

SyncStage(w) ==
    /\ At(w, "sync")
    /\ data' = [data EXCEPT ![put[w].file] = Flushed]
    /\ Goto(w, "link")
    /\ UNCHANGED <<cached, synced, acked>>

(* os.link does not replace: who loses the race keeps the winner's object.  *)
Link(w) ==
    /\ At(w, "link")
    /\ cached' = IF cached[Digest(w)] = None
                 THEN [cached EXCEPT ![Digest(w)] = put[w].file]
                 ELSE cached
    /\ Goto(w, "check")
    /\ UNCHANGED <<data, synced, acked>>

ReadBack(w) ==
    /\ At(w, "check")
    /\ Whole(Digest(w))
    /\ Goto(w, "syncdir")
    /\ UNCHANGED <<data, cached, synced, acked>>

(* The directory sync, with which a put of either kind returns.            *)
SyncDirectory(w) ==
    /\ At(w, "syncdir")
    /\ synced' = cached
    /\ acked' = acked \cup {Digest(w)}
    /\ Quit(w)
    /\ UNCHANGED <<data, cached>>

(* The process dies, or put raises: an input or output error, or an object *)
(* that fails its check.  Nothing is undone.                               *)
Dies(w) ==
    /\ ~At(w, "idle")
    /\ Quit(w)
    /\ UNCHANGED <<data, cached, synced, acked>>

(* What may have become of a file that was only in the page cache, and of  *)
(* an entry that was only there, is either of what it was before and after. *)
PowerLoss ==
    /\ data' \in {new \in [Files -> FileStates] : \A f \in Files :
          new[f] \in IF data[f] = "written" THEN {"torn", "durable"} ELSE {data[f]}}
    /\ cached' \in {new \in [Digests -> Files \cup {None}] : \A d \in Digests :
          new[d] \in {synced[d], cached[d]}}
    /\ synced' = cached'
    /\ put' = [w \in Writers |-> Idle]
    /\ UNCHANGED acked

Next ==
    \/ \E w \in Writers, d \in Digests : Begin(w, d)
    \/ \E w \in Writers, f \in Files : CreateStage(w, f)
    \/ \E w \in Writers :
          \/ FindExisting(w) \/ FindNothing(w)
          \/ WriteStage(w) \/ SyncStage(w) \/ Link(w) \/ ReadBack(w) \/ SyncDirectory(w)
          \/ Dies(w)
    \/ PowerLoss

Spec == Init /\ [][Next]_vars

-----------------------------------------------------------------------------
(* The variables have the values they may have. *)
TypeOK ==
    /\ data \in [Files -> FileStates]
    /\ cached \in [Digests -> Files \cup {None}]
    /\ synced \in [Digests -> Files \cup {None}]
    /\ put \in [Writers -> Puts]
    /\ acked \subseteq Digests

(* No reader ever finds incomplete bytes under a digest: not in the middle *)
(* of a put, not after a death, not after a power loss, so that a retried   *)
(* put of the same bytes always succeeds.                                  *)
NeverTorn == \A d \in Digests : cached[d] # None => Whole(d)

(* A digest that put has returned, which the ledger then refers to, is on  *)
(* the disk with its name and its bytes: also when this put only found what *)
(* another one, perhaps dead by now, had linked and not yet synced.         *)
AckedSurvives ==
    \A d \in acked : synced[d] # None /\ data[synced[d]] = "durable"
=============================================================================
