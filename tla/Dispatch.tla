------------------------------ MODULE Dispatch ------------------------------
(***************************************************************************)
(* What the attempt ledger of a run promises, without events, attempts or  *)
(* schema versions: each work item is sent to a model at most once, plus   *)
(* one more time when an operator has stated that the first request never  *)
(* left; an item is sent only after every item it depends on has settled;  *)
(* and an item that settled or closed never changes again, so that the     *)
(* answer a dependent item was prompted with stays the answer.             *)
(***************************************************************************)
EXTENDS Naturals

CONSTANTS
    Work,       \* the work items of the frozen plan
    Deps,       \* Deps[w]: the items whose answers w is prompted with
    Results,    \* the digests an answer may have
    NoResult    \* the value standing for "no answer"

VARIABLES
    phase,      \* "idle": w may still be sent; "sending": handed to the model,
                \* nothing known; "unknown": interrupted; "settled": an answer
                \* is saved; "closed": given up
    answer,     \* answer[w]: the digest of the saved answer, or NoResult
    sends       \* sends[w]: how often w was handed to a model

vars == <<phase, answer, sends>>

Init ==
    /\ phase = [w \in Work |-> "idle"]
    /\ answer = [w \in Work |-> NoResult]
    /\ sends = [w \in Work |-> 0]

Send(w) ==
    /\ phase[w] = "idle"
    /\ sends[w] < 2
    /\ \A d \in Deps[w] : phase[d] = "settled"
    /\ phase' = [phase EXCEPT ![w] = "sending"]
    /\ sends' = [sends EXCEPT ![w] = @ + 1]
    /\ UNCHANGED answer

(* One process death can interrupt several items at once. *)
Interrupt(S) ==
    /\ S # {}
    /\ \A w \in S : phase[w] = "sending"
    /\ phase' = [w \in Work |-> IF w \in S THEN "unknown" ELSE phase[w]]
    /\ UNCHANGED <<answer, sends>>

Settle(w, r) ==
    /\ phase[w] \in {"sending", "unknown"}
    /\ phase' = [phase EXCEPT ![w] = "settled"]
    /\ answer' = [answer EXCEPT ![w] = r]
    /\ UNCHANGED sends

(* An item is given up before it was ever sent, or on the model's refusal. *)
Close(w) ==
    /\ \/ phase[w] = "sending"
       \/ phase[w] = "idle" /\ sends[w] = 0
    /\ phase' = [phase EXCEPT ![w] = "closed"]
    /\ UNCHANGED <<answer, sends>>

(* The operator's statement that the only request so far was never sent. *)
Reopen(w) ==
    /\ phase[w] = "unknown"
    /\ sends[w] = 1
    /\ phase' = [phase EXCEPT ![w] = "idle"]
    /\ UNCHANGED <<answer, sends>>

Next ==
    \/ \E w \in Work : Send(w) \/ Close(w) \/ Reopen(w)
    \/ \E w \in Work, r \in Results : Settle(w, r)
    \/ \E S \in SUBSET Work : Interrupt(S)

Spec == Init /\ [][Next]_vars
=============================================================================
