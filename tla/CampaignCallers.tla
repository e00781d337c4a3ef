--------------------------- MODULE CampaignCallers ---------------------------
(***************************************************************************)
(* Several runs reserve in one campaign at the same time.  The             *)
(* transactions of the file serialise, and each caller can die at any      *)
(* point: before its transaction, or after the commit and before it learns *)
(* of it.  A caller that was refused or has died may ask again, for the    *)
(* same attempt and with the same or with other particulars.               *)
(***************************************************************************)
EXTENDS Campaign

CONSTANTS
    Callers,   \* the processes
    NoCall     \* a caller that is not inside reserve

VARIABLES
    asking,    \* asking[c]: the call that process c is inside of
    granted    \* the calls that have returned to a caller without an error

callersVars == <<campaignVars, asking, granted>>

CallersInit ==
    /\ Init
    /\ asking = [c \in Callers |-> NoCall]
    /\ granted = {}

Ask(c, call) ==
    /\ asking[c] = NoCall
    /\ asking' = [asking EXCEPT ![c] = call]
    /\ UNCHANGED <<campaignVars, granted>>

Return(c) ==
    /\ asking[c] # NoCall
    /\ asking' = [asking EXCEPT ![c] = NoCall]

Granted(c) ==
    /\ Return(c)
    /\ Reserve(asking[c])
    /\ granted' = granted \cup {asking[c]}

Refused(c) ==
    /\ Return(c)
    /\ ~CanReserve(asking[c])
    /\ UNCHANGED <<campaignVars, granted>>

(* What a transaction that does not commit leaves behind. *)
Rollback == UNCHANGED campaignVars

(* The caller dies, or its commit fails, before it has heard of a commit.  *)
Dies(c) ==
    /\ Return(c)
    /\ Reserve(asking[c]) \/ Rollback
    /\ UNCHANGED granted

CallersNext ==
    \/ \E c \in Callers, call \in Calls : Ask(c, call)
    \/ \E c \in Callers : Granted(c) \/ Refused(c) \/ Dies(c)

CallersSpec == CallersInit /\ [][CallersNext]_callersVars

-----------------------------------------------------------------------------
(* A dollar in the smallest part that every amount divides into.            *)
Common == FoldSet(LAMBDA d, e : d * e, 1,
                  {call.amount[2] : call \in {k \in Calls : k.amount # NoAmount}})

(* The exact amounts of everything that was ever granted stay within the    *)
(* ceiling, although the file only adds up rounded units: the rounding never *)
(* reserves less than the amount, and a caller's death frees nothing.       *)
GrantedWithinCeiling ==
    tracking \/ MapThenSumSet(LAMBDA call : call.amount[1] * (Common \div call.amount[2]),
                              granted) <= Ceiling * Common

(* A grant is for good: the row that a caller was told of stays, with the   *)
(* particulars of that caller, whoever asks and dies afterwards, and no two *)
(* callers are granted different requests under one attempt.                *)
GrantsRecorded ==
    /\ \A call \in granted : Row(call) \in reservations
    /\ \A one, other \in granted : one.attempt = other.attempt => one = other

=============================================================================
