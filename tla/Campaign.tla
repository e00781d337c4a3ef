------------------------------ MODULE Campaign ------------------------------
(***************************************************************************)
(* The shared budget of a campaign: class CampaignBudget of                *)
(* src/draftbench/campaign.py, one SQLite file that every run of the       *)
(* campaign reserves money in before it sends a request.  There is one     *)
(* writing operation, reserve, in one transaction.  A reservation is never *)
(* changed, released or settled.  A tracking campaign has no ceiling and   *)
(* its reservations no amount.                                             *)
(***************************************************************************)
EXTENDS Integers, FiniteSets, FiniteSetsExt

CONSTANTS
    Calls,     \* the calls of reserve: [attempt, particulars, amount]
    Scale,     \* accounting units in a dollar (10^14 in the code)
    Ceiling,   \* the campaign's limit, in dollars (50 in the code)
    NoAmount   \* None as an amount of dollars

ASSUME CampaignAssumption ==
    /\ Scale \in Nat \ {0}
    /\ Ceiling \in Nat \ {0}

(* A call is a record of these three. *)
ASSUME CallsAssumption ==
    \A one, other \in Calls :
        /\ one.attempt = other.attempt
        /\ one.particulars = other.particulars
        /\ one.amount = other.amount
        => one = other

(* A finite Decimal of at most a hundred digits and a hundred decimal        *)
(* places, as an exact ratio: there are finitely many denominators.        *)
ASSUME AmountsAssumption ==
    /\ \A call \in Calls : call.amount # NoAmount =>
           call.amount[1] \in Int /\ call.amount[2] \in Nat \ {0}
    /\ IsFiniteSet({call.amount[2] : call \in {k \in Calls : k.amount # NoAmount}})

VARIABLES
    tracking,      \* the campaign's row has no ceiling
    reservations   \* table reservations

campaignVars == <<tracking, reservations>>

-----------------------------------------------------------------------------
(* An amount of dollars is an exact ratio <<numerator, denominator>>.       *)

Positive(n) == n > 0

ValidAmount(amount) ==
    IF tracking
    THEN amount = NoAmount
    ELSE /\ amount # NoAmount
         /\ Positive(amount[1])
         /\ amount[1] <= Ceiling * amount[2]

(* Mutant: round to the unit below. *)
RoundedUp_down(n, d) == (n * Scale) \div d

RoundedUp(n, d) == (n * Scale + d - 1) \div d

Units(amount) == IF tracking THEN 0 ELSE RoundedUp(amount[1], amount[2])

(* What reserve writes for a call.  The binding of the code is a digest of *)
(* everything in the call, the exact amount included.                      *)
Row(call) ==
    [attempt |-> call.attempt,
     binding |-> <<call.particulars, call.amount>>,
     units |-> Units(call.amount)]

Total == MapThenSumSet(LAMBDA row : row.units, reservations)

Fits(row) == tracking \/ Total + row.units <= Ceiling * Scale

Reserved(attempt) == \E row \in reservations : row.attempt = attempt

(* Mutant: the binding on record is not compared. *)
SameBinding_ignored(call) == Reserved(call.attempt)

SameBinding(call) == Row(call) \in reservations

(* Otherwise reserve raises campaign_invalid_upper_bound,                   *)
(* campaign_binding_mismatch or campaign_exhausted.                         *)
CanReserve(call) ==
    /\ ValidAmount(call.amount)
    /\ IF Reserved(call.attempt) THEN SameBinding(call) ELSE Fits(Row(call))

-----------------------------------------------------------------------------
Init ==
    /\ tracking \in BOOLEAN
    /\ reservations = {}

(* The transaction of reserve: the same call again changes nothing.         *)
Reserve(call) ==
    /\ CanReserve(call)
    /\ reservations' = IF Reserved(call.attempt)
                       THEN reservations
                       ELSE reservations \cup {Row(call)}
    /\ UNCHANGED tracking

Next == \E call \in Calls : Reserve(call)

Spec == Init /\ [][Next]_campaignVars

=============================================================================
