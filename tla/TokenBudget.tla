----------------------------- MODULE TokenBudget -----------------------------
(***************************************************************************)
(* Admission in tokens and money: src/draftbench/adapters/token_budget.py, *)
(* the policies of pilot_policy.py and inspect.py that use it, and the      *)
(* settled cost of an answer in openai_contract.py and                      *)
(* anthropic_contract.py.  A run admits an attempt, then settles the usage   *)
(* that the answer reports, and never refunds.                              *)
(*                                                                         *)
(* Money is an integer.  A rate or a cap, a string of at most Fraction      *)
(* fractional digits, is [value, length]: value in units of 10^-Fraction,   *)
(* length the characters of the string.  A cost is in units of              *)
(* 10^-(Fraction + 2) / Million, so that every quotient the code forms       *)
(* (by 1 or 2) and every rate of the tariff (5/4) is an integer.            *)
(***************************************************************************)
EXTENDS Integers, FiniteSetsExt

CONSTANTS
    Policies,      \* the policies, records as PolicyShape describes them
    Usages,        \* the usage blocks that an answer may carry
    Fraction,      \* fractional digits of Money: 8 in the code
    Million,       \* tokens that a rate is for: 1000000 in the code
    ShortContext,  \* input tokens billed at the short rate: 272000 in the code
    Base,          \* 10: precision counts decimal digits
    MaxAttempts,   \* bound: attempts of a run
    None

VARIABLES
    policy,   \* the policy of the run
    count,    \* attempts reserved
    used,     \* tokens that the accepted answers report
    settled,  \* sum of the estimates of the accepted answers
    billed,   \* what the provider charges for the attempts
    booked,   \* sum of the reservation_cost of each, as the campaign adds them
    last      \* how the last step ended
vars == <<policy, count, used, settled, billed, booked, last>>

-----------------------------------------------------------------------------
(* Decimal arithmetic in a context of its own *)

(* Base to the power of k. *)
Power(k) ==
    LET power[i \in 0..k] == IF i = 0 THEN 1 ELSE Base * power[i - 1]
    IN  power[k]

(* How many digits n is written with. *)
Digits(n) ==
    LET digits[m \in 0..n] == IF m < Base THEN 1 ELSE 1 + digits[m \div Base]
    IN  digits[n]

(* Python's decimal keeps prec significant digits, ROUND_HALF_EVEN. *)
Rounded(n, prec) ==
    IF Digits(n) <= prec THEN n
    ELSE LET ulp == Power(Digits(n) - prec)
             low == n \div ulp
             rest == 2 * (n % ulp)
         IN  ulp * (IF rest > ulp \/ (rest = ulp /\ low % 2 = 1) THEN low + 1 ELSE low)

(* Mutant: no room for aligning the scales. *)
Precision_short(p, input, output) ==
    Max({p.input_per_million.length, p.output_per_million.length})
        + Max({Digits(input), Digits(output)})

(* The precision token_cost asks for: 16 more digits, twice Fraction. *)
Precision(p, input, output) ==
    Max({p.input_per_million.length, p.output_per_million.length})
        + Max({Digits(input), Digits(output)}) + 2 * Fraction

(* token_cost: two products, their sum and the quotient, each rounded. *)
TokenCost(p, input, output, denominator) ==
    LET prec == Precision(p, input, output)
        sum  == Rounded(Rounded(p.input_per_million.value * input * 100, prec)
                          + Rounded(p.output_per_million.value * output * 100, prec), prec)
    IN  Rounded(sum \div denominator, prec)

Cap(money) == money.value * 100 * Million

-----------------------------------------------------------------------------
(* What the validation of a policy leaves.  Money is written without leading   *)
(* zeros and with no more than Fraction digits after the point, so that its    *)
(* length bounds it.                                                         *)
Money == {money \in [value : Nat, length : Nat] : money.value < Power(money.length + Fraction)}

PolicyShape(p) ==
    /\ p.kind \in {"gpt", "anthropic", "inspect"} /\ p.tracking \in BOOLEAN
    /\ p.input_per_million \in Money /\ p.output_per_million \in Money
    /\ p.tracking => p.kind # "inspect"
    /\ p.kind = "anthropic" \/ ~p.tracking => p.window \in Nat /\ p.max_output_tokens \in Nat
    /\ ~p.tracking => /\ p.max_requests \in Nat /\ p.max_total_tokens \in Nat
                      /\ p.max_cost # None => p.max_cost.value \in Nat

-----------------------------------------------------------------------------
(* Reservation *)

(* reserved_tokens: a provider policy's window, an Inspect policy's bytes. *)
ReservedTokens(p) == p.window + p.max_output_tokens

(* reservation_total *)
ReservationTotal(p, n) ==
    CASE p.kind = "gpt" -> TokenCost(p, n * p.window * 5, n * p.max_output_tokens * 3, 2)
      [] p.kind = "anthropic" -> TokenCost(p, n * p.window * 2, n * p.max_output_tokens, 1)
      [] p.kind = "inspect" -> p.input_per_million.value * n * ReservedTokens(p) * 100

(* admit, and the arithmetic of Ledger.reserve for a policy without one. *)
Admit(p, n) ==
    ~p.tracking =>
       /\ n <= p.max_requests
       /\ n * ReservedTokens(p) <= p.max_total_tokens
       /\ p.max_cost # None => ReservationTotal(p, n) <= Cap(p.max_cost)

-----------------------------------------------------------------------------
(* Settlement.  A usage has input, cache writes, cache reads and output; of  *)
(* OpenAI's input the writes are a part, of Anthropic's they are apart.     *)

(* Mutant: cache writes are priced as plain input. *)
Estimate_plain(p, u) ==
    IF p.kind = "gpt" /\ ~p.tracking /\ (u.i > p.window \/ u.o > p.max_output_tokens)
    THEN "invalid"
    ELSE IF p.kind = "gpt" /\ u.w > u.i THEN "invalid"
    ELSE IF p.kind = "gpt" /\ u.i > ShortContext THEN IF p.tracking THEN "unknown" ELSE "invalid"
    ELSE IF p.kind = "anthropic" /\ (u.i + u.w + u.r > p.window \/ u.o > p.max_output_tokens)
    THEN "invalid"
    ELSE IF p.kind = "inspect" THEN "unknown"
    ELSE "known"

(* _usage: whether a usage is refused, accepted with a cost or without one. *)
Estimate(p, u) ==
    IF p.kind = "gpt" /\ ~p.tracking /\ (u.i > p.window \/ u.o > p.max_output_tokens)
    THEN "invalid"
    ELSE IF p.kind = "gpt" /\ u.w > u.i THEN "invalid"
    ELSE IF p.kind = "gpt" /\ u.w > 0 THEN "unknown"
    ELSE IF p.kind = "gpt" /\ u.i > ShortContext THEN IF p.tracking THEN "unknown" ELSE "invalid"
    ELSE IF p.kind = "anthropic" /\ (u.i + u.w + u.r > p.window \/ u.o > p.max_output_tokens)
    THEN "invalid"
    ELSE IF p.kind = "inspect" THEN "unknown"
    ELSE "known"

EstimatedCost(p, u) ==
    CASE p.kind = "gpt" -> TokenCost(p, u.i, u.o, 1)
      [] p.kind = "anthropic" -> TokenCost(p, u.i + 2 * u.w + u.r, u.o, 1)

TokensOf(p, u) == IF p.kind = "anthropic" THEN u.i + u.w + u.r + u.o ELSE u.i + u.o

(* The provider keeps to the window it documents and to the output limit of   *)
(* the request.                                                             *)
Served(p, u) == p.tracking \/ (TokensOf(p, u) - u.o <= p.window /\ u.o <= p.max_output_tokens)

(* What the provider charges, by the rates the policies' comments name: a    *)
(* write costs 5/4 (OpenAI) or twice (Anthropic, one hour) the input; long    *)
(* context doubles OpenAI's input and takes 3/2 of its output.              *)
Bill(p, u) ==
    LET factor == IF u.i > ShortContext THEN 2 ELSE 1
        writes == Min({u.i, u.w})
    IN  CASE p.kind = "gpt" ->
               p.input_per_million.value * 25 * factor * (4 * (u.i - writes) + 5 * writes)
                 + p.output_per_million.value * 50 * (factor + 1) * u.o
          [] p.kind = "anthropic" ->
               100 * (p.input_per_million.value * (u.i + 2 * u.w + u.r)
                        + p.output_per_million.value * u.o)
          [] p.kind = "inspect" -> 0

-----------------------------------------------------------------------------
Init == /\ policy \in Policies
        /\ count = 0
        /\ used = 0
        /\ settled = 0
        /\ billed = 0
        /\ booked = 0
        /\ last = "none"

(* Ledger.reserve admits and reserves; campaign.reserve books the price of   *)
(* one attempt, and nothing when costs are only tracked.                     *)
Attempt(u) ==
    /\ count < MaxAttempts
    /\ last # "refused"
    /\ Admit(policy, count + 1)
    /\ count' = count + 1
    /\ booked' = booked + IF policy.tracking THEN 0 ELSE ReservationTotal(policy, 1)
    /\ billed' = billed + IF Served(policy, u) THEN Bill(policy, u) ELSE 0
    /\ LET status == Estimate(policy, u)
       IN  /\ last' = IF last \in {"none", "known"} \/ status = "invalid" THEN status ELSE last
           /\ used' = used + IF status = "invalid" THEN 0 ELSE TokensOf(policy, u)
           /\ settled' = settled + IF status = "known" THEN EstimatedCost(policy, u) ELSE 0
    /\ UNCHANGED policy

(* admission_exhausted: _drive leaves its loop. *)
Refuse ==
    /\ count < MaxAttempts
    /\ last # "refused"
    /\ ~Admit(policy, count + 1)
    /\ last' = "refused"
    /\ UNCHANGED <<policy, count, used, settled, billed, booked>>

Next == Refuse \/ \E u \in Usages : Attempt(u)

Spec == Init /\ [][Next]_vars

-----------------------------------------------------------------------------
(* One attempt at the highest rates, without a rounding. *)
Dearest(p) ==
    CASE p.kind = "gpt" -> 250 * p.input_per_million.value * p.window
                             + 150 * p.output_per_million.value * p.max_output_tokens
      [] p.kind = "anthropic" -> 200 * p.input_per_million.value * p.window
                                   + 100 * p.output_per_million.value * p.max_output_tokens
      [] p.kind = "inspect" -> 100 * p.input_per_million.value * (p.window + p.max_output_tokens)

Fits(p, n) ==
    /\ n <= p.max_requests
    /\ n * (p.window + p.max_output_tokens) <= p.max_total_tokens
    /\ p.max_cost # None => n * Dearest(p) <= p.max_cost.value * 100 * Million

(* Admission draws the line exactly where n attempts at the highest rates     *)
(* reach a cap: the attempt that fills it is admitted and the next is not,     *)
(* whatever the scales of the two rates (admit with token_cost's precision).  *)
AdmissionExact ==
    ~policy.tracking =>
        \A n \in 1 .. MaxAttempts : Admit(policy, n) <=> Fits(policy, n)

(* Two books are kept of one run: the run's report multiplies, the campaign   *)
(* adds up the single reservations.  They agree to the last digit.           *)
BooksAgree ==
    (~policy.tracking /\ policy.kind # "inspect" /\ count > 0) =>
        booked = ReservationTotal(policy, count)

(* No sequence of answers from a provider that keeps to its window can bill   *)
(* more than was reserved, nor more than the cap of the policy.              *)
BilledWithinCap ==
    ~policy.tracking =>
        /\ billed <= booked
        /\ policy.max_cost # None => billed <= Cap(policy.max_cost)

(* The tokens that the accepted answers of a provider report stay within      *)
(* max_total_tokens, which was reserved before any of them was known.        *)
UsedWithinCap ==
    (~policy.tracking /\ policy.kind # "inspect") => used <= policy.max_total_tokens

(* As long as every answer had an estimate, the estimates cover the bill.    *)
EstimatesCoverBill == last = "known" => settled >= billed
=============================================================================
