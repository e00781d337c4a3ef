--------------------------- MODULE CampaignProofs ---------------------------
(***************************************************************************)
(* What a caller of the shared budget can rely on, for any number of       *)
(* callers, calls and deaths: its row stays, and what was granted to all   *)
(* of them together is within the ceiling.                                 *)
(***************************************************************************)
EXTENDS CampaignCallers, FoldFacts

(* The primary key of the table. *)
OneRowEach ==
    \A row, other \in reservations : row.attempt = other.attempt => row = other

(* The sum that the trigger of the table takes. *)
SumWithinCeiling == tracking \/ Total <= Ceiling * Scale

Booked ==
    /\ IsFiniteSet(reservations)
    /\ \A row \in reservations : row.units \in Nat
    /\ SumWithinCeiling

ValidGrants ==
    /\ IsFiniteSet(granted)
    /\ \A call \in granted : tracking \/ (call.amount # NoAmount /\ call.amount[1] \in Nat)

IInv ==
    /\ OneRowEach
    /\ tracking \in BOOLEAN
    /\ Booked
    /\ ValidGrants
    /\ asking \in [Callers -> Calls \cup {NoCall}]
    /\ granted \subseteq Calls
    /\ \A call \in granted : Row(call) \in reservations

(* A transaction of reserve leaves the row of its call, and every row that  *)
(* was there.                                                              *)
LEMMA ReserveLeavesRow ==
    ASSUME OneRowEach, NEW call, Reserve(call)
    PROVE  /\ OneRowEach'
           /\ reservations \subseteq reservations'
           /\ Row(call) \in reservations'
           /\ tracking' = tracking
<1>1. Row(call).attempt = call.attempt
  BY DEF Row
<1>2. CASE Reserved(call.attempt)
  BY <1>2 DEF Reserve, CanReserve, SameBinding, OneRowEach
<1>3. CASE ~Reserved(call.attempt)
  <2>1. reservations' = reservations \cup {Row(call)}
    BY <1>3 DEF Reserve
  <2>2. \A row \in reservations : row.attempt # Row(call).attempt
    BY <1>1, <1>3 DEF Reserved
  <2> QED
    BY <2>1, <2>2 DEF Reserve, OneRowEach
<1> QED
  BY <1>2, <1>3

(* A row does not depend on when it is written. *)
LEMMA RowFixed ==
    ASSUME tracking' = tracking, NEW call
    PROVE  Row(call)' = Row(call)
BY DEF Row, Units, RoundedUp

-----------------------------------------------------------------------------
(* The sums and the product that the specification computes by taking one    *)
(* element after the other.                                                *)
UnitsOf(rows) == [row \in rows |-> row.units]

UnitsTotal(rows) == MapThenSumSet(LAMBDA row : row.units, rows)

LEMMA TotalIsSum ==
    ASSUME NEW S, IsFiniteSet(S), \A row \in S : row.units \in Nat
    PROVE  UnitsTotal(S) = SumOf(UnitsOf(S), S)
<1> DEFINE f == UnitsOf(S)
           Pick(s) == CHOOSE x \in s : TRUE
           Steps(t) == [s \in SUBSET S |->
                          IF s = {} THEN 0 ELSE Pick(s).units + t[s \ {Pick(s)}]]
           t == CHOOSE iter : iter = Steps(iter)
<1>1. UnitsTotal(S) = t[S]
  BY DEF UnitsTotal, MapThenSumSet, MapThenFoldSet
<1>2. Weighs(f, S)
  BY DEF Weighs, UnitsOf
<1>3. PICK g : Additive(g, f, S)
  BY <1>2, AdditiveExists
<1>4. ASSUME NEW s \in SUBSET S, s # {}
      PROVE  Pick(s) \in s /\ Pick(s) \in S
  BY <1>4
<1>5. g = Steps(g)
  BY <1>3, <1>4 DEF Additive, UnitsOf
<1>6. t = Steps(t)
  <2> HIDE DEF Steps
  <2> QED
    BY <1>5
<1>7. Tallies(t, f, S)
  <2> HIDE DEF t
  <2> QED
    BY <1>4, <1>6 DEF Tallies, UnitsOf
<1>8. t[S] = SumOf(f, S)
  <2> HIDE DEF t, f
  <2> QED
    BY <1>2, <1>7, SumComputed
<1> QED
  BY <1>1, <1>8

LEMMA TotalOfRows == Total = UnitsTotal(reservations) /\ Total' = UnitsTotal(reservations')
BY DEF Total, UnitsTotal, MapThenSumSet, MapThenFoldSet

(* What a call costs, in the common part of a dollar. *)
Parts(calls) == [call \in calls |-> call.amount[1] * (Common \div call.amount[2])]

GrantedTotal ==
    MapThenSumSet(LAMBDA call : call.amount[1] * (Common \div call.amount[2]), granted)

LEMMA GrantedIsSum ==
    ASSUME IsFiniteSet(granted), Weighs(Parts(granted), granted)
    PROVE  GrantedTotal = SumOf(Parts(granted), granted)
<1> DEFINE S == granted
           f == Parts(S)
           Pick(s) == CHOOSE x \in s : TRUE
           Steps(t) == [s \in SUBSET S |->
                          IF s = {} THEN 0
                          ELSE Pick(s).amount[1] * (Common \div Pick(s).amount[2])
                                 + t[s \ {Pick(s)}]]
           t == CHOOSE iter : iter = Steps(iter)
<1>1. GrantedTotal = t[S]
  BY DEF GrantedTotal, MapThenSumSet, MapThenFoldSet
<1>3. PICK g : Additive(g, f, S)
  BY AdditiveExists
<1>4. ASSUME NEW s \in SUBSET S, s # {}
      PROVE  Pick(s) \in s /\ Pick(s) \in S
  BY <1>4
<1>5. g = Steps(g)
  BY <1>3, <1>4 DEF Additive, Parts
<1>6. t = Steps(t)
  <2> HIDE DEF Steps
  <2> QED
    BY <1>5
<1>7. Tallies(t, f, S)
  <2> HIDE DEF t
  <2> QED
    BY <1>4, <1>6 DEF Tallies, Parts
<1> QED
  <2> HIDE DEF t
  <2> QED
    BY <1>1, <1>7, SumComputed

Denominators == {call.amount[2] : call \in {k \in Calls : k.amount # NoAmount}}

(* Every amount divides into the common part of a dollar. *)
LEMMA CommonDivides ==
    /\ Common \in Nat \ {0}
    /\ \A d \in Denominators : \E k \in Nat \ {0} : Common = d * k
<1> DEFINE S == Denominators
           Pick(s) == CHOOSE x \in s : TRUE
           Steps(t) == [s \in SUBSET S |->
                          IF s = {} THEN 1 ELSE Pick(s) * t[s \ {Pick(s)}]]
           t == CHOOSE iter : iter = Steps(iter)
<1>1. Common = t[S]
  BY DEF Common, FoldSet, MapThenFoldSet, Denominators
<1>2. IsFiniteSet(S) /\ S \subseteq Nat \ {0}
  BY AmountsAssumption DEF Denominators
<1>3. PICK m : Multiplicative(m, S)
  <2> HIDE DEF S
  <2> QED
    BY <1>2, MultiplicativeExists
<1>4. ASSUME NEW s \in SUBSET S, s # {}
      PROVE  Pick(s) \in s
  BY <1>4
<1> HIDE DEF S
<1>5. m = Steps(m)
  BY <1>3, <1>4 DEF Multiplicative
<1>6. t = Steps(t)
  <2> HIDE DEF Steps
  <2> QED
    BY <1>5
<1>7. Multiplies(t, S)
  <2> HIDE DEF t
  <2> QED
    BY <1>4, <1>6 DEF Multiplies
<1> QED
  <2> HIDE DEF t
  <2>1. /\ t[S] \in Nat \ {0}
        /\ \A x \in S : \E k \in Nat \ {0} : t[S] = x * k
    BY <1>2, <1>7, EachDividesProduct
  <2> QED
    BY <1>1, <2>1 DEF S

-----------------------------------------------------------------------------
(* What a call is granted for is no more than the units of its row. *)
LEMMA RoundedUpCovers ==
    ASSUME NEW n \in Nat, NEW d \in Nat \ {0}
    PROVE  RoundedUp(n, d) \in Nat /\ n * Scale <= d * RoundedUp(n, d)
<1> DEFINE m == n * Scale + d - 1
           q == m \div d
<1>1. n * Scale \in Nat
  BY CampaignAssumption
<1>2. m \in Nat
  BY <1>1
<1>3. q \in Nat /\ m < d * q + d
  <2> HIDE DEF m
  <2> QED
    BY <1>2
<1> HIDE DEF q
<1>4. n * Scale <= d * q
  <2>1. d * q \in Nat
    BY <1>3
  <2> QED
    BY <1>1, <1>3, <2>1
<1> QED
  BY <1>3, <1>4 DEF RoundedUp, q

LEMMA UnitsAreNatural ==
    ASSUME NEW call \in Calls, tracking \in BOOLEAN, ValidAmount(call.amount)
    PROVE  /\ Row(call).units \in Nat
           /\ tracking \/ (call.amount # NoAmount /\ call.amount[1] \in Nat)
<1>1. CASE tracking
  BY <1>1 DEF Row, Units
<1>2. CASE ~tracking
  <2>1. call.amount[1] \in Nat /\ call.amount[2] \in Nat \ {0} /\ call.amount # NoAmount
    BY <1>2, AmountsAssumption DEF ValidAmount, Positive
  <2> QED
    BY <1>2, <2>1, RoundedUpCovers DEF Row, Units
<1> QED
  BY <1>1, <1>2

(* The transaction leaves the sum within the ceiling. *)
LEMMA ReserveWithinCeiling ==
    ASSUME Booked, tracking \in BOOLEAN, NEW call \in Calls, Reserve(call)
    PROVE  Booked'
<1>1. ValidAmount(call.amount) /\ tracking' = tracking
  BY DEF Reserve, CanReserve
<1>2. CASE reservations' = reservations
  BY <1>1, <1>2, TotalOfRows DEF Booked, SumWithinCeiling
<1>3. CASE ~Reserved(call.attempt)
  <2> DEFINE row == Row(call)
             S == reservations
             T == reservations \cup {row}
  <2>1. row.attempt = call.attempt /\ row.units \in Nat
    BY <1>1, UnitsAreNatural DEF Row
  <2>2. row \notin S
    BY <1>3, <2>1 DEF Reserved
  <2>3. reservations' = T /\ Fits(row)
    BY <1>3 DEF Reserve, CanReserve
  <2>4. IsFiniteSet(S) /\ IsFiniteSet(T) /\ \A r \in T : r.units \in Nat
    BY <2>1, FS_AddElement DEF Booked
  <2> HIDE DEF row
  <2>5. Total = SumOf(UnitsOf(S), S)
    BY <2>4, TotalIsSum, TotalOfRows
  <2>6. Total' = SumOf(UnitsOf(T), T)
    BY <2>3, <2>4, TotalIsSum, TotalOfRows
  <2>7. SumOf(UnitsOf(T), T) = SumOf(UnitsOf(T), S) + row.units
    <3>1. Weighs(UnitsOf(T), T) /\ UnitsOf(T)[row] = row.units
      BY <2>4 DEF Weighs, UnitsOf
    <3> DEFINE f == UnitsOf(T)
    <3>2. SumOf(f, S \cup {row}) = SumOf(f, S) + f[row]
      <4> HIDE DEF f
      <4> QED
        BY <2>2, <2>4, <3>1, SumAddElement DEF f
    <3> QED
      BY <3>1, <3>2
  <2>8. SumOf(UnitsOf(T), S) = SumOf(UnitsOf(S), S)
    <3>1. Weighs(UnitsOf(S), S) /\ \A r \in S : UnitsOf(T)[r] = UnitsOf(S)[r]
      BY <2>4 DEF Weighs, UnitsOf
    <3> QED
      BY <2>4, <3>1, SumExtensional
  <2>9. Total' = Total + row.units
    BY <2>5, <2>6, <2>7, <2>8
  <2> QED
    BY <1>1, <2>3, <2>4, <2>9 DEF Booked, SumWithinCeiling, Fits
<1> QED
  BY <1>2, <1>3 DEF Reserve

-----------------------------------------------------------------------------
LEMMA InitInvariant == CallersInit => IInv
<1> SUFFICES ASSUME CallersInit
             PROVE  IInv
  OBVIOUS
<1>1. reservations = {} /\ granted = {} /\ tracking \in BOOLEAN
  BY DEF CallersInit, Init
<1>2. IsFiniteSet(reservations)
  BY <1>1, FS_EmptySet
<1>3. Total = 0
  BY <1>1, <1>2, TotalIsSum, TotalOfRows, SumEmpty
<1>4. Booked
  <2>1. Ceiling * Scale \in Nat
    BY CampaignAssumption
  <2> QED
    BY <1>1, <1>2, <1>3, <2>1 DEF Booked, SumWithinCeiling
<1>5. ValidGrants
  BY <1>1, FS_EmptySet DEF ValidGrants
<1> QED
  BY <1>1, <1>4, <1>5 DEF IInv, CallersInit, OneRowEach

(* Nothing in the file changes. *)
LEMMA FileKept ==
    ASSUME OneRowEach, Booked, UNCHANGED campaignVars
    PROVE  /\ OneRowEach' /\ Booked'
           /\ reservations' = reservations /\ tracking' = tracking
<1>1. reservations' = reservations /\ tracking' = tracking
  BY DEF campaignVars
<1>2. Total' = Total
  BY <1>1, TotalOfRows
<1> QED
  BY <1>1, <1>2 DEF OneRowEach, Booked, SumWithinCeiling

LEMMA StepPreserves ==
    ASSUME IInv, [CallersNext]_callersVars
    PROVE  IInv'
<1> USE DEF IInv
<1>1. ASSUME UNCHANGED campaignVars, granted' = granted,
             asking' \in [Callers -> Calls \cup {NoCall}]
      PROVE  IInv'
  BY <1>1, FileKept, RowFixed DEF ValidGrants
<1>2. CASE UNCHANGED callersVars
  BY <1>1, <1>2 DEF callersVars
<1>3. ASSUME NEW c \in Callers, NEW call \in Calls, Ask(c, call)
      PROVE  IInv'
  BY <1>1, <1>3 DEF Ask
<1>4. ASSUME NEW c \in Callers, Return(c)
      PROVE  /\ asking[c] \in Calls
             /\ asking' \in [Callers -> Calls \cup {NoCall}]
  BY <1>4 DEF Return
<1>5. ASSUME NEW call \in Calls, Reserve(call)
      PROVE  /\ OneRowEach' /\ reservations \subseteq reservations'
             /\ Row(call) \in reservations' /\ tracking' = tracking
             /\ Booked'
             /\ tracking \/ (call.amount # NoAmount /\ call.amount[1] \in Nat)
  <2>1. ValidAmount(call.amount)
    BY <1>5 DEF Reserve, CanReserve
  <2> QED
    BY <1>5, <2>1, ReserveLeavesRow, ReserveWithinCeiling, UnitsAreNatural
<1>6. ASSUME NEW c \in Callers, Granted(c)
      PROVE  IInv'
  <2>1. asking[c] \in Calls /\ asking' \in [Callers -> Calls \cup {NoCall}]
    BY <1>4, <1>6 DEF Granted
  <2>2. PICK call \in Calls : call = asking[c]
    BY <2>1
  <2>3. Reserve(call)
    BY <1>6, <2>2 DEF Granted
  <2>4. granted' = granted \cup {call} /\ IsFiniteSet(granted')
    BY <1>6, <2>2, FS_AddElement DEF Granted, ValidGrants
  <2>5. ValidGrants'
    BY <1>5, <2>3, <2>4 DEF ValidGrants
  <2> QED
    BY <1>5, <2>1, <2>3, <2>4, <2>5, RowFixed
<1>7. ASSUME NEW c \in Callers, Refused(c)
      PROVE  IInv'
  BY <1>1, <1>4, <1>7 DEF Refused
<1>8. ASSUME NEW c \in Callers, Dies(c)
      PROVE  IInv'
  <2>1. asking[c] \in Calls /\ asking' \in [Callers -> Calls \cup {NoCall}]
    BY <1>4, <1>8 DEF Dies
  <2>2. granted' = granted
    BY <1>8 DEF Dies
  <2>3. CASE Rollback
    BY <1>1, <2>1, <2>2, <2>3 DEF Rollback
  <2>4. CASE Reserve(asking[c])
    <3>1. PICK call \in Calls : call = asking[c]
      BY <2>1
    <3>2. /\ OneRowEach' /\ reservations \subseteq reservations' /\ tracking' = tracking
          /\ Booked'
      BY <1>5, <2>4, <3>1
    <3>3. ValidGrants'
      BY <2>2, <3>2 DEF ValidGrants
    <3> QED
      BY <2>1, <2>2, <3>2, <3>3, RowFixed
  <2> QED
    BY <1>8, <2>3, <2>4 DEF Dies
<1> QED
  BY <1>2, <1>3, <1>6, <1>7, <1>8 DEF CallersNext

(* In the file one row per attempt and a sum within the ceiling, whatever      *)
(* reserve answers to whom; and the row of every call that was granted.       *)
THEOREM Invariance == CallersSpec => []IInv
BY InitInvariant, StepPreserves, PTL DEF CallersSpec

(* What the code adds up in the file never passes the ceiling of a campaign  *)
(* that has one, whoever reserves, dies or asks again (the trigger that        *)
(* raises campaign_exhausted).                                             *)
THEOREM SumIsWithinCeiling == CallersSpec => []SumWithinCeiling
<1>1. IInv => SumWithinCeiling
  BY DEF IInv, Booked
<1> QED
  BY <1>1, Invariance, PTL

LEMMA GrantsHaveRows ==
    ASSUME IInv
    PROVE  GrantsRecorded
<1>1. ASSUME NEW one \in granted, NEW other \in granted, one.attempt = other.attempt
      PROVE  one = other
  <2>1. Row(one) \in reservations /\ Row(other) \in reservations
    BY DEF IInv
  <2>2. Row(one).attempt = one.attempt /\ Row(other).attempt = other.attempt
    BY DEF Row
  <2>3. Row(one) = Row(other)
    BY <1>1, <2>1, <2>2 DEF IInv, OneRowEach
  <2>4. <<one.particulars, one.amount>> = <<other.particulars, other.amount>>
    BY <2>3 DEF Row
  <2> QED
    BY <1>1, <2>4, CallsAssumption DEF IInv
<1> QED
  BY <1>1 DEF IInv, GrantsRecorded

(* A grant is for good: its row stays, with the particulars of the caller   *)
(* it was granted to, and no other call is granted under its attempt.       *)
THEOREM GrantsAreForGood == CallersSpec => []GrantsRecorded
BY GrantsHaveRows, Invariance, PTL

-----------------------------------------------------------------------------
(* The exact amount of a grant, in the common part of a dollar, is covered    *)
(* by the units of its row.                                                *)
LEMMA PartsCovered ==
    ASSUME NEW call \in Calls, ~tracking,
           call.amount # NoAmount, call.amount[1] \in Nat,
           Row(call).units \in Nat
    PROVE  LET part == call.amount[1] * (Common \div call.amount[2])
           IN  part \in Nat /\ Scale * part <= Common * Row(call).units
<1> DEFINE n == call.amount[1]
           d == call.amount[2]
           u == Row(call).units
<1>1. d \in Nat \ {0} /\ d \in Denominators
  BY AmountsAssumption DEF Denominators
<1>2. PICK k \in Nat \ {0} : Common = d * k
  BY <1>1, CommonDivides
<1>3. Common \div d = k
  BY <1>1, <1>2
<1>4. n * Scale <= d * u
  BY <1>1, RoundedUpCovers DEF Row, Units
<1>5. \A a, b, e \in Nat : a <= b => e * a <= e * b
  OBVIOUS
<1> HIDE DEF n, d, u
<1>6. n \in Nat /\ u \in Nat /\ Scale \in Nat
  BY CampaignAssumption DEF n, u
<1>7. k * (n * Scale) <= k * (d * u)
  <2>1. n * Scale \in Nat /\ d * u \in Nat
    BY <1>1, <1>6
  <2> QED
    BY <1>2, <1>4, <1>5, <2>1
<1>8. Scale * (n * k) = k * (n * Scale) /\ k * (d * u) = (d * k) * u /\ n * k \in Nat
  BY <1>1, <1>2, <1>6
<1>9. n * k \in Nat /\ Scale * (n * k) <= Common * u
  BY <1>2, <1>7, <1>8
<1> QED
  BY <1>3, <1>9 DEF n, d, u

LEMMA GrantedCovered ==
    ASSUME IInv, ~tracking
    PROVE  GrantedTotal <= Ceiling * Common
<1> DEFINE S == granted
           h == Parts(S)
           p == [call \in S |-> Row(call)]
           u == [call \in S |-> Row(call).units]
           f == UnitsOf(reservations)
           rows == {p[call] : call \in S}
<1>1. IsFiniteSet(S) /\ IsFiniteSet(reservations) /\ Total <= Ceiling * Scale
  BY DEF IInv, Booked, ValidGrants, SumWithinCeiling
<1>2. \A call \in S : /\ call \in Calls /\ Row(call) \in reservations
                      /\ call.amount # NoAmount /\ call.amount[1] \in Nat
                      /\ Row(call).units \in Nat
  BY DEF IInv, Booked, ValidGrants
<1>3. \A call \in S : h[call] \in Nat /\ Scale * h[call] <= Common * u[call]
  BY <1>2, PartsCovered DEF Parts
<1>4. Weighs(h, S) /\ Weighs(u, S) /\ Weighs(f, reservations) /\ Weighs(f, rows)
  BY <1>2, <1>3 DEF Weighs, UnitsOf, IInv, Booked
<1>5. rows \in SUBSET reservations /\ \A call \in S : u[call] = f[p[call]]
  BY <1>2 DEF UnitsOf
<1>6. \A one, other \in S : p[one] = p[other] => one = other
  <2>1. \A call \in S : p[call].attempt = call.attempt
    BY DEF Row
  <2> HIDE DEF p
  <2> QED
    BY <2>1, GrantsHaveRows DEF GrantsRecorded
<1>7. GrantedTotal = SumOf(h, S)
  BY <1>1, <1>4, GrantedIsSum
<1>8. Total = SumOf(f, reservations)
  BY <1>1, TotalIsSum, TotalOfRows DEF IInv, Booked
<1>9. Scale \in Nat \ {0} /\ Ceiling \in Nat /\ Common \in Nat
  BY CampaignAssumption, CommonDivides
<1> HIDE DEF h, u, f, p
<1>10. Scale * SumOf(h, S) <= Common * SumOf(u, S)
  BY <1>1, <1>3, <1>4, <1>9, SumScaled
<1>11. SumOf(u, S) = SumOf(f, rows)
  BY <1>1, <1>4, <1>5, <1>6, SumOfImage
<1>12. SumOf(f, rows) <= SumOf(f, reservations)
  <2> HIDE DEF rows
  <2> QED
    BY <1>1, <1>4, <1>5, SumOfSubset
<1>13. SumOf(h, S) \in Nat /\ SumOf(u, S) \in Nat /\ SumOf(f, reservations) \in Nat
  BY <1>1, <1>4, SumType
<1>14. \A a, b, c, e, g \in Nat :
           a * b <= c * e /\ e <= g * a /\ a # 0 => b <= g * c
  <2>1. SUFFICES ASSUME NEW a \in Nat, NEW b \in Nat, NEW c \in Nat, NEW e \in Nat,
                        NEW g \in Nat, a * b <= c * e, e <= g * a, a # 0
                 PROVE  b <= g * c
    OBVIOUS
  <2>2. c * e <= c * (g * a)
    <3>1. g * a \in Nat
      OBVIOUS
    <3>2. \A x, y, z \in Nat : x <= y => z * x <= z * y
      OBVIOUS
    <3> QED
      BY <2>1, <3>1, <3>2
  <2>3. c * (g * a) = a * (g * c) /\ g * c \in Nat
    OBVIOUS
  <2>4. a * b <= a * (g * c)
    <3>1. a * b \in Nat /\ c * e \in Nat /\ a * (g * c) \in Nat
      BY <2>3
    <3> QED
      BY <2>1, <2>2, <2>3, <3>1
  <2>5. \A x, y, z \in Nat : z # 0 /\ z * x <= z * y => x <= y
    OBVIOUS
  <2> QED
    BY <2>1, <2>3, <2>4, <2>5
<1> QED
  BY <1>1, <1>7, <1>8, <1>9, <1>10, <1>11, <1>12, <1>13, <1>14

(* The exact amounts of everything that was ever granted stay within the      *)
(* ceiling, although the file only adds up the units that _units rounds to.  *)
THEOREM NeverOverspent == CallersSpec => []GrantedWithinCeiling
<1>1. IInv => GrantedWithinCeiling
  BY GrantedCovered
     DEF GrantedWithinCeiling, GrantedTotal, MapThenSumSet, MapThenFoldSet
<1> QED
  BY <1>1, Invariance, PTL
=============================================================================
