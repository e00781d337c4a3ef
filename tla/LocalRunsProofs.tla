-------------------------- MODULE LocalRunsProofs --------------------------
(***************************************************************************)
(* Proofs about judge panels (module JudgeRun) for every number of processes, *)
(* every panel, every list of calls and every number of faults; and about     *)
(* offline runs (module SyntheticRun, as Off) for every plan, every number of *)
(* processes, resumes and deaths.                                           *)
(***************************************************************************)
EXTENDS LocalRuns, FiniteSetTheorems, TLAPS

Single(file) ==
    \A i, k \in DOMAIN file :
        /\ file[i].result = "success" /\ file[k].result = "success"
        /\ file[i].key = file[k].key
        => i = k

Working == {"read", "loop", "asked", "answered"}

Invocations ==
    [state : States, call : Calls \cup {None}, create : BOOLEAN,
     done : SUBSET Keys, at : Nat \ {0}, sent : Nat,
     result : Outcomes \cup {None},
     halted : {None, "max_requests", "auth_rejected"}, complete : BOOLEAN]

(* An invocation that has read the ledger knows of every success in it,      *)
(* because nobody else writes while it holds the lock; and what it asks for   *)
(* is not among them.                                                      *)
Knows(invocation, file) ==
    /\ invocation.state # "out" => invocation.call \in Calls
    /\ invocation.state \in {"loop", "asked", "answered"} =>
           Succeeded(file) \subseteq invocation.done
    /\ invocation.state \in {"asked", "answered"} =>
           /\ invocation.at <= Len(Planned(invocation.call))
           /\ Planned(invocation.call)[invocation.at] \notin invocation.done
    /\ invocation.state = "answered" => invocation.result \in Outcomes
    /\ invocation.state \in {"open", "lock", "read"} => invocation.result = None
    /\ invocation.state = "loop" /\ invocation.result = "auth_rejected" =>
           invocation.halted = "auth_rejected"

IInv ==
    /\ TypeOK
    /\ ~newline => Len(lines) > 0
    /\ Single(lines)
    /\ \A p \in Processes : Knows(process[p], lines)

-----------------------------------------------------------------------------
(* Which request stands at a place of the plan.                             *)
LEMMA Division ==
    ASSUME NEW n \in Nat, NEW J \in Nat, NEW L \in Nat, n < J * L
    PROVE  /\ L > 0
           /\ n % L \in 0..(L - 1)
           /\ n \div L \in 0..(J - 1)
<1>1. L > 0
  <2>1. CASE L = 0
    <3>1. J * L = 0
      BY <2>1, SMT
    <3> QED
      BY <3>1, SMT
  <2> QED
    BY <2>1
<1>2. n % L \in 0..(L - 1) /\ n \div L \in Nat /\ n = L * (n \div L) + (n % L)
  BY <1>1, SMT
<1>3. ASSUME n \div L >= J PROVE FALSE
  <2> DEFINE d == n \div L
  <2>1. d \in Nat /\ d >= J
    BY <1>2, <1>3
  <2>2. L * d >= L * J
    BY <2>1, <1>1, SMT
  <2>3. n >= L * d
    BY <1>2, SMT
  <2> QED
    BY <2>1, <2>2, <2>3, SMT
<1> QED
  BY <1>1, <1>2, <1>3, SMT

LEMMA Product ==
    ASSUME NEW a \in Nat, NEW b \in Nat
    PROVE  a * b \in Nat
BY SMT

LEMMA Shift ==
    /\ \A m \in Nat : \A n \in 1..m : n - 1 \in Nat /\ n - 1 < m
    /\ \A m \in Nat : \A n \in 0..(m - 1) : 1 + n \in 1..m
BY SMT

LEMMA PlannedKeys ==
    ASSUME NEW call \in Calls
    PROVE  /\ Len(call.work) \in Nat /\ Len(call.judges) \in Nat
           /\ Len(Planned(call)) = Len(call.judges) * Len(call.work)
           /\ \A n \in 1..Len(Planned(call)) : Planned(call)[n] \in Keys
<1>1. call.work \in Seq(STRING) /\ call.judges \in Seq(Judges)
  BY CallsAssumption DEF Judges
<1> DEFINE J == Len(call.judges)
           L == Len(call.work)
<1>2. J \in Nat /\ L \in Nat
  BY <1>1
<1>3. J * L \in Nat
  BY <1>2, Product
<1>4. Len(Planned(call)) = J * L
  BY <1>3 DEF Planned
<1>5. ASSUME NEW n \in 1..(J * L)
      PROVE  Planned(call)[n] \in Keys
  <2>1. n - 1 \in Nat /\ n - 1 < J * L
    <3> HIDE DEF J, L
    <3> QED
      BY <1>3, <1>5, Shift
  <2> DEFINE w == 1 + ((n - 1) % L)
             j == 1 + ((n - 1) \div L)
  <2>2. w \in 1..L /\ j \in 1..J
    <3>1. (n - 1) % L \in 0..(L - 1) /\ (n - 1) \div L \in 0..(J - 1)
      BY <2>1, <1>2, Division
    <3> QED
      BY <3>1, <1>2, Shift
  <2>3. Planned(call)[n] = <<call.work[w], call.judges[j]>>
    BY <1>5 DEF Planned
  <2> HIDE DEF w, j
  <2>4. call.work[w] \in ToSet(call.work)
    BY <2>2, <1>1 DEF ToSet
  <2>5. call.judges[j] \in ToSet(call.judges)
    BY <2>2, <1>1 DEF ToSet
  <2>6. Planned(call)[n] \in ToSet(call.work) \X ToSet(call.judges)
    BY <2>3, <2>4, <2>5
  <2> QED
    BY <2>6, Zenon DEF Keys
<1> QED
  BY <1>2, <1>4, <1>5

LEMMA ResultIsOutcome ==
    ASSUME NEW judge, NEW reply \in Replies(judge)
    PROVE  Result(judge, reply) \in Outcomes
BY DEF Result, Replies, Generative, Jev, Outcomes

-----------------------------------------------------------------------------
(* What appending a line does to the successes of a ledger.                 *)
LEMMA SucceededKeys ==
    ASSUME NEW file \in Seq(Lines)
    PROVE  /\ Succeeded(file) \subseteq Keys
           /\ Succeeded(file) = {file[i].key : i \in {k \in DOMAIN file : file[k].result = "success"}}
<1>1. \A i \in DOMAIN file : file[i] \in Lines
  OBVIOUS
<1>2. \A line \in Lines : line.result = "success" => line.key \in Keys
  BY DEF Lines, Torn
<1> QED
  BY <1>1, <1>2 DEF Succeeded, ToSet

LEMMA AppendKeeps ==
    ASSUME NEW file \in Seq(Lines), NEW line \in Lines, Single(file),
           line.result = "success" => line.key \notin Succeeded(file)
    PROVE  /\ Append(file, line) \in Seq(Lines)
           /\ Len(Append(file, line)) > 0
           /\ Single(Append(file, line))
           /\ \A key \in Succeeded(Append(file, line)) :
                  key \in Succeeded(file) \/ (line.result = "success" /\ key = line.key)
<1> DEFINE longer == Append(file, line)
<1>1. longer \in Seq(Lines) /\ Len(longer) = Len(file) + 1 /\ Len(file) \in Nat
      /\ DOMAIN longer = 1..(Len(file) + 1) /\ DOMAIN file = 1..Len(file)
  OBVIOUS
<1>2. \A i \in DOMAIN file : longer[i] = file[i]
  OBVIOUS
<1>3. longer[Len(file) + 1] = line
  OBVIOUS
<1> HIDE DEF longer
<1>4. \A i \in DOMAIN longer : i \in DOMAIN file \/ i = Len(file) + 1
  BY <1>1, SMT
<1>5. \A i \in DOMAIN file : file[i].result = "success" => file[i].key \in Succeeded(file)
  BY SucceededKeys
<1>6. Single(longer)
  BY <1>2, <1>3, <1>4, <1>5 DEF Single
<1>7. \A key \in Succeeded(longer) : \E i \in DOMAIN longer :
          longer[i].result = "success" /\ longer[i].key = key
  BY <1>1, SucceededKeys
<1>8. \A key \in Succeeded(longer) :
          key \in Succeeded(file) \/ (line.result = "success" /\ key = line.key)
  BY <1>2, <1>3, <1>4, <1>5, <1>7
<1> QED
  BY <1>1, <1>6, <1>8, SMT DEF longer

LEMMA FrontKeeps ==
    ASSUME NEW file \in Seq(Lines), Len(file) > 0, Single(file)
    PROVE  /\ Front(file) \in Seq(Lines)
           /\ Single(Front(file))
           /\ Succeeded(Front(file)) \subseteq Succeeded(file)
<1> DEFINE shorter == Front(file)
<1>1. shorter \in Seq(Lines) /\ DOMAIN shorter \subseteq DOMAIN file
      /\ \A i \in DOMAIN shorter : shorter[i] = file[i]
  BY DEF Front
<1> HIDE DEF shorter
<1>2. Single(shorter)
  BY <1>1 DEF Single
<1>3. Succeeded(shorter) \subseteq Succeeded(file)
  BY <1>1, SucceededKeys
<1> QED
  BY <1>1, <1>2, <1>3 DEF shorter

(* What the file may hold after a write by a process that knows its lines,   *)
(* whole or not.                                                           *)
Written(file, key, result) ==
    /\ file \in Seq(Lines)
    /\ Len(file) > 0
    /\ Single(file)
    /\ \A k \in Succeeded(file) : k \in Succeeded(lines) \/ (result = "success" /\ k = key)

LEMMA AppendedKeeps ==
    ASSUME IInv, NEW line \in Lines,
           line.result = "success" => line.key \notin Succeeded(lines)
    PROVE  Written(Appended(line), line.key, line.result)
<1>1. lines \in Seq(Lines) /\ Single(lines) /\ (~newline => Len(lines) > 0)
  BY DEF IInv, TypeOK
<1>2. Torn \in Lines /\ Torn.result # "success"
  BY DEF Lines, Torn
<1>3. CASE newline
  BY <1>1, <1>3, AppendKeeps DEF Appended, Written
<1>4. CASE ~newline
  <2>1. Front(lines) \in Seq(Lines) /\ Single(Front(lines))
        /\ Succeeded(Front(lines)) \subseteq Succeeded(lines)
    BY <1>1, <1>4, FrontKeeps
  <2>2. Written(Append(Front(lines), Torn), line.key, line.result)
    BY <2>1, <1>2, AppendKeeps DEF Written
  <2> QED
    BY <2>2, <1>4 DEF Appended
<1> QED
  BY <1>3, <1>4

LEMMA TornKeeps ==
    ASSUME IInv, NEW key
    PROVE  /\ Written(Append(lines, Torn), key, "torn")
           /\ ~newline => Written(Append(Front(lines), Torn), key, "torn")
<1>1. lines \in Seq(Lines) /\ Single(lines) /\ (~newline => Len(lines) > 0)
  BY DEF IInv, TypeOK
<1>2. Torn \in Lines /\ Torn.result # "success"
  BY DEF Lines, Torn
<1>3. Written(Append(lines, Torn), key, "torn")
  BY <1>1, <1>2, AppendKeeps DEF Written
<1>4. ASSUME ~newline PROVE Written(Append(Front(lines), Torn), key, "torn")
  <2>1. Front(lines) \in Seq(Lines) /\ Single(Front(lines))
        /\ Succeeded(Front(lines)) \subseteq Succeeded(lines)
    BY <1>1, <1>4, FrontKeeps
  <2> QED
    BY <2>1, <1>2, AppendKeeps DEF Written
<1> QED
  BY <1>3, <1>4
-----------------------------------------------------------------------------
(* A step of one process that keeps to the lock. *)
LEMMA Update ==
    ASSUME IInv, NEW p \in Processes, NEW r \in Invocations,
           process' = [process EXCEPT ![p] = r],
           Knows(r, lines'),
           r.state \in Working <=> holder' = p,
           holder' = holder \/ (holder \in {None, p} /\ holder' \in {None, p}),
           lines' = lines \/ holder = p,
           lines' \in Seq(Lines), Single(lines'), ~newline' => Len(lines') > 0,
           lockFile' \in BOOLEAN, newline' \in BOOLEAN, saved' \subseteq Keys,
           report' = report, calls' \in 0..MaxCalls, faults' \in 0..MaxFaults
    PROVE  IInv'
<1>1. /\ process \in [Processes -> Invocations]
      /\ report \in (SUBSET Keys) \cup {None}
      /\ holder \in Processes \cup {None}
      /\ \A q \in Processes : process[q].state \in Working <=> holder = q
      /\ \A q \in Processes : Knows(process[q], lines)
  BY DEF IInv, TypeOK, Invocations, Working
<1>2. /\ process' \in [Processes -> Invocations]
      /\ process'[p] = r
      /\ \A q \in Processes : q # p => process'[q] = process[q]
  BY <1>1
<1>3. holder' \in Processes \cup {None}
  BY <1>1
<1>4. ASSUME NEW q \in Processes
      PROVE  process'[q].state \in Working <=> holder' = q
  BY <1>1, <1>2, NoneAssumption
<1>5. ASSUME NEW q \in Processes
      PROVE  Knows(process'[q], lines')
  <2>1. CASE q = p
    BY <2>1, <1>2
  <2>2. CASE q # p /\ lines' = lines
    BY <2>2, <1>1, <1>2
  <2>3. CASE q # p /\ holder = p
    <3>1. process'[q] = process[q] /\ process[q].state \notin Working
      BY <2>3, <1>1, <1>2
    <3>2. Knows(process[q], lines)
      BY <1>1
    <3> QED
      BY <3>1, <3>2 DEF Knows, Working
  <2> QED
    BY <2>1, <2>2, <2>3
<1>6. TypeOK'
  BY <1>1, <1>2, <1>3, <1>4 DEF TypeOK, Invocations, Working
<1> QED
  BY <1>5, <1>6 DEF IInv

LEMMA InitInvariant == Init => IInv
<1> SUFFICES ASSUME Init PROVE IInv
  OBVIOUS
<1>1. Absent \in Invocations /\ Absent.state = "out"
  BY DEF Absent, Invocations, States
<1>2. TypeOK
  <2>1. process \in [Processes -> Invocations]
    BY <1>1 DEF Init
  <2>2. \A p \in Processes : process[p].state = "out" /\ holder # p
    BY <1>1, NoneAssumption DEF Init
  <2>3. lines \in Seq(Lines)
    BY DEF Init
  <2>4. calls \in 0..MaxCalls /\ faults \in 0..MaxFaults
    BY BoundsAssumption DEF Init
  <2> QED
    BY <2>1, <2>2, <2>3, <2>4 DEF Init, TypeOK, Invocations
<1>3. Single(lines)
  BY DEF Init, Single
<1>4. \A p \in Processes : Knows(process[p], lines)
  BY <1>1 DEF Init, Knows
<1> QED
  BY <1>2, <1>3, <1>4 DEF IInv, Init

-----------------------------------------------------------------------------
(* The facts of a state that the steps use. *)
LEMMA Facts ==
    ASSUME IInv, NEW p \in Processes
    PROVE  /\ process[p] \in Invocations
           /\ process \in [Processes -> Invocations]
           /\ Knows(process[p], lines)
           /\ process[p].state \in Working <=> holder = p
           /\ lockFile \in BOOLEAN /\ newline \in BOOLEAN /\ saved \subseteq Keys
           /\ lines \in Seq(Lines) /\ Single(lines) /\ (~newline => Len(lines) > 0)
           /\ calls \in 0..MaxCalls /\ faults \in 0..MaxFaults
           /\ holder \in Processes \cup {None}
BY DEF IInv, TypeOK, Invocations, Working

(* Going on to another state changes nothing else of an invocation. *)
LEMMA GoesOn ==
    ASSUME NEW v \in Invocations, NEW s \in States
    PROVE  /\ [v EXCEPT !.state = s] \in Invocations
           /\ [v EXCEPT !.state = s].state = s
           /\ [v EXCEPT !.state = s].call = v.call
           /\ [v EXCEPT !.state = s].done = v.done
           /\ [v EXCEPT !.state = s].at = v.at
           /\ [v EXCEPT !.state = s].result = v.result
BY DEF Invocations

LEMMA OutIsFine ==
    /\ Absent \in Invocations /\ Absent.state \notin Working
    /\ \A file : Knows(Absent, file)
BY DEF Absent, Invocations, States, Knows, Working

LEMMA ArriveKeeps ==
    ASSUME IInv, NEW p \in Processes, NEW call \in Calls, Arrive(p, call)
    PROVE  IInv'
<1> DEFINE r == [Absent EXCEPT !.state = "open", !.call = call, !.create = ~lockFile]
<1>1. r \in Invocations /\ r.state = "open" /\ r.call = call /\ r.result = None
  <2>1. PICK create \in BOOLEAN : create = ~lockFile
    OBVIOUS
  <2> QED
    BY <2>1, OutIsFine DEF Absent, Invocations, States
<1>2. process' = [process EXCEPT ![p] = r]
  BY DEF Arrive
<1>3. Knows(r, lines') /\ r.state \notin Working
  BY <1>1 DEF Knows, Working
<1>4. calls' \in 0..MaxCalls
  BY Facts, BoundsAssumption DEF Arrive
<1>5. holder # p
  BY Facts DEF Arrive, At, Working
<1> HIDE DEF r
<1> QED
  BY <1>1, <1>2, <1>3, <1>4, <1>5, Facts, Update DEF Arrive

(* A step after which the process is gone, and its lock with it. *)
LEMMA LeaveKeeps ==
    ASSUME IInv, NEW p \in Processes, process' = [process EXCEPT ![p] = Absent],
           holder' = IF holder = p THEN None ELSE holder,
           lines' \in Seq(Lines), Single(lines'), ~newline' => Len(lines') > 0,
           lines' = lines \/ holder = p,
           lockFile' = lockFile, newline' \in BOOLEAN, saved' = saved,
           report' = report, calls' = calls, faults' \in 0..MaxFaults
    PROVE  IInv'
<1>1. holder' # p
  BY NoneAssumption
<1>2. Knows(Absent, lines')
  BY OutIsFine
<1> QED
  BY <1>1, <1>2, OutIsFine, Facts, Update

LEMMA OpenLockKeeps ==
    ASSUME IInv, NEW p \in Processes, OpenLock(p)
    PROVE  IInv'
<1> DEFINE r == [process[p] EXCEPT !.state = "lock"]
<1>1. r \in Invocations /\ r.state = "lock" /\ r.call = process[p].call
      /\ r.result = process[p].result
  <2>1. process[p] \in Invocations
    BY Facts
  <2>2. "lock" \in States
    BY DEF States
  <2> QED
    BY <2>1, <2>2, GoesOn
<1>2. Knows(r, lines') /\ r.state \notin Working
  BY <1>1, Facts DEF Knows, Working, OpenLock, At
<1>3. holder # p
  BY Facts DEF OpenLock, At, Working
<1>4. CASE process' = [process EXCEPT ![p] = Absent]
  BY <1>3, <1>4, LeaveKeeps, Facts, OutIsFine, Update DEF OpenLock
<1>5. CASE process' = [process EXCEPT ![p] = r] /\ lockFile' = TRUE
  <2> HIDE DEF r
  <2> QED
    BY <1>1, <1>2, <1>3, <1>5, Facts, Update DEF OpenLock
<1>6. \/ process' = [process EXCEPT ![p] = Absent] /\ lockFile' = lockFile
      \/ process' = [process EXCEPT ![p] = r] /\ lockFile' = TRUE
  BY Facts DEF OpenLock, Leave
<1> QED
  BY <1>4, <1>5, <1>6

LEMMA FlockKeeps ==
    ASSUME IInv, NEW p \in Processes, Flock(p)
    PROVE  IInv'
<1> DEFINE r == [process[p] EXCEPT !.state = "read"]
<1>1. r \in Invocations /\ r.state = "read" /\ r.call = process[p].call
      /\ r.result = process[p].result
  <2>1. process[p] \in Invocations
    BY Facts
  <2>2. "read" \in States
    BY DEF States
  <2> QED
    BY <2>1, <2>2, GoesOn
<1>2. Knows(r, lines') /\ r.state \in Working
  BY <1>1, Facts DEF Knows, Working, Flock, At
<1>3. CASE holder = None
  <2>1. process' = [process EXCEPT ![p] = r] /\ holder' = p
    BY <1>3 DEF Flock
  <2> HIDE DEF r
  <2> QED
    BY <2>1, <1>1, <1>2, <1>3, Facts, Update DEF Flock
<1>4. CASE holder # None
  BY <1>4, Facts, LeaveKeeps DEF Flock, Leave, At, Working
<1> QED
  BY <1>3, <1>4

LEMMA ReadLedgerKeeps ==
    ASSUME IInv, NEW p \in Processes, ReadLedger(p)
    PROVE  IInv'
<1> DEFINE r == [process[p] EXCEPT !.state = "loop", !.done = Succeeded(lines)]
<1>0. holder = p /\ lines \in Seq(Lines)
  BY Facts DEF ReadLedger, At, Working
<1>1. r \in Invocations /\ r.state = "loop" /\ r.call = process[p].call
      /\ r.done = Succeeded(lines) /\ r.result = process[p].result
  <2>1. process[p] \in Invocations
    BY Facts
  <2>2. PICK known \in SUBSET Keys : known = Succeeded(lines)
    BY <1>0, SucceededKeys
  <2> QED
    BY <2>1, <2>2 DEF Invocations, States
<1>2. Knows(r, lines') /\ r.state \in Working
  BY <1>1, Facts, NoneAssumption DEF Knows, Working, ReadLedger, At
<1>3. CASE Readable(lines)
  <2>1. process' = [process EXCEPT ![p] = r] /\ holder' = holder
    BY <1>3, Facts DEF ReadLedger
  <2> HIDE DEF r
  <2> QED
    BY <2>1, <1>0, <1>1, <1>2, Facts, Update DEF ReadLedger
<1>4. CASE ~Readable(lines)
  BY <1>0, <1>4, Facts, LeaveKeeps DEF ReadLedger, Leave
<1> QED
  BY <1>3, <1>4

(* A step inside the loop that leaves the file alone. *)
LEMMA LoopKeeps ==
    ASSUME IInv, NEW p \in Processes, NEW r \in Invocations, holder = p,
           process' = [process EXCEPT ![p] = r], Knows(r, lines), r.state \in Working,
           UNCHANGED <<lockFile, holder, lines, newline, report, saved, calls, faults>>
    PROVE  IInv'
BY Facts, Update

LEMMA SkipKeeps ==
    ASSUME IInv, NEW p \in Processes, Skip(p)
    PROVE  IInv'
<1> DEFINE r == [process[p] EXCEPT !.at = @ + 1]
<1>1. r \in Invocations /\ r.state = "loop" /\ r.call = process[p].call
      /\ r.done = process[p].done /\ r.result = process[p].result
      /\ r.halted = process[p].halted
  <2>1. process[p].at + 1 \in Nat \ {0}
    BY Facts DEF Invocations
  <2> QED
    BY <2>1, Facts DEF Invocations, Skip, At
<1>2. holder = p
  BY Facts DEF Skip, At, Working
<1>3. Knows(r, lines) /\ r.state \in Working
  BY <1>1, Facts DEF Knows, Working, Skip, At
<1>4. process' = [process EXCEPT ![p] = r]
  BY DEF Skip
<1> HIDE DEF r
<1> QED
  BY <1>1, <1>2, <1>3, <1>4, LoopKeeps DEF Skip

LEMMA SendKeeps ==
    ASSUME IInv, NEW p \in Processes, Send(p)
    PROVE  IInv'
<1> DEFINE r == [process[p] EXCEPT !.state = "asked"]
<1>1. r \in Invocations /\ r.state = "asked" /\ r.call = process[p].call
      /\ r.done = process[p].done /\ r.at = process[p].at
  <2>1. process[p] \in Invocations
    BY Facts
  <2>2. "asked" \in States
    BY DEF States
  <2> QED
    BY <2>1, <2>2, GoesOn
<1>2. holder = p
  BY Facts DEF Send, At, Working
<1>3. Knows(r, lines) /\ r.state \in Working
  BY <1>1, Facts DEF Knows, Working, Send, At, Remaining, Key
<1>4. process' = [process EXCEPT ![p] = r]
  BY DEF Send
<1> HIDE DEF r
<1> QED
  BY <1>1, <1>2, <1>3, <1>4, LoopKeeps DEF Send

LEMMA AnswerKeeps ==
    ASSUME IInv, NEW p \in Processes, NEW judge \in Judges, NEW reply \in Replies(judge),
           Answer(p, judge, reply)
    PROVE  IInv'
<1> DEFINE r == [process[p] EXCEPT !.state = "answered", !.sent = @ + 1,
                                   !.result = Result(judge, reply)]
<1>0. Result(judge, reply) \in Outcomes
  BY ResultIsOutcome
<1>1. r \in Invocations /\ r.state = "answered" /\ r.call = process[p].call
      /\ r.done = process[p].done /\ r.at = process[p].at /\ r.result \in Outcomes
  <2>1. process[p] \in Invocations
    BY Facts
  <2>2. PICK n \in Nat : n = process[p].sent + 1
    BY <2>1 DEF Invocations
  <2>3. PICK outcome \in Outcomes : outcome = Result(judge, reply)
    BY <1>0
  <2> QED
    BY <2>1, <2>2, <2>3 DEF Invocations, States
<1>2. holder = p
  BY Facts DEF Answer, At, Working
<1>3. Knows(r, lines) /\ r.state \in Working
  BY <1>1, Facts DEF Knows, Working, Answer, At
<1>4. process' = [process EXCEPT ![p] = r]
  BY Facts DEF Answer, Invocations
<1> HIDE DEF r
<1> QED
  BY <1>1, <1>2, <1>3, <1>4, LoopKeeps DEF Answer

LEMMA SummariseKeeps ==
    ASSUME IInv, NEW p \in Processes, At(p, "loop"),
           NEW halted \in {None, "max_requests", "auth_rejected"}, Summarise(p, halted)
    PROVE  IInv'
<1> DEFINE r == [process[p] EXCEPT !.state = "ended", !.halted = halted,
                     !.complete = ToSet(Planned(process[p].call)) \subseteq process[p].done]
<1>1. r \in Invocations /\ r.state = "ended" /\ r.call = process[p].call
  <2> DEFINE complete == ToSet(Planned(process[p].call)) \subseteq process[p].done
  <2>1. complete \in BOOLEAN
    OBVIOUS
  <2>2. process[p] \in Invocations
    BY Facts
  <2> HIDE DEF complete
  <2>3. [process[p] EXCEPT !.state = "ended", !.halted = halted, !.complete = complete]
            \in Invocations
    BY <2>1, <2>2 DEF Invocations, States
  <2>4. /\ [process[p] EXCEPT !.state = "ended", !.halted = halted,
                             !.complete = complete].state = "ended"
        /\ [process[p] EXCEPT !.state = "ended", !.halted = halted,
                             !.complete = complete].call = process[p].call
    BY <2>2 DEF Invocations
  <2> QED
    BY <2>3, <2>4 DEF complete
<1>2. holder = p
  BY Facts DEF At, Working
<1>3. Knows(r, lines') /\ r.state \notin Working
  BY <1>1, Facts DEF Knows, Working, At
<1>4. process' = [process EXCEPT ![p] = r]
  BY Facts DEF Summarise, Invocations
<1> HIDE DEF r
<1> QED
  BY <1>1, <1>2, <1>3, <1>4, Facts, NoneAssumption, Update DEF Summarise

LEMMA ReturnKeeps ==
    ASSUME IInv, NEW p \in Processes, Return(p)
    PROVE  IInv'
<1>1. holder # p
  BY Facts DEF Return, At, Working
<1> QED
  BY <1>1, Facts, LeaveKeeps DEF Return, Leave

(* An answer that is a success is one to a request that has none yet. *)
LEMMA AnsweredKey ==
    ASSUME IInv, NEW p \in Processes, At(p, "answered")
    PROVE  /\ Key(p) \in Keys
           /\ Key(p) \notin Succeeded(lines)
           /\ process[p].result \in Outcomes
           /\ [key |-> Key(p), result |-> process[p].result] \in Lines
           /\ holder = p
<1>1. /\ process[p].call \in Calls
      /\ process[p].at <= Len(Planned(process[p].call))
      /\ process[p].result \in Outcomes
      /\ Key(p) \notin process[p].done /\ Succeeded(lines) \subseteq process[p].done
      /\ holder = p
  BY Facts DEF Knows, At, Key, Working
<1>2. process[p].at \in Nat \ {0}
  BY Facts DEF Invocations
<1>3. Len(Planned(process[p].call)) \in Nat
  BY <1>1, PlannedKeys, Product
<1>4. process[p].at \in 1..Len(Planned(process[p].call))
  BY <1>1, <1>2, <1>3
<1>5. Key(p) \in Keys
  BY <1>1, <1>4, PlannedKeys DEF Key
<1> QED
  BY <1>1, <1>5 DEF Lines

LEMMA AfterKnows ==
    ASSUME IInv, NEW p \in Processes, At(p, "answered"),
           NEW file, Written(file, Key(p), process[p].result)
    PROVE  After(p) \in Invocations /\ After(p).state = "loop" /\ Knows(After(p), file)
<1>1. /\ process[p] \in Invocations
      /\ process[p].call \in Calls
      /\ Succeeded(lines) \subseteq process[p].done
      /\ Key(p) \in Keys
  BY Facts, AnsweredKey DEF Knows, At
<1>2. process[p].at + 1 \in Nat \ {0}
  BY <1>1 DEF Invocations
<1>3. CASE process[p].result = "success"
  <2> DEFINE r == [process[p] EXCEPT !.state = "loop", !.done = @ \cup {Key(p)}, !.at = @ + 1]
  <2>1. r \in Invocations /\ r.state = "loop" /\ r.call = process[p].call
        /\ r.done = process[p].done \cup {Key(p)} /\ r.result = process[p].result
    BY <1>1, <1>2 DEF Invocations, States
  <2>2. Succeeded(file) \subseteq r.done
    BY <1>1, <2>1 DEF Written
  <2>3. After(p) = r
    BY <1>3 DEF After
  <2> HIDE DEF r
  <2> QED
    BY <1>1, <1>3, <2>1, <2>2, <2>3 DEF Knows
<1>4. CASE process[p].result # "success"
  <2>1. Succeeded(file) \subseteq process[p].done
    BY <1>1, <1>4 DEF Written
  <2>2. CASE process[p].result = "auth_rejected"
    <3> DEFINE r == [process[p] EXCEPT !.state = "loop", !.halted = "auth_rejected"]
    <3>1. r \in Invocations /\ r.state = "loop" /\ r.call = process[p].call
          /\ r.done = process[p].done /\ r.halted = "auth_rejected"
      BY <1>1 DEF Invocations, States
    <3>2. After(p) = r
      BY <2>2 DEF After
    <3> HIDE DEF r
    <3> QED
      BY <1>1, <2>1, <3>1, <3>2 DEF Knows
  <2>3. CASE process[p].result # "auth_rejected"
    <3> DEFINE r == [process[p] EXCEPT !.state = "loop", !.at = @ + 1]
    <3>1. r \in Invocations /\ r.state = "loop" /\ r.call = process[p].call
          /\ r.done = process[p].done /\ r.result = process[p].result
      BY <1>1, <1>2 DEF Invocations, States
    <3>2. After(p) = r
      BY <1>4, <2>3 DEF After
    <3> HIDE DEF r
    <3> QED
      BY <1>1, <2>1, <2>3, <3>1, <3>2 DEF Knows
  <2> QED
    BY <2>2, <2>3
<1> QED
  BY <1>3, <1>4

LEMMA WriteLineKeeps ==
    ASSUME IInv, NEW p \in Processes, WriteLine(p)
    PROVE  IInv'
<1> DEFINE line == [key |-> Key(p), result |-> process[p].result]
<1>1. At(p, "answered") /\ lines' = Appended(line) /\ newline' = TRUE
      /\ process' = [process EXCEPT ![p] = After(p)] /\ holder' = holder
  BY DEF WriteLine
<1>2. holder = p /\ line \in Lines /\ Key(p) \in Keys /\ Key(p) \notin Succeeded(lines)
  BY <1>1, AnsweredKey
<1>3. Written(lines', Key(p), process[p].result)
  <2>1. line.key = Key(p) /\ line.result = process[p].result
    OBVIOUS
  <2> HIDE DEF line
  <2> QED
    BY <1>1, <1>2, <2>1, AppendedKeeps
<1>4. After(p) \in Invocations /\ After(p).state \in Working /\ Knows(After(p), lines')
  BY <1>1, <1>3, AfterKnows DEF Working
<1>5. saved' \subseteq Keys
  BY <1>2, Facts DEF WriteLine
<1> QED
  BY <1>1, <1>2, <1>3, <1>4, <1>5, Facts, Update DEF WriteLine, Written

LEMMA WriteStopsKeeps ==
    ASSUME IInv, NEW p \in Processes, WriteStops(p)
    PROVE  /\ lines' \in Seq(Lines) /\ Single(lines') /\ (~newline' => Len(lines') > 0)
           /\ newline' \in BOOLEAN /\ holder = p
<1> DEFINE line == [key |-> Key(p), result |-> process[p].result]
<1>1. At(p, "answered")
  BY DEF WriteStops
<1>2. holder = p /\ line \in Lines /\ Key(p) \notin Succeeded(lines) /\ line.key = Key(p)
  BY <1>1, AnsweredKey
<1>3. CASE UNCHANGED <<lines, newline>>
  BY <1>2, <1>3, Facts
<1>4. CASE lines' = (IF newline THEN Append(lines, Torn) ELSE Append(Front(lines), Torn))
           /\ newline' = FALSE
  BY <1>2, <1>4, TornKeeps DEF Written
<1>5. CASE lines' = Appended(line) /\ newline' \in BOOLEAN
  <2> HIDE DEF line
  <2> QED
    BY <1>2, <1>5, AppendedKeeps DEF Written
<1> QED
  BY <1>3, <1>4, <1>5 DEF WriteStops

LEMMA FaultKeeps ==
    ASSUME IInv, NEW p \in Processes, Fault(p)
    PROVE  IInv'
<1>1. faults' \in 0..MaxFaults
  BY Facts, BoundsAssumption DEF Fault
<1>2. /\ lines' \in Seq(Lines) /\ Single(lines') /\ (~newline' => Len(lines') > 0)
      /\ newline' \in BOOLEAN
      /\ lines' = lines \/ holder = p
  <2>1. CASE WriteStops(p)
    BY <2>1, WriteStopsKeeps
  <2>2. CASE UNCHANGED <<lines, newline>>
    BY <2>2, Facts
  <2> QED
    BY <2>1, <2>2 DEF Fault
<1> QED
  BY <1>1, <1>2, LeaveKeeps DEF Fault, Leave

LEMMA ReadsKeep ==
    ASSUME IInv, FirstRead \/ SecondRead
    PROVE  IInv'
<1>1. /\ report' \in (SUBSET Keys) \cup {None}
      /\ UNCHANGED <<lockFile, holder, lines, newline, process, saved, calls, faults>>
  BY SucceededKeys DEF FirstRead, SecondRead, IInv, TypeOK
<1> QED
  BY <1>1 DEF IInv, TypeOK, Knows

LEMMA StutterKeeps ==
    ASSUME IInv, UNCHANGED vars
    PROVE  IInv'
BY DEF IInv, TypeOK, Knows, vars

LEMMA StepPreserves ==
    ASSUME IInv, [Next]_vars
    PROVE  IInv'
<1>1. ASSUME NEW p \in Processes, Proceed(p)
      PROVE  IInv'
  <2>1. CASE Looping(p)
    BY <2>1, SkipKeeps, SendKeeps, SummariseKeeps DEF Looping, HaltAtLimit, Finish
  <2>2. CASE HaltOnRejection(p)
    BY <2>2, SummariseKeeps DEF HaltOnRejection
  <2>3. CASE \E judge \in Judges : \E reply \in Replies(judge) : Answer(p, judge, reply)
    BY <2>3, AnswerKeeps
  <2> QED
    BY <1>1, <2>1, <2>2, <2>3, OpenLockKeeps, FlockKeeps, ReadLedgerKeeps, WriteLineKeeps,
       ReturnKeeps DEF Proceed
<1>2. ASSUME NEW p \in Processes, NEW call \in Calls, Arrive(p, call)
      PROVE  IInv'
  BY <1>2, ArriveKeeps
<1> QED
  BY <1>1, <1>2, FaultKeeps, ReadsKeep, StutterKeeps DEF Next

-----------------------------------------------------------------------------
(* Whatever processes run a panel and wherever they die, run.lock has at     *)
(* most one holder, only a holder reads, sends and writes, and the ledger     *)
(* holds records of planned requests and lines that were cut off.            *)
THEOREM TypeCorrect == Spec => []TypeOK
<1>1. IInv => TypeOK
  BY DEF IInv
<1> QED
  BY <1>1, InitInvariant, StepPreserves, PTL DEF Spec

(* No request is paid for twice once its success is in the ledger: of every   *)
(* key there is one successful line at most (run's `done', which is read      *)
(* under the lock).                                                        *)
THEOREM PaidOnce == Spec => []OneSuccessPerKey
<1>1. IInv => OneSuccessPerKey
  BY DEF IInv, Single, OneSuccessPerKey
<1> QED
  BY <1>1, InitInvariant, StepPreserves, PTL DEF Spec

(* No line that was written whole is ever changed, by a retry, by a death in   *)
(* the middle of a line or by a write after one (_append only appends).       *)
Keeps(file) ==
    \A i \in DOMAIN lines : i < Len(lines) \/ newline => i \in DOMAIN file /\ file[i] = lines[i]

LEMMA PrefixLength ==
    ASSUME NEW S, NEW s \in Seq(S), NEW n \in Nat, n <= Len(s)
    PROVE  Len(SubSeq(s, 1, n)) = n
<1>1. CASE n = 0
  BY <1>1
<1>2. CASE n > 0
  BY <1>2
<1> QED
  BY <1>1, <1>2

LEMMA AppendsKeep ==
    ASSUME IInv, NEW line
    PROVE  /\ Keeps(lines)
           /\ newline => Keeps(Append(lines, line))
           /\ ~newline => Keeps(Append(Front(lines), line))
<1>1. lines \in Seq(Lines) /\ (~newline => Len(lines) > 0)
  BY DEF IInv, TypeOK
<1>2. lines \in Seq(Lines \cup {line}) /\ Len(lines) \in Nat
  BY <1>1
<1>3. newline => Keeps(Append(lines, line))
  BY <1>2 DEF Keeps
<1>4. ASSUME ~newline PROVE Keeps(Append(Front(lines), line))
  <2>1. /\ Front(lines) \in Seq(Lines \cup {line})
        /\ Len(Front(lines)) = Len(lines) - 1
        /\ \A i \in 1..(Len(lines) - 1) : Front(lines)[i] = lines[i]
    <3>1. Len(lines) - 1 \in Nat /\ Len(lines) - 1 <= Len(lines)
      BY <1>1, <1>2, <1>4
    <3>2. \A i \in 1..(Len(lines) - 1) : lines[i] \in Lines \cup {line}
      BY <1>2, <3>1
    <3>3. Front(lines) = SubSeq(lines, 1, Len(lines) - 1)
      BY Zenon DEF Front
    <3>6. Len(SubSeq(lines, 1, Len(lines) - 1)) = Len(lines) - 1
      BY <1>2, <3>1, PrefixLength
    <3>4. \A i \in 1..(Len(lines) - 1) : SubSeq(lines, 1, Len(lines) - 1)[i] = lines[i]
      BY <1>2, <3>1
    <3>5. SubSeq(lines, 1, Len(lines) - 1) \in Seq(Lines \cup {line})
      BY <1>2, <3>1, <3>2
    <3> QED
      BY <3>3, <3>4, <3>5, <3>6
  <2> QED
    BY <1>2, <1>4, <2>1 DEF Keeps
<1> QED
  BY <1>3, <1>4 DEF Keeps

(* The judges' ledger.jsonl only grows at its end, by at most one line at a    *)
(* time: _append writes behind what is there and nothing is ever rewritten.   *)
THEOREM LinesStay == Spec => AttemptsKept
<1>1. ASSUME IInv, [Next]_vars PROVE Keeps(lines')
  <2>1. ASSUME NEW p \in Processes, WriteLine(p) PROVE Keeps(lines')
    BY <1>1, <2>1, AppendsKeep DEF WriteLine, Appended
  <2>2. ASSUME NEW p \in Processes, Fault(p) PROVE Keeps(lines')
    <3>1. CASE WriteStops(p)
      BY <1>1, <3>1, AppendsKeep DEF WriteStops, Appended
    <3>2. CASE UNCHANGED lines
      BY <1>1, <3>2, AppendsKeep
    <3> QED
      BY <2>2, <3>1, <3>2 DEF Fault
  <2>3. CASE UNCHANGED lines
    BY <1>1, <2>3, AppendsKeep
  <2>4. ASSUME NEW p \in Processes, Proceed(p) PROVE WriteLine(p) \/ UNCHANGED lines
    BY <2>4 DEF Proceed, OpenLock, Flock, ReadLedger, Looping, Skip, HaltAtLimit, Finish, Send,
       Summarise, HaltOnRejection, Answer, Return
  <2>5. ASSUME NEW p \in Processes, NEW call \in Calls, Arrive(p, call) PROVE UNCHANGED lines
    BY <2>5 DEF Arrive
  <2>6. FirstRead \/ SecondRead \/ UNCHANGED vars => UNCHANGED lines
    BY DEF FirstRead, SecondRead, vars
  <2> QED
    BY <1>1, <2>1, <2>2, <2>3, <2>4, <2>5, <2>6 DEF Next
<1>2. IInv /\ [Next]_vars => [\A i \in DOMAIN lines : i < Len(lines) \/ newline =>
                                i \in DOMAIN lines' /\ lines'[i] = lines[i]]_vars
  BY <1>1 DEF Keeps
<1> QED
  BY <1>2, InitInvariant, StepPreserves, PTL DEF Spec, AttemptsKept

(* A process that has come to the loop is moved by its own steps only.      *)
LEMMA OwnSteps ==
    ASSUME IInv, [Next]_vars, NEW p \in Processes, At(p, "loop"), process'[p] # process[p]
    PROVE  \/ process[p].halted = None /\ Looping(p)
           \/ HaltOnRejection(p)
           \/ process'[p] = Absent
<1>1. process \in [Processes -> Invocations]
  BY Facts
<1>2. ASSUME NEW q \in Processes, NEW r, process' = [process EXCEPT ![q] = r]
      PROVE  q = p
  BY <1>1, <1>2
<1>3. ASSUME NEW q \in Processes, Proceed(q)
      PROVE  q = p
  <2>1. OpenLock(q) \/ Flock(q) \/ ReadLedger(q) \/ Return(q) => q = p
    BY <1>1 DEF OpenLock, Flock, ReadLedger, Return, Leave
  <2>2. Looping(q) \/ HaltOnRejection(q) => q = p
    BY <1>1 DEF Looping, Skip, HaltAtLimit, Finish, Send, Summarise, HaltOnRejection
  <2>3. WriteLine(q) => q = p
    BY <1>2 DEF WriteLine
  <2>4. ASSUME NEW judge, NEW reply, Answer(q, judge, reply)
        PROVE  q = p
    <3> DEFINE r == [process[q] EXCEPT !.state = "answered", !.sent = @ + 1,
                                       !.result = Result(judge, reply)]
    <3>1. process' = [process EXCEPT ![q] = r]
      BY <1>1, <2>4 DEF Answer, Invocations
    <3> HIDE DEF r
    <3> QED
      BY <1>2, <3>1
  <2> QED
    BY <1>3, <2>1, <2>2, <2>3, <2>4 DEF Proceed
<1>4. Proceed(p) => \/ process[p].halted = None /\ Looping(p)
                    \/ HaltOnRejection(p)
  BY DEF Proceed, OpenLock, Flock, ReadLedger, Answer, WriteLine, Return, At
<1>5. ASSUME NEW q \in Processes, NEW call, Arrive(q, call)
      PROVE  FALSE
  <2> DEFINE r == [Absent EXCEPT !.state = "open", !.call = call, !.create = ~lockFile]
  <2>1. process' = [process EXCEPT ![q] = r]
    BY <1>5 DEF Arrive
  <2> HIDE DEF r
  <2>2. q = p
    BY <1>2, <2>1
  <2> QED
    BY <1>5, <2>2 DEF Arrive, At
<1>6. ASSUME NEW q \in Processes, Fault(q)
      PROVE  process'[p] = Absent
  <2>1. process' = [process EXCEPT ![q] = Absent]
    BY <1>6 DEF Fault, Leave
  <2> QED
    BY <1>1, <1>2, <2>1
<1>7. ~(FirstRead \/ SecondRead \/ UNCHANGED vars)
  BY DEF FirstRead, SecondRead, vars
<1> QED
  BY <1>3, <1>4, <1>5, <1>6, <1>7 DEF Next

(* A rejected credential is offered to no judge again: the invocation that    *)
(* recorded a rejection leaves both loops of run without another request.     *)
THEOREM RejectionHalts == Spec => RejectionEndsCall
<1>1. ASSUME IInv, [Next]_vars, NEW p \in Processes, At(p, "loop"), process'[p].state = "asked"
      PROVE  process[p].result # "auth_rejected"
  <2>1. process'[p] # process[p] /\ process'[p] # Absent
    BY <1>1 DEF At, Absent
  <2>2. ~HaltOnRejection(p)
    <3>1. process \in [Processes -> Invocations]
      BY <1>1, Facts
    <3> QED
      BY <1>1, <3>1 DEF HaltOnRejection, Summarise, Invocations
  <2>3. process[p].halted = None
    BY <1>1, <2>1, <2>2, OwnSteps
  <2> QED
    BY <1>1, <2>3, Facts, NoneAssumption DEF Knows, At
<1>2. IInv /\ [Next]_vars => [\A p \in Processes : At(p, "loop") /\ process'[p].state = "asked" =>
                                  process[p].result # "auth_rejected"]_vars
  BY <1>1
<1> QED
  BY <1>2, InitInvariant, StepPreserves, PTL DEF Spec, RejectionEndsCall

-----------------------------------------------------------------------------
(* What a file that can be read says of the lines before: it has grown.      *)
Grown(file) ==
    Readable(file) => Readable(lines) /\ Succeeded(lines) \subseteq Succeeded(file)

LEMMA AppendGrows ==
    ASSUME NEW file \in Seq(Lines), NEW line \in Lines
    PROVE  ToSet(Append(file, line)) = ToSet(file) \cup {line}
<1> DEFINE longer == Append(file, line)
<1>1. longer \in Seq(Lines) /\ Len(longer) = Len(file) + 1 /\ Len(file) \in Nat
      /\ DOMAIN longer = 1..(Len(file) + 1) /\ DOMAIN file = 1..Len(file)
  OBVIOUS
<1>2. \A i \in DOMAIN file : longer[i] = file[i]
  OBVIOUS
<1>3. longer[Len(file) + 1] = line
  OBVIOUS
<1> HIDE DEF longer
<1>4. \A i : i \in DOMAIN longer <=> (i \in DOMAIN file \/ i = Len(file) + 1)
  BY <1>1, SMT
<1>5. ToSet(longer) = ToSet(file) \cup {line}
  BY <1>2, <1>3, <1>4 DEF ToSet
<1> QED
  BY <1>5 DEF longer

LEMMA LinesGrow ==
    ASSUME IInv, NEW line \in Lines
    PROVE  /\ Grown(lines) /\ Grown(Appended(line))
           /\ Readable(Appended(line)) /\ line.result = "success" =>
                  line.key \in Succeeded(Appended(line))
           /\ ~Readable(Append(lines, Torn))
           /\ ~newline => ~Readable(Append(Front(lines), Torn))
<1>1. lines \in Seq(Lines) /\ Torn \in Lines /\ Single(lines) /\ (~newline => Len(lines) > 0)
  BY DEF IInv, TypeOK, Lines
<1>2. ASSUME ~newline PROVE ~Readable(Append(Front(lines), Torn))
  <2>1. Front(lines) \in Seq(Lines)
    BY <1>1, <1>2, FrontKeeps
  <2> QED
    BY <2>1, <1>1, AppendGrows DEF Readable
<1>3. ~Readable(Append(lines, Torn))
  BY <1>1, AppendGrows DEF Readable
<1>4. ASSUME newline PROVE Grown(Append(lines, line))
  BY <1>1, AppendGrows DEF Grown, Readable, Succeeded
<1>5. ASSUME newline, line.result = "success" PROVE line.key \in Succeeded(Append(lines, line))
  BY <1>1, <1>5, AppendGrows DEF Succeeded
<1>6. Grown(lines)
  BY DEF Grown
<1> QED
  BY <1>2, <1>3, <1>4, <1>5, <1>6 DEF Appended, Grown

(* What an invocation can say of a file that can be read: what it holds for   *)
(* done has its line there, and only a rejection stops it before the limit.    *)
Told(r, file) ==
    /\ r.state \in {"open", "lock", "read"} => r.sent = 0
    /\ r.state \in {"open", "lock", "read", "asked", "answered"} => r.halted = None
    /\ r.state \in {"loop", "asked", "answered"} /\ Readable(file) =>
           r.done \subseteq Succeeded(file)
    /\ r.state \in Working /\ r.call.max # None => r.sent <= r.call.max
    /\ r.state = "asked" /\ r.call.max # None => r.sent < r.call.max
    /\ r.state = "loop" /\ r.halted # None =>
           /\ r.at <= Len(Planned(r.call))
           /\ Planned(r.call)[r.at] \notin r.done

ReportIsOfFile == report # None /\ Readable(lines) => report \subseteq Succeeded(lines)

FInv == IInv /\ (\A p \in Processes : Told(process[p], lines)) /\ ReportIsOfFile

LEMMA ToldUpdate ==
    ASSUME FInv, NEW p \in Processes, NEW r, process' = [process EXCEPT ![p] = r],
           Told(r, lines'), lines' = lines \/ (holder = p /\ Grown(lines')), report' = report
    PROVE  (\A q \in Processes : Told(process'[q], lines')) /\ ReportIsOfFile'
<1>1. IInv /\ process \in [Processes -> Invocations]
  BY Facts DEF FInv
<1>2. ASSUME NEW q \in Processes PROVE Told(process'[q], lines')
  <2>1. CASE q = p
    BY <1>1, <2>1
  <2>2. CASE q # p /\ lines' = lines
    BY <1>1, <2>2 DEF FInv
  <2>3. CASE q # p /\ holder = p
    <3>1. process'[q] = process[q] /\ process[q].state \notin Working /\ Told(process[q], lines)
      BY <1>1, <2>3, Facts DEF FInv
    <3> QED
      BY <3>1 DEF Told, Working
  <2> QED
    BY <2>1, <2>2, <2>3
<1>3. ReportIsOfFile'
  BY DEF FInv, ReportIsOfFile, Grown
<1> QED
  BY <1>2, <1>3

LEMMA CallOf ==
    ASSUME IInv, NEW p \in Processes, process[p].state # "out"
    PROVE  /\ process[p].call \in Calls /\ process[p].sent \in Nat
           /\ process[p].call.max # None => process[p].call.max \in Nat \ {0}
BY Facts, CallsAssumption DEF Knows, Invocations

LEMMA StepTells ==
    ASSUME FInv, NEW p \in Processes, Proceed(p)
    PROVE  (\A q \in Processes : Told(process'[q], lines')) /\ ReportIsOfFile'
<1> USE DEF At
<1>1. IInv /\ process[p] \in Invocations /\ Told(process[p], lines) /\ Knows(process[p], lines)
  BY Facts DEF FInv
<1>2. Told(Absent, lines)
  BY DEF Told, Absent, Working
<1>3. CASE OpenLock(p)
  <2>1. CASE process' = [process EXCEPT ![p] = Absent]
    BY <1>2, <1>3, <2>1, ToldUpdate DEF OpenLock
  <2>2. CASE process' = [process EXCEPT ![p].state = "lock"]
    <3> DEFINE r == [process[p] EXCEPT !.state = "lock"]
    <3>1. Told(r, lines)
      BY <1>1, <1>3 DEF Told, OpenLock, Invocations, Working
    <3> QED
      BY <1>3, <2>2, <3>1, ToldUpdate DEF OpenLock
  <2> QED
    BY <1>3, <2>1, <2>2 DEF OpenLock, Leave
<1>4. CASE Flock(p)
  <2>1. CASE process' = [process EXCEPT ![p] = Absent]
    BY <1>2, <1>4, <2>1, ToldUpdate DEF Flock
  <2>2. CASE process' = [process EXCEPT ![p].state = "read"]
    <3> DEFINE r == [process[p] EXCEPT !.state = "read"]
    <3>0. process[p].call.max # None => 0 <= process[p].call.max
      BY <1>1, <1>4, CallOf DEF Flock
    <3>1. Told(r, lines)
      BY <1>1, <1>4, <3>0 DEF Told, Flock, Invocations
    <3> QED
      BY <1>4, <2>2, <3>1, ToldUpdate DEF Flock
  <2> QED
    BY <1>4, <2>1, <2>2 DEF Flock, Leave
<1>5. CASE ReadLedger(p)
  <2>1. CASE process' = [process EXCEPT ![p] = Absent]
    BY <1>2, <1>5, <2>1, ToldUpdate DEF ReadLedger
  <2>2. CASE process' = [process EXCEPT ![p].state = "loop", ![p].done = Succeeded(lines)]
    <3> DEFINE r == [process[p] EXCEPT !.state = "loop", !.done = Succeeded(lines)]
    <3>1. Told(r, lines)
      BY <1>1, <1>5 DEF Told, ReadLedger, Invocations, Working
    <3>2. process' = [process EXCEPT ![p] = r]
      BY <2>2, <1>1, Facts
    <3> HIDE DEF r
    <3> QED
      BY <1>5, <3>1, <3>2, ToldUpdate DEF ReadLedger
  <2> QED
    BY <1>5, <2>1, <2>2 DEF ReadLedger, Leave
<1>6. CASE process[p].halted = None /\ Looping(p)
  <2>1. CASE Skip(p)
    <3> DEFINE r == [process[p] EXCEPT !.at = @ + 1]
    <3>1. Told(r, lines)
      BY <1>1, <1>6, <2>1 DEF Told, Skip, Invocations, Working
    <3> HIDE DEF r
    <3>2. process' = [process EXCEPT ![p] = r]
      BY <2>1 DEF Skip, r
    <3> QED
      BY <2>1, <3>1, <3>2, ToldUpdate DEF Skip
  <2>2. CASE Send(p)
    <3> DEFINE r == [process[p] EXCEPT !.state = "asked"]
    <3>0. process[p].call.max # None => process[p].sent < process[p].call.max
      BY <1>1, <2>2, CallOf DEF Send, Exhausted
    <3>1. Told(r, lines)
      BY <1>1, <1>6, <2>2, <3>0 DEF Told, Send, Invocations, Working
    <3> HIDE DEF r
    <3>2. process' = [process EXCEPT ![p] = r]
      BY <2>2 DEF Send, r
    <3> QED
      BY <2>2, <3>1, <3>2, ToldUpdate DEF Send
  <2>3. CASE HaltAtLimit(p) \/ Finish(p)
    <3>1. PICK h : Summarise(p, h)
      BY <2>3 DEF HaltAtLimit, Finish
    <3> DEFINE r == [process[p] EXCEPT !.state = "ended", !.halted = h,
                       !.complete = ToSet(Planned(process[p].call)) \subseteq process[p].done]
    <3>2. Told(r, lines)
      BY <1>1 DEF Told, Invocations, Working
    <3>3. process' = [process EXCEPT ![p] = r]
      BY <1>1, <3>1 DEF Summarise, Invocations
    <3> HIDE DEF r
    <3> QED
      BY <3>1, <3>2, <3>3, ToldUpdate DEF Summarise
  <2> QED
    BY <1>6, <2>1, <2>2, <2>3 DEF Looping
<1>7. CASE HaltOnRejection(p)
  <2> DEFINE r == [process[p] EXCEPT !.state = "ended", !.halted = "auth_rejected",
                     !.complete = ToSet(Planned(process[p].call)) \subseteq process[p].done]
  <2>1. Told(r, lines)
    BY <1>1 DEF Told, Invocations, Working
  <2>2. process' = [process EXCEPT ![p] = r]
    BY <1>1, <1>7 DEF HaltOnRejection, Summarise, Invocations
  <2> HIDE DEF r
  <2> QED
    BY <1>7, <2>1, <2>2, ToldUpdate DEF HaltOnRejection, Summarise
<1>8. ASSUME NEW judge \in Judges, NEW reply \in Replies(judge), Answer(p, judge, reply)
      PROVE  (\A q \in Processes : Told(process'[q], lines')) /\ ReportIsOfFile'
  <2> DEFINE r == [process[p] EXCEPT !.state = "answered", !.sent = @ + 1,
                                     !.result = Result(judge, reply)]
  <2>1. process[p].call.max # None => process[p].sent + 1 <= process[p].call.max
    BY <1>1, <1>8, CallOf DEF Answer, Told
  <2>2. Told(r, lines)
    BY <1>1, <1>8, <2>1 DEF Told, Answer, Invocations, Working
  <2>3. process' = [process EXCEPT ![p] = r]
    BY <1>1, <1>8 DEF Answer, Invocations
  <2> HIDE DEF r
  <2> QED
    BY <1>8, <2>2, <2>3, ToldUpdate DEF Answer
<1>9. CASE WriteLine(p)
  <2> DEFINE line == [key |-> Key(p), result |-> process[p].result]
  <2>1. /\ holder = p /\ line \in Lines /\ line.key = Key(p) /\ line.result = process[p].result
        /\ lines' = Appended(line)
    BY <1>1, <1>9, AnsweredKey DEF WriteLine
  <2> HIDE DEF line
  <2>2. /\ Grown(lines')
        /\ Readable(lines') /\ process[p].result = "success" => Key(p) \in Succeeded(lines')
    BY <1>1, <2>1, LinesGrow
  <2>3. Readable(lines') => process[p].done \subseteq Succeeded(lines')
    BY <1>1, <1>9, <2>2 DEF Told, Grown, WriteLine
  <2>4. /\ process[p].at <= Len(Planned(process[p].call)) /\ Key(p) \notin process[p].done
        /\ process[p].halted = None
        /\ process[p].call.max # None => process[p].sent <= process[p].call.max
    BY <1>1, <1>9 DEF Knows, Told, Key, WriteLine, Working
  <2>5. Told(After(p), lines')
    <3>1. CASE process[p].result = "success"
      BY <1>1, <2>2, <2>3, <2>4, <3>1 DEF Told, After, Invocations, Working
    <3>2. CASE process[p].result = "auth_rejected"
      BY <1>1, <2>3, <2>4, <3>2 DEF Told, After, Invocations, Working, Key
    <3>3. CASE process[p].result \notin {"success", "auth_rejected"}
      BY <1>1, <2>3, <2>4, <3>3 DEF Told, After, Invocations, Working
    <3> QED
      BY <3>1, <3>2, <3>3
  <2> QED
    BY <1>9, <2>1, <2>2, <2>5, ToldUpdate DEF WriteLine
<1>10. CASE Return(p)
  BY <1>2, <1>10, ToldUpdate DEF Return, Leave
<1> QED
  BY <1>3, <1>4, <1>5, <1>6, <1>7, <1>8, <1>9, <1>10 DEF Proceed

LEMMA FaultTells ==
    ASSUME FInv, NEW p \in Processes, Fault(p)
    PROVE  (\A q \in Processes : Told(process'[q], lines')) /\ ReportIsOfFile'
<1>1. IInv
  BY DEF FInv
<1>2. lines' = lines \/ (holder = p /\ Grown(lines'))
  <2>1. CASE WriteStops(p)
    <3> DEFINE line == [key |-> Key(p), result |-> process[p].result]
    <3>1. holder = p /\ line \in Lines
      BY <1>1, <2>1, AnsweredKey DEF WriteStops
    <3>2. \/ UNCHANGED lines
          \/ lines' = (IF newline THEN Append(lines, Torn) ELSE Append(Front(lines), Torn))
          \/ lines' = Appended(line)
      BY <2>1 DEF WriteStops
    <3> HIDE DEF line
    <3> QED
      BY <1>1, <3>1, <3>2, LinesGrow DEF Grown
  <2>2. CASE UNCHANGED lines
    BY <2>2
  <2> QED
    BY <2>1, <2>2 DEF Fault
<1>3. Told(Absent, lines')
  BY DEF Told, Absent, Working
<1> QED
  BY <1>2, <1>3, ToldUpdate DEF Fault, Leave

LEMMA FiguresPreserved ==
    ASSUME FInv, [Next]_vars
    PROVE  FInv'
<1>1. IInv'
  BY StepPreserves DEF FInv
<1>2. ASSUME NEW p \in Processes, NEW call \in Calls, Arrive(p, call)
      PROVE  (\A q \in Processes : Told(process'[q], lines')) /\ ReportIsOfFile'
  <2> DEFINE r == [Absent EXCEPT !.state = "open", !.call = call, !.create = ~lockFile]
  <2>1. Told(r, lines)
    BY DEF Told, Absent, Working
  <2>2. process' = [process EXCEPT ![p] = r]
    BY <1>2 DEF Arrive
  <2> HIDE DEF r
  <2> QED
    BY <1>2, <2>1, <2>2, ToldUpdate DEF Arrive
<1>3. CASE FirstRead \/ SecondRead
  <2>1. UNCHANGED <<process, lines>> /\ (report' = None \/ report' = Succeeded(lines))
    BY <1>3 DEF FirstRead, SecondRead
  <2> QED
    BY <1>1, <2>1 DEF FInv, ReportIsOfFile
<1>4. CASE UNCHANGED vars
  BY <1>1, <1>4 DEF FInv, ReportIsOfFile, vars
<1> QED
  BY <1>1, <1>2, <1>3, <1>4, StepTells, FaultTells DEF FInv, Next

LEMMA FiguresInit == Init => FInv
<1> SUFFICES ASSUME Init PROVE FInv
  OBVIOUS
<1>1. IInv
  BY InitInvariant
<1>2. \A p \in Processes : Told(process[p], lines)
  BY DEF Init, Told, Absent, Working
<1> QED
  BY <1>1, <1>2 DEF Init, FInv, ReportIsOfFile

(* Every success that a report has read is a line of its own. *)
LEMMA LinesOfReport ==
    ASSUME FInv, report # None, Readable(lines), NEW judge
    PROVE  Cardinality({key \in report : key[2] = judge}) <= Attempts(lines, judge)
<1> DEFINE counted == {i \in DOMAIN lines : lines[i].key[2] = judge}
           keys == {key \in report : key[2] = judge}
<1>1. lines \in Seq(Lines) /\ report \subseteq Succeeded(lines)
  BY DEF FInv, IInv, TypeOK, ReportIsOfFile
<1>2. DOMAIN lines = 1..Len(lines) /\ Len(lines) \in Nat
  BY <1>1
<1>3. IsFiniteSet(counted) /\ counted \subseteq DOMAIN lines
  <2>1. IsFiniteSet(1..Len(lines))
    BY <1>2, FS_Interval
  <2>2. counted \subseteq DOMAIN lines
    OBVIOUS
  <2> QED
    BY <1>2, <2>1, <2>2, FS_Subset
<1>4. \A key \in keys : \E i \in counted : lines[i].key = key
  BY <1>1, SucceededKeys
<1> DEFINE images == {lines[i].key : i \in counted}
<1> HIDE DEF counted, keys
<1>5. IsFiniteSet(images) /\ Cardinality(images) <= Cardinality(counted)
  <2>1. [i \in counted |-> lines[i].key] \in Surjection(counted, images)
    BY DEF Surjection
  <2> QED
    BY <1>3, <2>1, FS_Surjection
<1>6. keys \subseteq images
  BY <1>4
<1>7. Cardinality(keys) <= Cardinality(images) /\ Cardinality(keys) \in Nat
      /\ Cardinality(images) \in Nat /\ Cardinality(counted) \in Nat
  BY <1>3, <1>5, <1>6, FS_Subset, FS_CardinalityType
<1> QED
  BY <1>5, <1>7 DEF counted, keys, Attempts

LEMMA SummaryIsRight ==
    ASSUME FInv, [Next]_vars, NEW p \in Processes, At(p, "loop"),
           process'[p].state = "ended", Readable(lines)
    PROVE  LET summary == process'[p] IN
             /\ summary.complete <=> ToSet(Planned(summary.call)) \subseteq Succeeded(lines)
             /\ summary.halted # None => ~summary.complete
             /\ summary.halted = "max_requests" => summary.sent = summary.call.max
<1>1. IInv /\ process \in [Processes -> Invocations] /\ process[p] \in Invocations
      /\ Told(process[p], lines) /\ Knows(process[p], lines) /\ holder = p
  BY Facts DEF FInv, At, Working
<1>2. process[p].done = Succeeded(lines)
  BY <1>1 DEF Told, Knows, At
<1>3. process'[p] # process[p] /\ process'[p] # Absent
  BY DEF At, Absent
<1>4. ~Skip(p) /\ ~Send(p)
  BY <1>1 DEF Skip, Send, At, Invocations
<1>5. \/ process[p].halted = None /\ (HaltAtLimit(p) \/ Finish(p))
      \/ HaltOnRejection(p)
  BY <1>1, <1>3, <1>4, OwnSteps DEF Looping
<1>6. ASSUME NEW h, Summarise(p, h)
      PROVE  /\ process'[p].call = process[p].call /\ process'[p].sent = process[p].sent
             /\ process'[p].halted = h
             /\ process'[p].complete =
                    (ToSet(Planned(process[p].call)) \subseteq process[p].done)
  BY <1>1, <1>6 DEF Summarise, Invocations
<1>7. ASSUME process[p].at <= Len(Planned(process[p].call)), Key(p) \notin process[p].done
      PROVE  ~(ToSet(Planned(process[p].call)) \subseteq process[p].done)
  <2>1. process[p].call \in Calls /\ process[p].at \in Nat \ {0}
    BY <1>1 DEF Knows, At, Invocations
  <2>2. Len(Planned(process[p].call)) \in Nat
    BY <2>1, PlannedKeys, Product
  <2>3. process[p].at \in DOMAIN Planned(process[p].call)
    <3>1. process[p].at \in 1..Len(Planned(process[p].call))
      BY <1>7, <2>1, <2>2
    <3>2. DOMAIN Planned(process[p].call) = 1..(Len(process[p].call.judges) * Len(process[p].call.work))
      BY DEF Planned
    <3>3. Len(Planned(process[p].call)) = Len(process[p].call.judges) * Len(process[p].call.work)
      BY <2>1, PlannedKeys
    <3> QED
      BY <3>1, <3>2, <3>3
  <2> QED
    BY <1>7, <2>3, Zenon DEF ToSet, Key
<1>8. CASE HaltAtLimit(p)
  <2>1. process[p].sent = process[p].call.max
    BY <1>1, <1>8, CallOf DEF HaltAtLimit, Exhausted, Told, Working, At
  <2>2. ~(ToSet(Planned(process[p].call)) \subseteq process[p].done)
    BY <1>7, <1>8 DEF HaltAtLimit, Remaining
  <2>3. /\ process'[p].call = process[p].call /\ process'[p].sent = process[p].sent
        /\ process'[p].complete =
               (ToSet(Planned(process[p].call)) \subseteq process[p].done)
    BY <1>6, <1>8 DEF HaltAtLimit
  <2> QED
    BY <1>2, <2>1, <2>2, <2>3, NoneAssumption
<1>9. CASE Finish(p)
  <2>1. /\ process'[p].call = process[p].call /\ process'[p].halted = None
        /\ process'[p].complete =
               (ToSet(Planned(process[p].call)) \subseteq process[p].done)
    BY <1>6, <1>9 DEF Finish
  <2> QED
    BY <1>2, <2>1, NoneAssumption
<1>10. CASE HaltOnRejection(p)
  <2>1. Key(p) \notin process[p].done /\ process[p].at <= Len(Planned(process[p].call))
    BY <1>1, <1>10, NoneAssumption DEF HaltOnRejection, Told, At, Key
  <2> QED
    BY <1>2, <1>6, <1>7, <1>10, <2>1 DEF HaltOnRejection
<1> QED
  BY <1>5, <1>8, <1>9, <1>10

(* What is said about a panel is so, whatever other processes do to it          *)
(* meanwhile: the summary of run counts a request as done only with its line   *)
(* in the ledger, and build_report, which reads the file twice and takes no    *)
(* lock, shows no judge with more completed requests than attempts.            *)
THEOREM FiguresStayHonest == Spec => FiguresHonest
<1>1. FInv /\ [Next]_vars =>
        [\A p \in Processes :
          At(p, "loop") /\ process'[p].state = "ended" /\ Readable(lines) =>
              LET summary == process'[p] IN
                  /\ summary.complete <=>
                        ToSet(Planned(summary.call)) \subseteq Succeeded(lines)
                  /\ summary.halted # None => ~summary.complete
                  /\ summary.halted = "max_requests" => summary.sent = summary.call.max]_vars
  BY SummaryIsRight
<1>2. FInv /\ [Next]_vars =>
        [report # None /\ report' = None /\ Readable(lines) =>
          \A judge \in Judges :
              Cardinality({key \in report : key[2] = judge}) <= Attempts(Rows, judge)]_vars
  BY LinesOfReport DEF Rows
<1>3. Spec => SummaryHonest
  BY <1>1, FiguresInit, FiguresPreserved, PTL DEF Spec, SummaryHonest
<1>4. Spec => ReportCoherent
  BY <1>2, FiguresInit, FiguresPreserved, PTL DEF Spec, ReportCoherent
<1> QED
  BY <1>3, <1>4 DEF FiguresHonest

-----------------------------------------------------------------------------
(* The offline runs *)

Unsent == {"planned", "unavailable", "blocked"}
Answered == {"result_saved", "completed"}

(* What is proved of the ledger of an offline run. *)
OLP == INSTANCE LedgerProofs WITH
    Requests <- Off!Envelopes, Receipts <- {}, MaxRequests <- Len(Plan),
    events <- offEvents, attempts <- offAttempts, reconciliations <- offReconciliations,
    retries <- offRetries, version <- offVersion

LEMMA OffPlanHolds == OLP!PlanAssumption /\ OLP!ValueAssumption
<1>1. Len(Plan) \in Nat
  BY OfflinePlanAssumption
<1> QED
  BY <1>1, OfflinePlanAssumption, OfflineNullAssumption
     DEF OLP!PlanAssumption, OLP!ValueAssumption

LEMMA OffSameCurrent ==
    \A w : /\ OLP!LastIndex(w) = Off!L!LastIndex(w)
           /\ OLP!Current(w) = Off!L!Current(w) /\ OLP!State(w) = Off!L!State(w)
           /\ OLP!DependenciesCompleted(w) <=> Off!L!DependenciesCompleted(w)
BY DEF OLP!Current, Off!L!Current, OLP!LastIndex, Off!L!LastIndex, OLP!IsLast, Off!L!IsLast,
       OLP!State, Off!L!State, OLP!DependenciesCompleted, Off!L!DependenciesCompleted

LEMMA OffSameCurrentNext ==
    \A w : OLP!Current(w)' = Off!L!Current(w)' /\ OLP!State(w)' = Off!L!State(w)'
BY DEF OLP!Current, Off!L!Current, OLP!LastIndex, Off!L!LastIndex, OLP!IsLast, Off!L!IsLast,
       OLP!State, Off!L!State

LEMMA OffSameHolds == \A a, s : OLP!Holds(a, s) <=> Off!L!Holds(a, s)
BY OffSameCurrent DEF OLP!Holds, Off!L!Holds

LEMMA OffSameRows ==
    /\ \A e, s, r : OLP!Follow(e, s, r) = Off!L!Follow(e, s, r)
    /\ \A w, s : OLP!Unattempted(w, s) = Off!L!Unattempted(w, s)
    /\ \A w : OLP!Inflight(w) = Off!L!Inflight(w)
    /\ \A w, q : OLP!ReservedEvent(w, q) = Off!L!ReservedEvent(w, q)
    /\ \A w, q : OLP!AttemptRow(w, q) = Off!L!AttemptRow(w, q)
<1>1. \A e, s, r : OLP!Follow(e, s, r) = Off!L!Follow(e, s, r)
  BY DEF OLP!Follow, Off!L!Follow
<1>2. \A w, s : OLP!Unattempted(w, s) = Off!L!Unattempted(w, s)
  BY DEF OLP!Unattempted, Off!L!Unattempted
<1>3. \A w : OLP!Inflight(w) = Off!L!Inflight(w)
  BY <1>1, OffSameCurrent DEF OLP!Inflight, Off!L!Inflight
<1>4. \A w, q : OLP!ReservedEvent(w, q) = Off!L!ReservedEvent(w, q)
  BY <1>2 DEF OLP!ReservedEvent, Off!L!ReservedEvent
<1>5. \A w, q : OLP!AttemptRow(w, q) = Off!L!AttemptRow(w, q)
  BY DEF OLP!AttemptRow, Off!L!AttemptRow
<1> QED
  BY <1>1, <1>2, <1>3, <1>4, <1>5

LEMMA OffSameGuards ==
    /\ \A w : OLP!AttemptsGuard(w) <=> Off!L!AttemptsGuard(w)
    /\ \A e, as, cs, rs, v :
          OLP!EventsGuard(e, as, cs, rs, v) <=> Off!L!EventsGuard(e, as, cs, rs, v)
    /\ \A e : OLP!Insert(e) <=> Off!L!Insert(e)
<1>1. \A w : OLP!AttemptsGuard(w) <=> Off!L!AttemptsGuard(w)
  BY OffSameCurrent DEF OLP!AttemptsGuard, Off!L!AttemptsGuard
<1>2. \A e, as, cs, rs, v :
          OLP!EventsGuard(e, as, cs, rs, v) <=> Off!L!EventsGuard(e, as, cs, rs, v)
  <2> TAKE e, as, cs, rs, v
  <2>1. PICK w : w = e.work
    OBVIOUS
  <2>2. /\ OLP!Current(w) = Off!L!Current(w) /\ OLP!LastIndex(w) = Off!L!LastIndex(w)
        /\ OLP!DependenciesCompleted(w) <=> Off!L!DependenciesCompleted(w)
    BY OffSameCurrent
  <2> QED
    BY <2>1, <2>2 DEF OLP!EventsGuard, Off!L!EventsGuard
<1>3. \A e : OLP!Insert(e) <=> Off!L!Insert(e)
  BY <1>2 DEF OLP!Insert, Off!L!Insert
<1> QED
  BY <1>1, <1>2, <1>3

LEMMA OffSameTransactions ==
    /\ \A w, q : OLP!Reserve(w, q) <=> Off!L!Reserve(w, q)
    /\ \A w, s : OLP!Skip(w, s) <=> Off!L!Skip(w, s)
    /\ \A a : OLP!Start(a) <=> Off!L!Start(a)
    /\ \A a : OLP!Complete(a) <=> Off!L!Complete(a)
    /\ \A a, r : OLP!RecordResult(a, r) <=> Off!L!RecordResult(a, r)
    /\ \A a, s : OLP!Fail(a, s) <=> Off!L!Fail(a, s)
    /\ OLP!Recover <=> Off!L!Recover
<1>1. \A w, q : OLP!Reserve(w, q) <=> Off!L!Reserve(w, q)
  BY OffSameCurrent, OffSameRows, OffSameGuards
     DEF OLP!Reserve, Off!L!Reserve, OLP!CanReserve, Off!L!CanReserve, OLP!Admits, Off!L!Admits
<1>2. \A w, s : OLP!Skip(w, s) <=> Off!L!Skip(w, s)
  BY OffSameCurrent, OffSameRows, OffSameGuards DEF OLP!Skip, Off!L!Skip
<1>3. \A a : OLP!Start(a) <=> Off!L!Start(a)
  BY OffSameHolds, OffSameRows, OffSameGuards DEF OLP!Start, Off!L!Start
<1>4. \A a : OLP!Complete(a) <=> Off!L!Complete(a)
  BY OffSameHolds, OffSameCurrent, OffSameGuards DEF OLP!Complete, Off!L!Complete
<1>5. \A a, r : OLP!RecordResult(a, r) <=> Off!L!RecordResult(a, r)
  BY OffSameHolds, OffSameCurrent, OffSameRows, OffSameGuards DEF OLP!RecordResult, Off!L!RecordResult
<1>6. \A a, s : OLP!Fail(a, s) <=> Off!L!Fail(a, s)
  BY OffSameHolds, OffSameCurrent, OffSameRows, OffSameGuards DEF OLP!Fail, Off!L!Fail
<1>7. OLP!Recover <=> Off!L!Recover
  <2>1. \A S : OLP!SequenceOps!SetToSeqs(S) = Off!L!SequenceOps!SetToSeqs(S)
    BY DEF OLP!SequenceOps!SetToSeqs, Off!L!SequenceOps!SetToSeqs,
           OLP!SequenceOps!Cardinality, Off!L!SequenceOps!Cardinality
  <2>2. \A s : OLP!InState(s) = Off!L!InState(s)
    BY OffSameCurrent DEF OLP!InState, Off!L!InState
  <2> QED
    BY <2>1, <2>2, OffSameCurrent, OffSameRows, OffSameGuards DEF OLP!Recover, Off!L!Recover
<1> QED
  BY <1>1, <1>2, <1>3, <1>4, <1>5, <1>6, <1>7

-----------------------------------------------------------------------------
(* What a transaction of an offline run does to the current rows *)

OffAppended(w, e) ==
    /\ w \in Work /\ e.work = w
    /\ Off!L!Current(w)' = e
    /\ \A v \in Work \ {w} : Off!L!Current(v)' = Off!L!Current(v)

(* The item of attempt a moves from state s to state t with result r. *)
OffMoved(a, s, t, r) ==
    /\ a \in 1..Len(offAttempts)
    /\ Off!L!Current(offAttempts[a].work).attempt = a
    /\ Off!L!Current(offAttempts[a].work).state = s
    /\ \E e \in OLP!Events : /\ OffAppended(offAttempts[a].work, e)
                            /\ e.state = t /\ e.attempt = a /\ e.result = r
                            /\ e.request = Off!L!Current(offAttempts[a].work).request

LEMMA OffOnly ==
    ASSUME NEW w, NEW e, OLP!Only(w, e)
    PROVE  OffAppended(w, e)
BY OffSameCurrent, OffSameCurrentNext DEF OLP!Only, OffAppended

LEMMA OffSameMoved ==
    ASSUME NEW a, NEW s, NEW t, NEW r, OLP!Moved(a, s, t, r)
    PROVE  OffMoved(a, s, t, r)
BY OffOnly, OffSameCurrent DEF OLP!Moved, OffMoved

LEMMA OffReserveEffect ==
    ASSUME OLP!IInv, NEW w \in Work, NEW q \in Off!Envelopes, Off!L!Reserve(w, q)
    PROVE  /\ OLP!IInv'
           /\ Off!L!Current(w).state = "planned"
           /\ \E e \in OLP!Events : /\ OffAppended(w, e) /\ e.state = "reserved"
                                   /\ e.attempt = Len(offAttempts) + 1
                                   /\ e.request = q /\ e.result = Null
           /\ offAttempts' = Append(offAttempts, [work |-> w, request |-> q])
<1>1. OLP!Reserve(w, q)
  BY OffSameTransactions
<1>2. OLP!IInv'
  BY <1>1, OffPlanHolds, OLP!StepPreserves DEF OLP!Next
<1>3. /\ OLP!Current(w).state = "planned" /\ OLP!DependenciesCompleted(w)
      /\ \E e \in OLP!Events : /\ OLP!Only(w, e) /\ e.state = "reserved"
                              /\ e.attempt = Len(offAttempts) + 1
                              /\ e.request = q /\ e.result = Null
      /\ offAttempts' = Append(offAttempts, [work |-> w, request |-> q])
      /\ UNCHANGED <<offReconciliations, offRetries, offVersion>>
  BY <1>1, <1>2, OffPlanHolds, OLP!ReserveMoves
<1> QED
  BY <1>2, <1>3, OffSameCurrent, OffOnly

LEMMA OffSkipEffect ==
    ASSUME OLP!IInv, NEW w \in Work, NEW s \in {"unavailable", "blocked"}, Off!L!Skip(w, s)
    PROVE  /\ OLP!IInv'
           /\ Off!L!Current(w).state = "planned"
           /\ \E e \in OLP!Events : /\ OffAppended(w, e) /\ e.state = s /\ e.attempt = 0
                                   /\ e.request = Null /\ e.result = Null
           /\ offAttempts' = offAttempts
<1>1. OLP!Skip(w, s)
  BY OffSameTransactions
<1>2. OLP!IInv'
  BY <1>1, OffPlanHolds, OLP!StepPreserves DEF OLP!Next
<1>3. /\ OLP!Current(w).state = "planned"
      /\ \E e \in OLP!Events : /\ OLP!Only(w, e) /\ e.state = s /\ e.attempt = 0
                              /\ e.request = Null /\ e.result = Null
      /\ offAttempts' = offAttempts
  BY <1>1, <1>2, OffPlanHolds, OLP!SkipMoves
<1> QED
  BY <1>2, <1>3, OffSameCurrent, OffOnly

LEMMA OffStartEffect ==
    ASSUME OLP!IInv, NEW a, Off!L!Start(a)
    PROVE  /\ OLP!IInv' /\ OffMoved(a, "reserved", "in_flight", Null)
           /\ offAttempts' = offAttempts
<1>1. OLP!Start(a)
  BY OffSameTransactions
<1>2. OLP!IInv'
  BY <1>1, OffPlanHolds, OLP!StepPreserves DEF OLP!Next, OLP!Start, OLP!Holds
<1> QED
  BY <1>1, <1>2, OffPlanHolds, OLP!StartMoves, OffSameMoved DEF Off!L!Start, Off!L!Insert

LEMMA OffCompleteEffect ==
    ASSUME OLP!IInv, NEW a, Off!L!Complete(a)
    PROVE  /\ OLP!IInv'
           /\ OffMoved(a, "result_saved", "completed",
                       Off!L!Current(offAttempts[a].work).result)
           /\ offAttempts' = offAttempts
<1>1. OLP!Complete(a)
  BY OffSameTransactions
<1>2. OLP!IInv'
  BY <1>1, OffPlanHolds, OLP!StepPreserves DEF OLP!Next, OLP!Complete, OLP!Holds
<1>3. OLP!Moved(a, "result_saved", "completed", OLP!Current(offAttempts[a].work).result)
  BY <1>1, <1>2, OffPlanHolds, OLP!CompleteMoves
<1> QED
  BY <1>2, <1>3, OffSameCurrent, OffSameMoved DEF Off!L!Complete, Off!L!Insert

LEMMA OffRecordResultEffect ==
    ASSUME OLP!IInv, NEW a, NEW r \in Results, Off!L!RecordResult(a, r)
    PROVE  /\ OLP!IInv' /\ OffMoved(a, "in_flight", "result_saved", r)
           /\ offAttempts' = offAttempts
<1>1. OLP!RecordResult(a, r)
  BY OffSameTransactions
<1>2. OLP!IInv'
  BY <1>1, OffPlanHolds, OLP!StepPreserves DEF OLP!Next, OLP!RecordResult, OLP!Holds
<1> QED
  BY <1>1, <1>2, OffPlanHolds, OLP!RecordResultMoves, OffSameMoved
     DEF Off!L!RecordResult, Off!L!Insert

LEMMA OffFailEffect ==
    ASSUME OLP!IInv, NEW a, NEW s, Off!L!Fail(a, s)
    PROVE  /\ OLP!IInv' /\ s \in {"failed", "limited"} /\ OffMoved(a, "in_flight", s, Null)
           /\ offAttempts' = offAttempts
<1>1. OLP!Fail(a, s)
  BY OffSameTransactions
<1>2. OLP!IInv'
  BY <1>1, OffPlanHolds, OLP!StepPreserves DEF OLP!Next, OLP!Fail, OLP!Holds
<1> QED
  BY <1>1, <1>2, OffPlanHolds, OLP!FailMoves, OffSameMoved DEF Off!L!Fail, Off!L!Insert

(* Everything in flight becomes uncertain, and nothing else changes. *)
OffInterrupted(w) ==
    LET c == Off!L!Current(w) IN
    /\ c.state # "in_flight" => Off!L!Current(w)' = c
    /\ c.state = "in_flight" =>
          \E e \in OLP!Events : /\ Off!L!Current(w)' = e
                              /\ e.work = w /\ e.state = "uncertain" /\ e.result = Null
                              /\ e.attempt = c.attempt /\ e.request = c.request

LEMMA OffRecoverEffect ==
    ASSUME OLP!IInv, Off!L!Recover
    PROVE  /\ OLP!IInv' /\ \A w \in Work : OffInterrupted(w)
           /\ offAttempts' = offAttempts
<1>1. OLP!Recover
  BY OffSameTransactions
<1>2. OLP!IInv'
  BY <1>1, OffPlanHolds, OLP!StepPreserves DEF OLP!Next
<1>3. /\ \A w \in Work : OLP!Current(w).state # "in_flight" =>
                            OLP!Current(w)' = OLP!Current(w)
      /\ \A w \in Work : OLP!Current(w).state = "in_flight" =>
            \E e \in OLP!Events : /\ OLP!Current(w)' = e
                                /\ e.work = w /\ e.state = "uncertain" /\ e.result = Null
                                /\ e.attempt = OLP!Current(w).attempt
                                /\ e.request = OLP!Current(w).request
      /\ offAttempts' = offAttempts
  BY <1>1, <1>2, OffPlanHolds, OLP!RecoverMoves
<1> QED
  BY <1>2, <1>3, OffSameCurrent, OffSameCurrentNext DEF OffInterrupted

LEMMA OffRowFacts ==
    ASSUME OLP!IInv, NEW w \in Work
    PROVE  /\ Off!L!Current(w) \in OLP!Events
           /\ Off!L!Current(w).work = w
           /\ Off!L!Current(w).state \in OLP!States
           /\ Off!L!Current(w).attempt \in Nat
           /\ Off!L!Current(w).request \in Off!Envelopes \cup {Null}
           /\ Off!L!Current(w).result \in Results \cup {Null}
           /\ Len(offAttempts) \in Nat
           /\ Off!L!Current(w).attempt # 0 =>
                 /\ Off!L!Current(w).attempt \in 1..Len(offAttempts)
                 /\ offAttempts[Off!L!Current(w).attempt].work = w
<1>1. OLP!Current(w) \in OLP!Events /\ OLP!Current(w).work = w
  BY OffPlanHolds, OLP!CurrentIsLast DEF OLP!IInv
<1>2. OLP!Current(w).attempt # 0 =>
         /\ OLP!Current(w).attempt \in 1..Len(offAttempts)
         /\ offAttempts[OLP!Current(w).attempt] =
                [work |-> w, request |-> OLP!Current(w).request]
  BY OffPlanHolds, OLP!CurrentAttempted
<1>3. Len(offAttempts) \in Nat
  BY DEF OLP!IInv, OLP!TypeOK
<1>4. PICK c \in OLP!Events : c = OLP!Current(w)
  BY <1>1
<1>5. /\ c.state \in OLP!States /\ c.attempt \in Nat
      /\ c.request \in Off!Envelopes \cup {Null} /\ c.result \in Results \cup {Null}
  BY DEF OLP!Events
<1> QED
  BY <1>1, <1>2, <1>3, <1>4, <1>5, OffSameCurrent

(* The ledger of a step that makes no transaction. *)
LEMMA OffSameView ==
    ASSUME UNCHANGED <<offEvents, offAttempts, offReconciliations, offRetries, offVersion>>
    PROVE  /\ \A w : Off!L!Current(w)' = Off!L!Current(w)
           /\ \A w : Off!L!DependenciesCompleted(w)' <=> Off!L!DependenciesCompleted(w)
           /\ \A w : Off!Request(w)' = Off!Request(w)
           /\ \A w : Off!Settled(w)' <=> Off!Settled(w)
           /\ OLP!IInv => OLP!IInv'
<1>1. \A w : Off!L!Current(w)' = Off!L!Current(w)
  BY DEF Off!L!Current, Off!L!LastIndex, Off!L!IsLast
<1>2. \A w : Off!L!State(w)' = Off!L!State(w)
  BY <1>1 DEF Off!L!State
<1>3. OLP!IInv => OLP!IInv'
  BY OffPlanHolds, OLP!StepPreserves DEF OLP!vars
<1> QED
  BY <1>1, <1>2, <1>3 DEF Off!L!DependenciesCompleted, Off!Request, Off!Settled

-----------------------------------------------------------------------------
(* What the directory of an offline run holds between any two steps *)

OffRowShape(w) ==
    LET c == Off!L!Current(w) IN
    /\ c.attempt = 0 <=> c.state \in Unsent
    /\ c.attempt = 0 <=> c.request = Null
    /\ c.result # Null <=> c.state \in Answered

(* The request on record is stored, and it is still the prompt of the item. *)
OffPromptStands(w) ==
    LET c == Off!L!Current(w) IN
    c.attempt # 0 => /\ c.request \in offObjects
                     /\ Off!Request(w) = c.request
                     /\ Off!L!DependenciesCompleted(w)

OffAnswerStored(w) ==
    Off!L!Current(w).result # Null => Off!L!Current(w).result \in offObjects

(* What the state of an item says of the calls of the adapter. *)
OffInvokedAsSaid(w) ==
    LET c == Off!L!Current(w) IN
    /\ c.state \in Unsent \cup {"reserved"} => offInvoked[w] = 0
    /\ c.state \in Answered \cup {"failed", "limited"} => offInvoked[w] = 1

(* An attempt that has not started has no receipt; what the fixture closed has. *)
OffReceiptFits(w) ==
    LET c == Off!L!Current(w) IN
    /\ c.state = "reserved" => Off!Receipt(c.attempt) = {}
    /\ offManifest.inspect /\ c.state \in {"failed", "limited"} => Off!ReceiptReads(c)

OffBlocked(w) ==
    Off!L!State(w) = "blocked" =>
        \E d \in Deps[w] : Off!Settled(d) /\ Off!L!State(d) # "completed"

OffItemOK(w) ==
    /\ OffRowShape(w) /\ OffPromptStands(w) /\ OffAnswerStored(w)
    /\ OffInvokedAsSaid(w) /\ OffReceiptFits(w) /\ OffBlocked(w)

OffItems == \A w \in Work : OffItemOK(w)

OffDirectory ==
    /\ offManifest \in Manifests
    /\ offMade \in 1..9 /\ (offMade >= 5 => offManifest \in offObjects)
    /\ offInvoked \in [Work -> 0..1]
    /\ \A file \in offReceipts : file.attempt \in 1..Len(offAttempts)

-----------------------------------------------------------------------------
(* Where a process of an offline run may be *)

OffSending == {"invoke", "native", "create_receipt", "write_receipt", "fail", "put", "record"}
OffDriving == {"loop", "reserve", "start", "complete"} \cup OffSending
OffPlaces == {"idle", "make", "fill", "open", "drive"} \cup OffDriving

OffLocals ==
    [pc : OffPlaces, at : Nat, steps : Nat, request : Off!Envelopes \cup {Null},
     outcome : Off!InspectOutcomes \cup {Null}]

OffNative(r) == [status |-> r.outcome.status, request |-> r.request]

(* What comes before its place in the plan is settled, and nothing but what   *)
(* it is sending itself is in flight.                                        *)
OffAhead(r) ==
    /\ r.at # 0 /\ (r.pc # "loop" => r.at <= Len(Plan))
    /\ \A i \in 1..Len(Plan) : i < r.at => Off!Settled(Plan[i])
    /\ \A w \in Work : Off!L!State(w) = "in_flight" =>
                          r.pc \in OffSending /\ w = Plan[r.at]

(* What it has prepared for item w, and been answered. *)
OffPreparedFor(r, w) ==
    LET c == Off!L!Current(w) IN
    /\ r.pc = "reserve" => /\ r.request \in Off!Envelopes /\ r.request \in offObjects
                           /\ r.request = Off!Request(w)
                           /\ Off!L!DependenciesCompleted(w)
    /\ r.pc = "start" => c.state = "reserved" /\ c.request = r.request
    /\ r.pc \in OffSending => c.state = "in_flight" /\ c.request = r.request
    /\ r.pc = "complete" => c.state = "result_saved"

OffAnsweredFor(r, w) ==
    LET a == Off!L!Current(w).attempt IN
    /\ r.pc = "invoke" => offInvoked[w] = 0
    /\ r.pc \in OffSending \ {"invoke"} =>
          offInvoked[w] = 1 /\ r.outcome \in Off!InspectOutcomes
    /\ r.pc \in OffSending \ {"invoke", "put", "record"} => r.outcome.status # "success"
    /\ r.pc \in {"invoke", "native", "create_receipt"} => Off!Receipt(a) = {}
    /\ r.pc \in {"create_receipt", "write_receipt"} => OffNative(r) \in offObjects
    /\ r.pc = "fail" /\ offManifest.inspect /\ r.outcome.status # "raised" =>
          /\ OffNative(r) \in offObjects
          /\ \E file \in Off!Receipt(a) : file.native = OffNative(r)
    /\ r.pc \in {"put", "record"} => r.outcome.result \in Results
    /\ r.pc = "record" => r.outcome.result \in offObjects

OffPlaceOK(r) ==
    /\ r.pc \in OffDriving => OffAhead(r)
    /\ OffPreparedFor(r, Plan[r.at]) /\ OffAnsweredFor(r, Plan[r.at])

(* One process drives at a time, with the lock, in a directory that is made. *)
OffPlaced(p) ==
    LET r == offProc[p] IN
    /\ r.pc \notin {"idle", "make"} => offLock = p
    /\ r.pc \in {"drive"} \cup OffDriving => offMade = 9
    /\ OffPlaceOK(r)

OffRunning == offProc \in [Procs -> OffLocals] /\ \A p \in Procs : OffPlaced(p)

(* The inductive invariant. *)
OffIInv == OLP!IInv /\ OffItems /\ OffDirectory /\ OffRunning

-----------------------------------------------------------------------------
(* Items *)

(* What is settled stays as it is: an offline run knows no operator.        *)
OffSettledKept == \A d \in Work : Off!Settled(d) => Off!L!Current(d)' = Off!L!Current(d)

LEMMA OffKept ==
    ASSUME OffSettledKept, NEW w \in Work, OffItemOK(w),
           Off!L!Current(w)' = Off!L!Current(w), offObjects \subseteq offObjects',
           offManifest' = offManifest,
           \/ Off!L!Current(w).state = "in_flight"
           \/ /\ offInvoked'[w] = offInvoked[w]
              /\ \A a : a = Off!L!Current(w).attempt /\ a # 0 =>
                            Off!Receipt(a)' = Off!Receipt(a)
    PROVE  OffItemOK(w)'
<1>1. PICK c : c = Off!L!Current(w) /\ c = Off!L!Current(w)'
  OBVIOUS
<1>2. OffRowShape(w)'
  BY <1>1 DEF OffItemOK, OffRowShape
<1>3. OffPromptStands(w)'
  <2> SUFFICES ASSUME c.attempt # 0
               PROVE  /\ c.request \in offObjects' /\ Off!Request(w)' = c.request
                      /\ Off!L!DependenciesCompleted(w)'
    BY <1>1 DEF OffPromptStands
  <2>1. /\ c.request \in offObjects /\ Off!Request(w) = c.request
        /\ Off!L!DependenciesCompleted(w)
    BY <1>1 DEF OffItemOK, OffPromptStands
  <2>2. ASSUME NEW d \in Deps[w]
        PROVE  Off!L!Current(d)' = Off!L!Current(d) /\ Off!L!State(d) = "completed"
    <3>1. d \in Work /\ Off!L!State(d) = "completed"
      BY <2>1, OfflinePlanAssumption DEF Off!L!DependenciesCompleted
    <3> QED
      BY <3>1 DEF OffSettledKept, Off!Settled
  <2> QED
    BY <2>1, <2>2 DEF Off!Request, Off!L!DependenciesCompleted, Off!L!State
<1>4. OffAnswerStored(w)'
  BY <1>1 DEF OffItemOK, OffAnswerStored
<1>5. OffInvokedAsSaid(w)'
  BY <1>1 DEF OffItemOK, OffInvokedAsSaid, Unsent, Answered
<1>6. OffReceiptFits(w)'
  <2>1. CASE c.state \in {"reserved", "failed", "limited"}
    <3>1. PICK a : a = c.attempt
      OBVIOUS
    <3>2. a # 0
      BY <1>1, <2>1, <3>1 DEF OffItemOK, OffRowShape, Unsent
    <3>3. Off!Receipt(a)' = Off!Receipt(a)
      BY <1>1, <2>1, <3>1, <3>2
    <3>4. Off!ReceiptReads(c) => Off!ReceiptReads(c)'
      BY <3>1, <3>3 DEF Off!ReceiptReads
    <3> QED
      BY <1>1, <3>1, <3>3, <3>4 DEF OffItemOK, OffReceiptFits
  <2>2. CASE c.state \notin {"reserved", "failed", "limited"}
    BY <1>1, <2>2 DEF OffReceiptFits
  <2> QED
    BY <2>1, <2>2
<1>7. OffBlocked(w)'
  <2> SUFFICES ASSUME Off!L!State(w) = "blocked"
               PROVE  \E d \in Deps[w] : Off!Settled(d)' /\ Off!L!State(d)' # "completed"
    BY <1>1 DEF OffBlocked, Off!L!State
  <2>1. PICK d \in Deps[w] : Off!Settled(d) /\ Off!L!State(d) # "completed"
    BY DEF OffItemOK, OffBlocked
  <2>2. Off!L!Current(d)' = Off!L!Current(d)
    BY <2>1, OfflinePlanAssumption DEF OffSettledKept
  <2> QED
    BY <2>1, <2>2 DEF Off!Settled, Off!L!State
<1> QED
  BY <1>2, <1>3, <1>4, <1>5, <1>6, <1>7 DEF OffItemOK

(* A transaction of the ledger changes no file. *)
LEMMA OffTransaction ==
    ASSUME OLP!IInv, OLP!IInv', OffItems, OffDirectory,
           UNCHANGED <<offManifest, offMade, offObjects, offReceipts, offInvoked>>,
           Len(offAttempts) <= Len(offAttempts'), OffSettledKept,
           \A v \in Work : Off!L!Current(v)' = Off!L!Current(v) \/ OffItemOK(v)'
    PROVE  OffItems' /\ OffDirectory'
<1>1. Len(offAttempts) \in Nat /\ Len(offAttempts') \in Nat
  BY DEF OLP!IInv, OLP!TypeOK
<1>2. \A a : Off!Receipt(a)' = Off!Receipt(a)
  BY DEF Off!Receipt
<1>3. ASSUME NEW v \in Work
      PROVE  OffItemOK(v)'
  BY <1>2, OffKept DEF OffItems
<1>4. \A file \in offReceipts : file.attempt \in 1..Len(offAttempts')
  BY <1>1 DEF OffDirectory
<1> QED
  BY <1>3, <1>4 DEF OffItems, OffDirectory

(* A step of the files or of the adapter makes no transaction. *)
LEMMA OffFileStep ==
    ASSUME OLP!IInv, OffItems,
           UNCHANGED <<offEvents, offAttempts, offReconciliations, offRetries, offVersion>>,
           offManifest' = offManifest, offObjects \subseteq offObjects',
           \A v \in Work :
               \/ Off!L!Current(v).state = "in_flight"
               \/ /\ offInvoked'[v] = offInvoked[v]
                  /\ \A a : a = Off!L!Current(v).attempt /\ a # 0 =>
                                Off!Receipt(a)' = Off!Receipt(a)
    PROVE  OLP!IInv' /\ OffItems' /\ OffSettledKept
<1>1. OffSettledKept
  BY OffSameView DEF OffSettledKept
<1>2. ASSUME NEW v \in Work
      PROVE  OffItemOK(v)'
  BY <1>1, OffSameView, OffKept DEF OffItems
<1> QED
  BY <1>1, <1>2, OffSameView DEF OffItems

(* A new current row for an item that is not settled. *)
LEMMA OffOneItem ==
    ASSUME NEW w, NEW e, OffAppended(w, e), ~Off!Settled(w)
    PROVE  OffSettledKept
BY DEF OffAppended, OffSettledKept

LEMMA OffPromptKept ==
    ASSUME OffSettledKept, NEW w \in Work, Off!L!DependenciesCompleted(w)
    PROVE  Off!L!DependenciesCompleted(w)' /\ Off!Request(w)' = Off!Request(w)
<1>1. ASSUME NEW d \in Deps[w]
      PROVE  Off!L!Current(d)' = Off!L!Current(d) /\ Off!L!State(d) = "completed"
  <2>1. d \in Work /\ Off!L!State(d) = "completed"
    BY OfflinePlanAssumption DEF Off!L!DependenciesCompleted
  <2> QED
    BY <2>1 DEF OffSettledKept, Off!Settled
<1> QED
  BY <1>1 DEF Off!Request, Off!L!DependenciesCompleted, Off!L!State

(* The item of an attempt moves on, and its new row is as it should be. *)
LEMMA OffMovedStep ==
    ASSUME OLP!IInv, OLP!IInv', OffItems, OffDirectory,
           UNCHANGED <<offManifest, offMade, offObjects, offReceipts, offInvoked>>,
           offAttempts' = offAttempts,
           NEW w, NEW e \in OLP!Events, OffAppended(w, e), ~Off!Settled(w),
           e.attempt = Off!L!Current(w).attempt, e.attempt # 0,
           e.request = Off!L!Current(w).request,
           e.state \notin Unsent \cup {"reserved"},
           e.result # Null <=> e.state \in Answered,
           e.result # Null => e.result \in offObjects,
           e.state \in Answered \cup {"failed", "limited"} => offInvoked[w] = 1,
           offManifest.inspect /\ e.state \in {"failed", "limited"} => Off!ReceiptReads(e)
    PROVE  OffItems' /\ OffDirectory' /\ OffSettledKept
<1>1. w \in Work /\ Off!L!Current(w)' = e
  BY DEF OffAppended
<1>2. OffSettledKept
  BY OffOneItem
<1>3. OffItemOK(w)'
  <2>1. OffRowShape(w) /\ OffPromptStands(w)
    BY <1>1 DEF OffItems, OffItemOK
  <2>2. e.request # Null
    BY <2>1 DEF OffRowShape
  <2>3. OffRowShape(w)'
    BY <1>1, <2>2 DEF OffRowShape
  <2>4. /\ e.request \in offObjects /\ Off!Request(w) = e.request
        /\ Off!L!DependenciesCompleted(w)
    BY <2>1 DEF OffPromptStands
  <2>5. Off!L!DependenciesCompleted(w)' /\ Off!Request(w)' = Off!Request(w)
    BY <1>1, <1>2, <2>4, OffPromptKept
  <2>6. OffPromptStands(w)' /\ OffAnswerStored(w)'
    BY <1>1, <2>4, <2>5 DEF OffPromptStands, OffAnswerStored
  <2>7. OffInvokedAsSaid(w)' /\ OffBlocked(w)'
    BY <1>1 DEF OffInvokedAsSaid, OffBlocked, Unsent, Off!L!State
  <2>8. Off!ReceiptReads(e) => Off!ReceiptReads(e)'
    BY DEF Off!ReceiptReads, Off!Receipt
  <2>9. OffReceiptFits(w)'
    BY <1>1, <2>8 DEF OffReceiptFits
  <2> QED
    BY <2>3, <2>6, <2>7, <2>9 DEF OffItemOK
<1>4. Len(offAttempts) <= Len(offAttempts')
  BY DEF OLP!IInv, OLP!TypeOK
<1> QED
  BY <1>1, <1>2, <1>3, <1>4, OffTransaction DEF OffAppended

(* recover settles what is in flight. *)
LEMMA OffRecoverStep ==
    ASSUME OLP!IInv, OffItems, OffDirectory, Off!L!Recover,
           UNCHANGED <<offManifest, offMade, offObjects, offReceipts, offInvoked>>
    PROVE  /\ OLP!IInv' /\ OffItems' /\ OffDirectory' /\ OffSettledKept
           /\ \A w \in Work : Off!L!State(w)' # "in_flight"
           /\ \A w \in Work : Off!L!State(w) = "in_flight" => Off!Settled(w)'
<1>1. /\ OLP!IInv' /\ offAttempts' = offAttempts
      /\ \A w \in Work : OffInterrupted(w)
  BY OffRecoverEffect
<1>2. OffSettledKept
  BY <1>1 DEF OffSettledKept, OffInterrupted, Off!Settled, Off!L!State
<1>3. ASSUME NEW w \in Work, Off!L!Current(w).state = "in_flight"
      PROVE  OffItemOK(w)' /\ Off!Settled(w)'
  <2>1. PICK e : /\ Off!L!Current(w)' = e
                 /\ e.state = "uncertain" /\ e.result = Null
                 /\ e.attempt = Off!L!Current(w).attempt
                 /\ e.request = Off!L!Current(w).request
    BY <1>1, <1>3 DEF OffInterrupted
  <2>2. OffRowShape(w) /\ OffPromptStands(w)
    BY DEF OffItems, OffItemOK
  <2>3. e.attempt # 0
    BY <1>3, <2>1, <2>2 DEF OffRowShape, Unsent
  <2>4. OffRowShape(w)'
    BY <1>3, <2>1, <2>2, <2>3 DEF OffRowShape, Unsent, Answered
  <2>5. /\ e.request \in offObjects /\ Off!Request(w) = e.request
        /\ Off!L!DependenciesCompleted(w)
    BY <2>1, <2>2, <2>3 DEF OffPromptStands
  <2>6. Off!L!DependenciesCompleted(w)' /\ Off!Request(w)' = Off!Request(w)
    BY <1>2, <2>5, OffPromptKept
  <2>7. OffPromptStands(w)' /\ OffAnswerStored(w)'
    BY <2>1, <2>5, <2>6 DEF OffPromptStands, OffAnswerStored
  <2>8. OffInvokedAsSaid(w)' /\ OffBlocked(w)' /\ OffReceiptFits(w)'
    BY <2>1 DEF OffInvokedAsSaid, OffBlocked, OffReceiptFits, Unsent, Answered, Off!L!State
  <2> QED
    BY <2>1, <2>4, <2>7, <2>8 DEF OffItemOK, Off!Settled, Off!L!State
<1>4. ASSUME NEW w \in Work
      PROVE  Off!L!State(w)' # "in_flight"
  <2>1. CASE Off!L!Current(w).state = "in_flight"
    BY <1>3, <2>1 DEF Off!Settled
  <2>2. CASE Off!L!Current(w).state # "in_flight"
    BY <1>1, <2>2 DEF OffInterrupted, Off!L!State
  <2> QED
    BY <2>1, <2>2
<1>5. Len(offAttempts) <= Len(offAttempts')
  BY <1>1 DEF OLP!IInv, OLP!TypeOK
<1>6. \A v \in Work : Off!L!Current(v)' = Off!L!Current(v) \/ OffItemOK(v)'
  BY <1>1, <1>3 DEF OffInterrupted
<1>7. OffItems' /\ OffDirectory'
  BY <1>1, <1>2, <1>5, <1>6, OffTransaction
<1> QED
  BY <1>1, <1>2, <1>3, <1>4, <1>7 DEF Off!L!State

-----------------------------------------------------------------------------
(* Processes *)

(* A process that does not drive has nothing prepared. *)
LEMMA OffResting ==
    ASSUME NEW r, r.pc \notin OffDriving
    PROVE  OffPlaceOK(r) /\ OffPlaceOK(r)'
BY DEF OffPlaceOK, OffPreparedFor, OffAnsweredFor, OffDriving, OffSending

(* Everybody else is at rest while one process works with the lock. *)
LEMMA OffAlone ==
    ASSUME OffRunning, NEW p \in Procs,
           offProc[p].pc \notin {"idle", "make"} \/ offLock = Null,
           NEW r \in OffLocals, offProc' = [offProc EXCEPT ![p] = r],
           r.pc \notin {"idle", "make"} => offLock' = p,
           r.pc \in {"drive"} \cup OffDriving => offMade' = 9,
           OffPlaceOK(r)'
    PROVE  OffRunning'
<1>1. offProc' \in [Procs -> OffLocals] /\ offProc'[p] = r
  BY DEF OffRunning
<1>2. OffPlaced(p)'
  BY <1>1 DEF OffPlaced
<1>3. ASSUME NEW q \in Procs, q # p
      PROVE  OffPlaced(q)'
  <2>1. PICK s : s = offProc[q] /\ s = offProc'[q]
    BY <1>3 DEF OffRunning
  <2>2. s.pc \in {"idle", "make"}
    BY <1>3, <2>1, OfflineNullAssumption DEF OffRunning, OffPlaced
  <2>3. OffPlaceOK(s)'
    BY <2>2, OffResting DEF OffDriving, OffSending
  <2> QED
    BY <2>1, <2>2, <2>3 DEF OffPlaced, OffDriving, OffSending
<1> QED
  BY <1>1, <1>2, <1>3 DEF OffRunning

(* What a process has prepared stands while nobody works on the run. *)
LEMMA OffPlaceStays ==
    ASSUME UNCHANGED <<offEvents, offAttempts, offReconciliations, offRetries, offVersion>>,
           UNCHANGED <<offManifest, offObjects, offReceipts, offInvoked>>,
           NEW r, OffPlaceOK(r)
    PROVE  OffPlaceOK(r)'
<1>1. PICK w : w = Plan[r.at]
  OBVIOUS
<1>2. /\ \A v : Off!L!Current(v)' = Off!L!Current(v)
      /\ \A v : Off!L!State(v)' = Off!L!State(v)
      /\ \A v : Off!L!DependenciesCompleted(v)' <=> Off!L!DependenciesCompleted(v)
      /\ \A v : Off!Request(v)' = Off!Request(v)
      /\ \A v : Off!Settled(v)' <=> Off!Settled(v)
      /\ \A a : Off!Receipt(a)' = Off!Receipt(a)
  BY OffSameView DEF Off!L!State, Off!Receipt
<1>3. OffAhead(r) => OffAhead(r)'
  BY <1>2 DEF OffAhead
<1>4. OffPreparedFor(r, w) => OffPreparedFor(r, w)'
  BY <1>2 DEF OffPreparedFor
<1>5. OffAnsweredFor(r, w) => OffAnsweredFor(r, w)'
  <2>1. PICK a : a = Off!L!Current(w).attempt /\ a = Off!L!Current(w)'.attempt
    BY <1>2
  <2>2. Off!Receipt(a)' = Off!Receipt(a)
    BY <1>2
  <2> QED
    BY <2>1, <2>2 DEF OffAnsweredFor
<1> QED
  BY <1>1, <1>3, <1>4, <1>5 DEF OffPlaceOK

(* A process without the lock disturbs nobody. *)
LEMMA OffBeside ==
    ASSUME OffRunning, NEW p \in Procs,
           UNCHANGED <<offEvents, offAttempts, offReconciliations, offRetries, offVersion>>,
           UNCHANGED <<offManifest, offObjects, offReceipts, offInvoked>>,
           offLock' = offLock \/ offLock = p, offMade = 9 => offMade' = 9,
           NEW r \in OffLocals, r.pc \in {"idle", "make"},
           offProc' = [offProc EXCEPT ![p] = r]
    PROVE  OffRunning'
<1>1. offProc' \in [Procs -> OffLocals] /\ offProc'[p] = r
  BY DEF OffRunning
<1>2. ASSUME NEW q \in Procs
      PROVE  OffPlaced(q)'
  <2>1. CASE q = p
    <3>1. r.pc \notin OffDriving /\ r.pc # "drive"
      BY DEF OffDriving, OffSending
    <3>2. OffPlaceOK(r)'
      BY <3>1, OffResting
    <3> QED
      BY <1>1, <2>1, <3>1, <3>2 DEF OffPlaced
  <2>2. CASE q # p
    <3>1. PICK s : s = offProc[q] /\ s = offProc'[q]
      BY <2>2 DEF OffRunning
    <3>2. /\ s.pc \notin {"idle", "make"} => offLock = q
          /\ s.pc \in {"drive"} \cup OffDriving => offMade = 9
          /\ OffPlaceOK(s)
      BY <3>1 DEF OffRunning, OffPlaced
    <3>3. OffPlaceOK(s)'
      BY <3>2, OffPlaceStays
    <3> QED
      BY <2>2, <3>1, <3>2, <3>3 DEF OffPlaced
  <2> QED
    BY <2>1, <2>2
<1> QED
  BY <1>1, <1>2 DEF OffRunning

LEMMA OffIdle == Off!Idle \in OffLocals /\ Off!Idle.pc = "idle"
BY DEF Off!Idle, OffLocals, OffPlaces

(* The place of a process with its program counter set. *)
LEMMA OffGoto ==
    ASSUME OffRunning, NEW p \in Procs, NEW pc \in OffPlaces, Off!Goto(p, pc)
    PROVE  \E r \in OffLocals :
               /\ offProc' = [offProc EXCEPT ![p] = r]
               /\ r.pc = pc /\ r.at = offProc[p].at /\ r.steps = offProc[p].steps
               /\ r.request = offProc[p].request /\ r.outcome = offProc[p].outcome
<1>1. PICK s \in OffLocals : s = offProc[p]
  BY DEF OffRunning
<1>2. PICK r : r = [s EXCEPT !.pc = pc]
  OBVIOUS
<1>3. /\ r \in OffLocals /\ r.pc = pc /\ r.at = s.at /\ r.steps = s.steps
      /\ r.request = s.request /\ r.outcome = s.outcome
  BY <1>2 DEF OffLocals
<1>4. offProc' = [offProc EXCEPT ![p] = r]
  BY <1>1, <1>2 DEF Off!Goto, OffRunning
<1> QED
  BY <1>1, <1>3, <1>4

LEMMA OffLeaves ==
    ASSUME OffIInv, NEW p \in Procs, Off!Leave(p), offManifest' = offManifest,
           UNCHANGED <<offEvents, offAttempts, offReconciliations, offRetries, offVersion>>,
           UNCHANGED <<offMade, offObjects, offReceipts, offInvoked>>
    PROVE  OffIInv'
<1>1. OLP!IInv' /\ OffItems'
  BY OffFileStep DEF OffIInv, Off!Receipt
<1>2. OffDirectory'
  BY DEF OffIInv, OffDirectory
<1>3. PICK r \in OffLocals : r = Off!Idle /\ r.pc = "idle"
  BY OffIdle
<1>4. offProc' = [offProc EXCEPT ![p] = r] /\ (offLock' = offLock \/ offLock = p)
  BY <1>3 DEF Off!Leave
<1>5. OffRunning'
  BY <1>3, <1>4, OffBeside DEF OffIInv
<1> QED
  BY <1>1, <1>2, <1>5 DEF OffIInv

-----------------------------------------------------------------------------
(* The run directory *)

LEMMA OffReached ==
    ASSUME offMade \in 1..9
    PROVE  /\ \A i \in 1..9 : Off!Steps[i] = "snapshot" <=> i = 5
           /\ Off!Reached("lock_file") <=> offMade >= 3
           /\ Off!Reached("ledger") <=> offMade = 9
<1>1. /\ Off!Steps[1] = "nothing" /\ Off!Steps[2] = "directory"
      /\ Off!Steps[3] = "lock_file" /\ Off!Steps[4] = "objects"
      /\ Off!Steps[5] = "snapshot" /\ Off!Steps[6] = "pointer_file"
      /\ Off!Steps[7] = "pointer" /\ Off!Steps[8] = "ledger_file"
      /\ Off!Steps[9] = "ledger"
  BY DEF Off!Steps
<1>2. \A i \in 1..9 : /\ Off!Steps[i] = "snapshot" <=> i = 5
                      /\ Off!Steps[i] = "lock_file" <=> i = 3
                      /\ Off!Steps[i] = "ledger" <=> i = 9
  <2> SUFFICES ASSUME NEW i \in 1..9
               PROVE  /\ Off!Steps[i] = "snapshot" <=> i = 5
                      /\ Off!Steps[i] = "lock_file" <=> i = 3
                      /\ Off!Steps[i] = "ledger" <=> i = 9
    OBVIOUS
  <2>1. i = 1 \/ i = 2 \/ i = 3 \/ i = 4 \/ i = 5 \/ i = 6 \/ i = 7 \/ i = 8 \/ i = 9
    OBVIOUS
  <2> QED
    BY <1>1, <2>1
<1>3. Off!Reached("lock_file") <=> offMade >= 3
  BY <1>2 DEF Off!Reached
<1>4. Off!Reached("ledger") <=> offMade = 9
  BY <1>2 DEF Off!Reached
<1> QED
  BY <1>2, <1>3, <1>4

LEMMA OffMakes ==
    ASSUME OffIInv, NEW p \in Procs, offManifest' = offManifest,
           Off!MakeDirectory(p) \/ Off!MakeLockFile(p)
    PROVE  OffIInv'
<1>1. /\ UNCHANGED <<offEvents, offAttempts, offReconciliations, offRetries, offVersion>>
      /\ UNCHANGED <<offObjects, offReceipts, offLock, offInvoked>>
  BY DEF Off!MakeDirectory, Off!MakeLockFile, Off!ledgerVars
<1>2. OLP!IInv' /\ OffItems'
  BY <1>1, OffFileStep DEF OffIInv, Off!Receipt
<1>3. offMade \in 1..9
  BY DEF OffIInv, OffDirectory
<1>4. offMade \in {1, 2} /\ offMade' = offMade + 1
  <2>1. CASE Off!MakeDirectory(p)
    BY <2>1 DEF Off!MakeDirectory
  <2>2. CASE Off!MakeLockFile(p)
    <3>1. ~Off!Reached("lock_file") /\ offMade' = offMade + 1
      BY <2>2 DEF Off!MakeLockFile
    <3>2. ~(offMade >= 3)
      BY <1>3, <3>1, OffReached
    <3> QED
      BY <1>3, <3>1, <3>2
  <2> QED
    BY <2>1, <2>2
<1>5. OffDirectory'
  BY <1>1, <1>3, <1>4 DEF OffIInv, OffDirectory
<1>6. OffRunning'
  <2> SUFFICES ASSUME NEW r \in OffLocals, r.pc \in {"idle", "make"},
                      offProc' = [offProc EXCEPT ![p] = r]
               PROVE  OffRunning'
    <3>1. \E r \in OffLocals : r.pc = "make" /\ offProc' = [offProc EXCEPT ![p] = r]
      <4>1. CASE Off!MakeDirectory(p)
        <5>1. Off!Goto(p, "make") /\ "make" \in OffPlaces
          BY <4>1 DEF Off!MakeDirectory, OffPlaces
        <5> QED
          BY <5>1, OffGoto DEF OffIInv
      <4>2. CASE Off!MakeLockFile(p)
        BY <4>2 DEF Off!MakeLockFile, OffIInv, OffRunning
      <4> QED
        BY <4>1, <4>2
    <3> QED
      BY <3>1
  <2>1. offLock' = offLock /\ (offMade = 9 => offMade' = 9)
    BY <1>1, <1>4
  <2> QED
    BY <1>1, <2>1, OffBeside DEF OffIInv
<1> QED
  BY <1>2, <1>5, <1>6 DEF OffIInv

(* Steps that only take the lock, or go on with it. *)
LEMMA OffGoesOn ==
    ASSUME OffIInv, NEW p \in Procs, offManifest' = offManifest,
           UNCHANGED <<offEvents, offAttempts, offReconciliations, offRetries, offVersion>>,
           UNCHANGED <<offMade, offObjects, offReceipts, offInvoked>>,
           offProc[p].pc \notin {"idle", "make"} \/ offLock = Null, offLock' = p,
           NEW pc \in {"fill", "open", "drive"}, Off!Goto(p, pc),
           pc = "drive" => offMade = 9
    PROVE  OffIInv'
<1>1. OLP!IInv' /\ OffItems'
  BY OffFileStep DEF OffIInv, Off!Receipt
<1>2. OffDirectory'
  BY DEF OffIInv, OffDirectory
<1>3. pc \in OffPlaces /\ pc \notin OffDriving
  BY DEF OffPlaces, OffDriving, OffSending
<1>4. PICK r \in OffLocals : offProc' = [offProc EXCEPT ![p] = r] /\ r.pc = pc
  BY <1>3, OffGoto DEF OffIInv
<1>5. OffPlaceOK(r)'
  BY <1>3, <1>4, OffResting
<1>6. OffRunning'
  BY <1>3, <1>4, <1>5, OffAlone DEF OffIInv
<1> QED
  BY <1>1, <1>2, <1>6 DEF OffIInv

LEMMA OffLocks ==
    ASSUME OffIInv, NEW p \in Procs, offManifest' = offManifest,
           \/ Off!LockNew(p) \/ Off!LockOld(p) \/ Off!OpenRun(p) \/ Off!Filled(p)
    PROVE  OffIInv'
<1>1. /\ UNCHANGED <<offEvents, offAttempts, offReconciliations, offRetries, offVersion>>
      /\ UNCHANGED <<offMade, offObjects, offReceipts, offInvoked>>
  BY DEF Off!LockNew, Off!LockOld, Off!OpenRun, Off!Filled, Off!ledgerVars
<1>2. CASE Off!Leave(p)
  BY <1>1, <1>2, OffLeaves
<1>3. offMade \in 1..9
  BY DEF OffIInv, OffDirectory
<1>4. CASE Off!LockNew(p) /\ ~Off!Leave(p)
  <2>1. offLock = Null /\ offLock' = p /\ Off!Goto(p, "fill")
    BY <1>4 DEF Off!LockNew, Off!Free
  <2> QED
    BY <1>1, <2>1, OffGoesOn
<1>5. CASE Off!LockOld(p)
  <2>1. offLock = Null /\ offLock' = p /\ Off!Goto(p, "open")
    BY <1>5 DEF Off!LockOld, Off!Free
  <2> QED
    BY <1>1, <2>1, OffGoesOn
<1>6. CASE (Off!OpenRun(p) \/ Off!Filled(p)) /\ ~Off!Leave(p)
  <2>1. /\ offProc[p].pc \in {"open", "fill"} /\ offLock' = offLock
        /\ offMade = 9 /\ Off!Goto(p, "drive")
    BY <1>3, <1>6, OffReached DEF Off!OpenRun, Off!Filled
  <2>2. offLock = p
    BY <2>1 DEF OffIInv, OffRunning, OffPlaced
  <2> QED
    BY <1>1, <2>1, <2>2, OffGoesOn
<1> QED
  BY <1>2, <1>4, <1>5, <1>6

LEMMA OffFills ==
    ASSUME OffIInv, NEW p \in Procs, offManifest' = offManifest, Off!Fill(p)
    PROVE  OffIInv'
<1>1. /\ UNCHANGED <<offEvents, offAttempts, offReconciliations, offRetries, offVersion>>
      /\ UNCHANGED <<offReceipts, offInvoked, offLock, offProc>>
      /\ offMade' = offMade + 1
      /\ offObjects' = IF Off!Steps[offMade'] = "snapshot" THEN offObjects \cup {offManifest}
                      ELSE offObjects
      /\ offProc[p].pc = "fill" /\ ~Off!Reached("ledger")
  BY DEF Off!Fill, Off!ledgerVars
<1>2. OLP!IInv' /\ OffItems'
  BY <1>1, OffFileStep DEF OffIInv, Off!Receipt
<1>3. offMade \in 1..9 /\ offMade # 9
  BY <1>1, OffReached DEF OffIInv, OffDirectory
<1>4. OffDirectory'
  <2>1. offMade' = 5 => offManifest \in offObjects'
    BY <1>1, <1>3, OffReached
  <2>2. offMade' \in 1..9 /\ (offMade' >= 5 => offMade >= 5 \/ offMade' = 5)
    BY <1>1, <1>3
  <2> QED
    BY <1>1, <2>1, <2>2 DEF OffIInv, OffDirectory
<1>5. OffRunning'
  <2>1. PICK r \in OffLocals : r = offProc[p]
    BY DEF OffIInv, OffRunning
  <2>2. r.pc = "fill" /\ offProc' = [offProc EXCEPT ![p] = r] /\ offLock = p
    BY <1>1, <2>1 DEF OffIInv, OffRunning, OffPlaced
  <2>3. r.pc \notin {"drive"} \cup OffDriving
    BY <2>2 DEF OffDriving, OffSending
  <2>4. OffPlaceOK(r)'
    BY <2>3, OffResting
  <2> QED
    BY <1>1, <2>1, <2>2, <2>3, <2>4, OffAlone DEF OffIInv
<1> QED
  BY <1>2, <1>4, <1>5 DEF OffIInv

-----------------------------------------------------------------------------
(* The loop of _drive *)

LEMMA OffWorker ==
    ASSUME OffIInv, NEW p \in Procs, offProc[p].pc \in OffDriving,
           offProc[p].pc # "loop" \/ offProc[p].at <= Len(Plan)
    PROVE  \E l \in OffLocals, w \in Work :
              /\ l = offProc[p] /\ w = Off!Item(p) /\ w = Plan[l.at]
              /\ l.at \in 1..Len(Plan) /\ offLock = p /\ offMade = 9
              /\ Off!AttemptAt(p) = Off!L!Current(w).attempt
              /\ OffAhead(l) /\ OffPreparedFor(l, w) /\ OffAnsweredFor(l, w)
              /\ OffItemOK(w)
<1>1. PICK l \in OffLocals : l = offProc[p]
  BY DEF OffIInv, OffRunning
<1>2. /\ l.pc \notin {"idle", "make"} => offLock = p
      /\ l.pc \in {"drive"} \cup OffDriving => offMade = 9
      /\ OffPlaceOK(l)
  BY <1>1 DEF OffIInv, OffRunning, OffPlaced
<1>3. offLock = p /\ offMade = 9 /\ OffAhead(l)
  BY <1>1, <1>2 DEF OffPlaceOK, OffDriving, OffSending
<1>4. l.at \in Nat /\ Len(Plan) \in Nat
  BY OfflinePlanAssumption DEF OffLocals
<1>5. l.at \in 1..Len(Plan)
  BY <1>1, <1>3, <1>4 DEF OffAhead
<1>6. PICK w \in Work : w = Plan[l.at]
  BY <1>5, OfflinePlanAssumption
<1>7. w = Off!Item(p)
  BY <1>1, <1>6 DEF Off!Item
<1>8. Off!AttemptAt(p) = Off!L!Current(w).attempt
  BY <1>7 DEF Off!AttemptAt, Off!AttemptOf
<1>9. OffPreparedFor(l, w) /\ OffAnsweredFor(l, w) /\ OffItemOK(w)
  BY <1>2, <1>6 DEF OffPlaceOK, OffIInv, OffItems
<1> QED
  BY <1>1, <1>3, <1>5, <1>6, <1>7, <1>8, <1>9

LEMMA OffAheadKept ==
    ASSUME OffSettledKept, NEW l, NEW r, OffAhead(l), r.at = l.at, r.pc # "loop",
           r.at \in 1..Len(Plan),
           \A v \in Work : Off!L!State(v)' = "in_flight" => r.pc \in OffSending /\ v = Plan[r.at]
    PROVE  OffAhead(r)'
<1>1. ASSUME NEW i \in 1..Len(Plan), i < r.at
      PROVE  Off!Settled(Plan[i])'
  <2>1. Plan[i] \in Work /\ Off!Settled(Plan[i])
    BY <1>1, OfflinePlanAssumption DEF OffAhead
  <2> QED
    BY <2>1 DEF OffSettledKept, Off!Settled, Off!L!State
<1>2. r.at # 0 /\ r.at <= Len(Plan)
  BY OfflinePlanAssumption
<1> QED
  BY <1>1, <1>2 DEF OffAhead

LEMMA OffDrives ==
    ASSUME OffIInv, NEW p \in Procs, offProc[p].pc \in OffDriving,
           offLock' = offLock, offMade' = offMade,
           NEW r \in OffLocals, r.pc \in OffDriving, offProc' = [offProc EXCEPT ![p] = r],
           NEW w, w = Plan[r.at],
           OffAhead(r)', OffPreparedFor(r, w)', OffAnsweredFor(r, w)'
    PROVE  OffRunning'
<1>1. OffPlaceOK(r)'
  BY DEF OffPlaceOK
<1>2. offProc[p].pc \notin {"idle", "make"}
  BY DEF OffDriving, OffSending
<1>3. offLock = p /\ offMade = 9
  BY <1>2 DEF OffIInv, OffRunning, OffPlaced
<1> QED
  BY <1>1, <1>2, <1>3, OffAlone DEF OffIInv

(* The item is settled and the loop goes on. *)
LEMMA OffNextItem ==
    ASSUME OffIInv, NEW p \in Procs, NEW l \in OffLocals, l = offProc[p], l.pc \in OffDriving,
           NEW w \in Work, w = Plan[l.at], l.at \in 1..Len(Plan), OffAhead(l),
           NEW n \in Nat, Off!NextItem(p, n), offLock' = offLock, offMade' = offMade,
           OffSettledKept, Off!Settled(w)',
           \A v \in Work \ {w} : Off!L!Current(v)' = Off!L!Current(v)
    PROVE  OffRunning'
<1>1. PICK r : r = [l EXCEPT !.pc = "loop", !.at = l.at + 1, !.steps = l.steps + n,
                             !.request = Null, !.outcome = Null]
  OBVIOUS
<1>2. l.at + 1 \in Nat /\ l.steps + n \in Nat
  BY DEF OffLocals
<1>3. r \in OffLocals /\ r.pc = "loop" /\ r.at = l.at + 1
  BY <1>1, <1>2 DEF OffLocals, OffPlaces, OffDriving
<1>4. offProc' = [offProc EXCEPT ![p] = r]
  BY <1>1 DEF Off!NextItem, OffIInv, OffRunning
<1>5. ASSUME NEW i \in 1..Len(Plan), i < r.at
      PROVE  Off!Settled(Plan[i])'
  <2>1. CASE i = l.at
    BY <2>1
  <2>2. CASE i # l.at
    <3>1. i < l.at
      BY <1>3, <1>5, <2>2 DEF OffLocals
    <3>2. Plan[i] \in Work /\ Off!Settled(Plan[i])
      BY <3>1, OfflinePlanAssumption DEF OffAhead
    <3> QED
      BY <3>2 DEF OffSettledKept, Off!Settled, Off!L!State
  <2> QED
    BY <2>1, <2>2
<1>6. ASSUME NEW v \in Work, Off!L!State(v)' = "in_flight"
      PROVE  FALSE
  <2>1. v # w
    BY <1>6 DEF Off!Settled
  <2>2. Off!L!State(v) = "in_flight"
    BY <1>6, <2>1 DEF Off!L!State
  <2> QED
    BY <2>1, <2>2 DEF OffAhead
<1>7. OffAhead(r)'
  <2>1. r.at # 0
    BY <1>3
  <2> QED
    BY <1>3, <1>5, <1>6, <2>1 DEF OffAhead
<1>8. r.pc \in OffDriving
  BY <1>3 DEF OffDriving
<1>9. PICK x : x = Plan[r.at]
  OBVIOUS
<1>10. OffPreparedFor(r, x)' /\ OffAnsweredFor(r, x)'
  BY <1>3 DEF OffPreparedFor, OffAnsweredFor, OffSending
<1> QED
  BY <1>3, <1>4, <1>7, <1>8, <1>9, <1>10, OffDrives

LEMMA OffLeavesLoop ==
    ASSUME OffIInv, NEW p \in Procs, offManifest' = offManifest,
           Off!Stop(p) \/ Off!NotAdmitted(p) \/ Off!Dies(p)
    PROVE  OffIInv'
<1>1. /\ Off!Leave(p)
      /\ UNCHANGED <<offEvents, offAttempts, offReconciliations, offRetries, offVersion>>
      /\ UNCHANGED <<offMade, offObjects, offReceipts, offInvoked>>
  BY DEF Off!Stop, Off!NotAdmitted, Off!Dies, Off!ledgerVars
<1> QED
  BY <1>1, OffLeaves

LEMMA OffDrive ==
    ASSUME OffIInv, NEW p \in Procs, offManifest' = offManifest, Off!Drive(p)
    PROVE  OffIInv'
<1>1. UNCHANGED <<offMade, offObjects, offReceipts, offInvoked>> /\ offProc[p].pc = "drive"
  BY DEF Off!Drive
<1>2. CASE Off!Leave(p) /\ UNCHANGED Off!ledgerVars
  BY <1>1, <1>2, OffLeaves DEF Off!ledgerVars
<1>3. CASE /\ Off!Recovered /\ offLock' = offLock
           /\ offProc' = [offProc EXCEPT ![p] = [Off!Idle EXCEPT !.pc = "loop", !.at = 1]]
  <2>1. /\ OLP!IInv' /\ OffItems' /\ OffDirectory'
        /\ \A w \in Work : Off!L!State(w)' # "in_flight"
    <3>1. CASE Off!L!Recover
      BY <1>1, <3>1, OffRecoverStep DEF OffIInv
    <3>2. CASE Off!L!InState("in_flight") = {} /\ UNCHANGED Off!ledgerVars
      <4>1. OLP!IInv' /\ OffItems'
        BY <1>1, <3>2, OffFileStep DEF OffIInv, Off!Receipt, Off!ledgerVars
      <4>2. OffDirectory'
        BY <1>1, <3>2 DEF OffIInv, OffDirectory, Off!ledgerVars
      <4>3. \A w \in Work : Off!L!State(w) # "in_flight"
        BY <3>2 DEF Off!L!InState
      <4>4. \A w : Off!L!Current(w)' = Off!L!Current(w)
        BY <3>2, OffSameView DEF Off!ledgerVars
      <4> QED
        BY <4>1, <4>2, <4>3, <4>4 DEF Off!L!State
    <3> QED
      BY <1>3, <3>1, <3>2 DEF Off!Recovered
  <2>2. PICK r : r = [Off!Idle EXCEPT !.pc = "loop", !.at = 1]
    OBVIOUS
  <2>3. r \in OffLocals /\ r.pc = "loop" /\ r.at = 1
    BY <2>2 DEF Off!Idle, OffLocals, OffPlaces, OffDriving
  <2>4. OffAhead(r)'
    <3>1. ~\E i \in 1..Len(Plan) : i < r.at
      BY <2>3, OfflinePlanAssumption
    <3> QED
      BY <2>1, <2>3, <3>1 DEF OffAhead
  <2>5. PICK x : x = Plan[r.at]
    OBVIOUS
  <2>6. OffPreparedFor(r, x)' /\ OffAnsweredFor(r, x)'
    BY <2>3 DEF OffPreparedFor, OffAnsweredFor, OffSending
  <2>7. OffPlaceOK(r)'
    BY <2>4, <2>5, <2>6 DEF OffPlaceOK
  <2>8. offLock = p /\ offMade = 9
    BY <1>1 DEF OffIInv, OffRunning, OffPlaced
  <2>9. OffRunning'
    BY <1>1, <1>3, <2>2, <2>3, <2>7, <2>8, OffAlone DEF OffIInv
  <2> QED
    BY <2>1, <2>9 DEF OffIInv
<1> QED
  BY <1>2, <1>3 DEF Off!Drive

LEMMA OffPass ==
    ASSUME OffIInv, NEW p \in Procs, offManifest' = offManifest, Off!Pass(p)
    PROVE  OffIInv'
<1>1. /\ UNCHANGED <<offEvents, offAttempts, offReconciliations, offRetries, offVersion>>
      /\ UNCHANGED <<offMade, offObjects, offReceipts, offLock, offInvoked>>
      /\ Off!NextItem(p, 0) /\ offProc[p].pc = "loop" /\ offProc[p].at <= Len(Plan)
      /\ Off!L!State(Off!Item(p)) \notin {"planned", "reserved", "result_saved"}
  BY DEF Off!Pass, Off!AtItem, Off!ledgerVars
<1>2. OLP!IInv' /\ OffItems' /\ OffSettledKept
  BY <1>1, OffFileStep DEF OffIInv, Off!Receipt
<1>3. OffDirectory'
  BY <1>1 DEF OffIInv, OffDirectory
<1>4. PICK l \in OffLocals, w \in Work :
         /\ l = offProc[p] /\ w = Off!Item(p) /\ w = Plan[l.at]
         /\ l.at \in 1..Len(Plan) /\ OffAhead(l)
  BY <1>1, OffWorker DEF OffDriving
<1>5. Off!Settled(w)
  <2>1. Off!L!State(w) # "in_flight"
    BY <1>1, <1>4 DEF OffAhead, OffSending
  <2>2. Off!L!State(w) \in OLP!States
    BY OffRowFacts DEF OffIInv, Off!L!State
  <2> QED
    BY <1>1, <1>4, <2>1, <2>2 DEF OLP!States, Off!Settled
<1>6. Off!Settled(w)' /\ \A v \in Work \ {w} : Off!L!Current(v)' = Off!L!Current(v)
  BY <1>1, <1>5, OffSameView
<1>7. OffRunning'
  BY <1>1, <1>2, <1>4, <1>6, OffNextItem DEF OffDriving
<1> QED
  BY <1>2, <1>3, <1>7 DEF OffIInv

LEMMA OffMovedOf ==
    ASSUME OLP!IInv, NEW w \in Work, NEW a, a = Off!L!Current(w).attempt,
           NEW s, NEW t, NEW r, OffMoved(a, s, t, r)
    PROVE  /\ a # 0 /\ offAttempts[a].work = w /\ Off!L!Current(w).state = s
           /\ \E e \in OLP!Events : /\ OffAppended(w, e)
                                   /\ e.state = t /\ e.attempt = a /\ e.result = r
                                   /\ e.request = Off!L!Current(w).request
<1>1. a \in 1..Len(offAttempts) /\ Len(offAttempts) \in Nat
  BY OffRowFacts DEF OffMoved
<1>2. a # 0
  BY <1>1
<1>3. offAttempts[a].work = w
  BY <1>2, OffRowFacts
<1> QED
  BY <1>2, <1>3 DEF OffMoved

LEMMA OffCompletes ==
    ASSUME OffIInv, NEW p \in Procs, offManifest' = offManifest,
           Off!CompleteSaved(p) \/ Off!Complete(p)
    PROVE  OffIInv'
<1>1. PICK n \in Nat : Off!NextItem(p, n)
  BY DEF Off!CompleteSaved, Off!Complete
<1>2. /\ UNCHANGED <<offMade, offObjects, offReceipts, offLock, offInvoked>>
      /\ offProc[p].pc \in {"loop", "complete"}
      /\ offProc[p].pc # "loop" \/ offProc[p].at <= Len(Plan)
      /\ Off!L!Complete(Off!AttemptAt(p))
  BY DEF Off!CompleteSaved, Off!Complete, Off!AtItem
<1>3. PICK l \in OffLocals, w \in Work :
         /\ l = offProc[p] /\ w = Off!Item(p) /\ w = Plan[l.at]
         /\ l.at \in 1..Len(Plan) /\ Off!AttemptAt(p) = Off!L!Current(w).attempt
         /\ OffAhead(l) /\ OffItemOK(w)
  BY <1>2, OffWorker DEF OffDriving
<1>4. PICK a : a = Off!L!Current(w).attempt
  OBVIOUS
<1>5. Off!L!Complete(a)
  BY <1>2, <1>3, <1>4
<1>6. PICK r : r = Off!L!Current(offAttempts[a].work).result
  OBVIOUS
<1>7. /\ OLP!IInv' /\ OffMoved(a, "result_saved", "completed", r)
      /\ offAttempts' = offAttempts
  BY <1>5, <1>6, OffCompleteEffect DEF OffIInv
<1>8. /\ a # 0 /\ offAttempts[a].work = w /\ Off!L!Current(w).state = "result_saved"
      /\ \E e \in OLP!Events : /\ OffAppended(w, e)
                              /\ e.state = "completed" /\ e.attempt = a /\ e.result = r
                              /\ e.request = Off!L!Current(w).request
  BY <1>4, <1>7, OffMovedOf DEF OffIInv
<1>9. PICK e \in OLP!Events : /\ OffAppended(w, e)
                             /\ e.state = "completed" /\ e.attempt = a /\ e.result = r
                             /\ e.request = Off!L!Current(w).request
  BY <1>8
<1>10. r # Null /\ r \in offObjects /\ offInvoked[w] = 1
  BY <1>3, <1>6, <1>8 DEF OffItemOK, OffRowShape, OffAnswerStored, OffInvokedAsSaid, Answered
<1>11. ~Off!Settled(w)
  BY <1>8 DEF Off!Settled, Off!L!State
<1>12. OffItems' /\ OffDirectory' /\ OffSettledKept
  <2>1. e.attempt = Off!L!Current(w).attempt /\ e.attempt # 0
    BY <1>4, <1>8, <1>9
  <2>2. e.state \notin Unsent \cup {"reserved"} /\ e.state \in Answered
        /\ e.state \notin {"failed", "limited"}
    BY <1>9 DEF Unsent, Answered
  <2> QED
    BY <1>2, <1>7, <1>9, <1>10, <1>11, <2>1, <2>2, OffMovedStep DEF OffIInv
<1>13. Off!Settled(w)' /\ \A v \in Work \ {w} : Off!L!Current(v)' = Off!L!Current(v)
  BY <1>9 DEF OffAppended, Off!Settled, Off!L!State
<1>14. OffRunning'
  BY <1>1, <1>2, <1>3, <1>12, <1>13, OffNextItem DEF OffDriving
<1> QED
  BY <1>7, <1>12, <1>14 DEF OffIInv

(* The prompt of an item whose dependencies completed is an envelope. *)
LEMMA OffRequestTyped ==
    ASSUME OLP!IInv, OffItems, NEW w \in Work, Off!L!DependenciesCompleted(w)
    PROVE  Off!Request(w) \in Off!Envelopes
<1>1. ASSUME NEW d \in Deps[w]
      PROVE  Off!L!Current(d).result \in Results
  <2>1. d \in Work /\ Off!L!Current(d).state = "completed"
    BY OfflinePlanAssumption DEF Off!L!DependenciesCompleted, Off!L!State
  <2>2. OffRowShape(d)
    BY <2>1 DEF OffItems, OffItemOK
  <2>3. Off!L!Current(d).result # Null
    BY <2>1, <2>2 DEF OffRowShape, Answered
  <2> QED
    BY <2>1, <2>3, OffRowFacts
<1>2. [d \in Deps[w] |-> Off!L!Current(d).result] \in [Deps[w] -> Results]
  BY <1>1
<1>3. Off!Request(w) \in [work : {w}, parents : [Deps[w] -> Results]]
  BY <1>2 DEF Off!Request
<1> QED
  BY <1>3 DEF Off!Envelopes

(* What is in the plan before an item that is worked on is settled.        *)
LEMMA OffDependencySettled ==
    ASSUME NEW l, l.at \in 1..Len(Plan), OffAhead(l), NEW d \in Deps[Plan[l.at]]
    PROVE  Off!Settled(d)
<1>1. PICK i \in 1..Len(Plan) : i = l.at
  OBVIOUS
<1>2. PICK j \in 1..(i - 1) : Plan[j] = d
  BY <1>1, OfflinePlanAssumption
<1>3. Len(Plan) \in Nat
  BY OfflinePlanAssumption
<1>4. j \in 1..Len(Plan) /\ j < i
  BY <1>3
<1> QED
  BY <1>1, <1>2, <1>4 DEF OffAhead

LEMMA OffSkips ==
    ASSUME OffIInv, NEW p \in Procs, offManifest' = offManifest, Off!SkipItem(p)
    PROVE  OffIInv'
<1>1. /\ UNCHANGED <<offMade, offObjects, offReceipts, offLock, offInvoked>>
      /\ offProc[p].pc = "loop" /\ offProc[p].at <= Len(Plan) /\ Off!NextItem(p, 0)
      /\ \/ Off!L!Skip(Off!Item(p), "unavailable")
         \/ ~Off!L!DependenciesCompleted(Off!Item(p)) /\ Off!L!Skip(Off!Item(p), "blocked")
  BY DEF Off!SkipItem, Off!Open, Off!AtItem
<1>2. PICK l \in OffLocals, w \in Work :
         /\ l = offProc[p] /\ w = Off!Item(p) /\ w = Plan[l.at]
         /\ l.at \in 1..Len(Plan) /\ OffAhead(l) /\ OffItemOK(w)
  BY <1>1, OffWorker DEF OffDriving
<1>3. PICK s \in {"unavailable", "blocked"} :
         /\ Off!L!Skip(w, s)
         /\ s = "blocked" => ~Off!L!DependenciesCompleted(w)
  BY <1>1, <1>2
<1>4. /\ OLP!IInv' /\ Off!L!Current(w).state = "planned" /\ offAttempts' = offAttempts
      /\ \E e \in OLP!Events : /\ OffAppended(w, e) /\ e.state = s /\ e.attempt = 0
                              /\ e.request = Null /\ e.result = Null
  BY <1>3, OffSkipEffect DEF OffIInv
<1>5. PICK e \in OLP!Events : /\ OffAppended(w, e) /\ e.state = s /\ e.attempt = 0
                             /\ e.request = Null /\ e.result = Null
  BY <1>4
<1>6. Off!L!Current(w)' = e /\ \A v \in Work \ {w} : Off!L!Current(v)' = Off!L!Current(v)
  BY <1>5 DEF OffAppended
<1>7. OffSettledKept
  BY <1>4, <1>5, OffOneItem DEF Off!Settled, Off!L!State
<1>8. OffItemOK(w)'
  <2>1. OffRowShape(w)' /\ OffPromptStands(w)' /\ OffAnswerStored(w)'
    BY <1>5, <1>6 DEF OffRowShape, OffPromptStands, OffAnswerStored, Unsent, Answered
  <2>2. OffInvokedAsSaid(w)' /\ OffReceiptFits(w)'
    BY <1>1, <1>2, <1>4, <1>5, <1>6
       DEF OffItemOK, OffInvokedAsSaid, OffReceiptFits, Unsent, Answered
  <2>3. OffBlocked(w)'
    <3> SUFFICES ASSUME s = "blocked"
                 PROVE  \E d \in Deps[w] : Off!Settled(d)' /\ Off!L!State(d)' # "completed"
      BY <1>5, <1>6 DEF OffBlocked, Off!L!State
    <3>1. PICK d \in Deps[w] : Off!L!State(d) # "completed"
      BY <1>3 DEF Off!L!DependenciesCompleted
    <3>2. d \in Work /\ Off!Settled(d)
      BY <1>2, OffDependencySettled, OfflinePlanAssumption
    <3>3. Off!L!Current(d)' = Off!L!Current(d)
      BY <1>7, <3>2 DEF OffSettledKept
    <3> QED
      BY <3>1, <3>2, <3>3 DEF Off!Settled, Off!L!State
  <2> QED
    BY <2>1, <2>2, <2>3 DEF OffItemOK
<1>9. Len(offAttempts) <= Len(offAttempts')
  BY <1>4, OffRowFacts DEF OffIInv
<1>10. OffItems' /\ OffDirectory'
  BY <1>1, <1>4, <1>6, <1>7, <1>8, <1>9, OffTransaction DEF OffIInv
<1>11. Off!Settled(w)'
  BY <1>5, <1>6 DEF Off!Settled, Off!L!State
<1>12. OffRunning'
  BY <1>1, <1>2, <1>6, <1>7, <1>11, OffNextItem DEF OffDriving
<1> QED
  BY <1>4, <1>10, <1>12 DEF OffIInv

-----------------------------------------------------------------------------
(* From the request to the answer *)

LEMMA OffPutsRequest ==
    ASSUME OffIInv, NEW p \in Procs, offManifest' = offManifest, Off!PutRequest(p)
    PROVE  OffIInv'
<1>1. /\ UNCHANGED <<offEvents, offAttempts, offReconciliations, offRetries, offVersion>>
      /\ UNCHANGED <<offMade, offReceipts, offLock, offInvoked>>
      /\ offProc[p].pc = "loop" /\ offProc[p].at <= Len(Plan)
      /\ Off!L!DependenciesCompleted(Off!Item(p))
      /\ offObjects' = offObjects \cup {Off!Request(Off!Item(p))}
      /\ offProc' = [offProc EXCEPT ![p].pc = "reserve",
                                    ![p].request = Off!Request(Off!Item(p))]
  BY DEF Off!PutRequest, Off!Open, Off!AtItem, Off!ledgerVars
<1>2. OLP!IInv' /\ OffItems' /\ OffSettledKept
  BY <1>1, OffFileStep DEF OffIInv, Off!Receipt
<1>3. OffDirectory'
  BY <1>1 DEF OffIInv, OffDirectory
<1>4. PICK l \in OffLocals, w \in Work :
         /\ l = offProc[p] /\ w = Off!Item(p) /\ w = Plan[l.at]
         /\ l.at \in 1..Len(Plan) /\ OffAhead(l)
  BY <1>1, OffWorker DEF OffDriving
<1>5. PICK q \in Off!Envelopes : q = Off!Request(w)
  BY <1>1, <1>4, OffRequestTyped DEF OffIInv
<1>6. PICK r : r = [l EXCEPT !.pc = "reserve", !.request = q]
  OBVIOUS
<1>7. r \in OffLocals /\ r.pc = "reserve" /\ r.at = l.at /\ r.request = q
  BY <1>6 DEF OffLocals, OffPlaces, OffDriving
<1>8. offProc' = [offProc EXCEPT ![p] = r]
  BY <1>1, <1>4, <1>5, <1>6 DEF OffIInv, OffRunning
<1>9. OffAhead(r)'
  <2>1. ASSUME NEW v \in Work, Off!L!State(v)' = "in_flight"
        PROVE  FALSE
    <3>1. Off!L!State(v) = "in_flight"
      BY <1>1, <2>1, OffSameView DEF Off!L!State
    <3> QED
      BY <1>1, <1>4, <3>1 DEF OffAhead, OffSending
  <2> QED
    BY <1>2, <1>4, <1>7, <2>1, OffAheadKept
<1>10. OffPreparedFor(r, w)' /\ OffAnsweredFor(r, w)'
  <2>1. Off!Request(w)' = q /\ Off!L!DependenciesCompleted(w)' /\ q \in offObjects'
    BY <1>1, <1>4, <1>5, OffSameView
  <2> QED
    BY <1>7, <2>1 DEF OffPreparedFor, OffAnsweredFor, OffSending
<1>11. OffRunning'
  BY <1>1, <1>4, <1>7, <1>8, <1>9, <1>10, OffDrives DEF OffDriving
<1> QED
  BY <1>2, <1>3, <1>11 DEF OffIInv

(* A new reservation of item w for request q. *)
LEMMA OffReservation ==
    ASSUME OffIInv, NEW w \in Work, NEW q \in Off!Envelopes, Off!L!Reserve(w, q),
           UNCHANGED <<offManifest, offMade, offObjects, offReceipts, offInvoked>>,
           q \in offObjects, q = Off!Request(w), Off!L!DependenciesCompleted(w)
    PROVE  /\ OLP!IInv' /\ OffItems' /\ OffDirectory' /\ OffSettledKept
           /\ Off!L!Current(w)'.state = "reserved" /\ Off!L!Current(w)'.request = q
           /\ \A v \in Work \ {w} : Off!L!Current(v)' = Off!L!Current(v)
<1>1. /\ OLP!IInv' /\ Off!L!Current(w).state = "planned"
      /\ offAttempts' = Append(offAttempts, [work |-> w, request |-> q])
      /\ \E e \in OLP!Events : /\ OffAppended(w, e) /\ e.state = "reserved"
                              /\ e.attempt = Len(offAttempts) + 1
                              /\ e.request = q /\ e.result = Null
  BY OffReserveEffect DEF OffIInv
<1>2. PICK n \in Nat : n = Len(offAttempts)
  BY OffRowFacts DEF OffIInv
<1>3. PICK e \in OLP!Events : /\ OffAppended(w, e) /\ e.state = "reserved"
                             /\ e.attempt = n + 1
                             /\ e.request = q /\ e.result = Null
  BY <1>1, <1>2
<1>4. Off!L!Current(w)' = e /\ \A v \in Work \ {w} : Off!L!Current(v)' = Off!L!Current(v)
  BY <1>3 DEF OffAppended
<1>5. OffSettledKept
  BY <1>1, <1>3, OffOneItem DEF Off!Settled, Off!L!State
<1>6. OffItemOK(w)'
  <2>1. q # Null /\ n + 1 # 0
    BY OfflineNullAssumption
  <2>2. OffRowShape(w)' /\ OffAnswerStored(w)' /\ OffBlocked(w)'
    BY <1>3, <1>4, <2>1
       DEF OffRowShape, OffAnswerStored, OffBlocked, Unsent, Answered, Off!L!State
  <2>3. Off!L!DependenciesCompleted(w)' /\ Off!Request(w)' = q
    BY <1>5, OffPromptKept
  <2>4. OffPromptStands(w)'
    BY <1>3, <1>4, <2>3 DEF OffPromptStands
  <2>5. OffItemOK(w)
    BY DEF OffIInv, OffItems
  <2>6. OffInvokedAsSaid(w)'
    BY <1>1, <1>3, <1>4, <2>5 DEF OffItemOK, OffInvokedAsSaid, Unsent, Answered
  <2>7. Off!Receipt(n + 1)' = {}
    <3>1. \A file \in offReceipts : file.attempt \in 1..n
      BY <1>2 DEF OffIInv, OffDirectory
    <3> QED
      BY <3>1 DEF Off!Receipt
  <2>8. OffReceiptFits(w)'
    BY <1>3, <1>4, <2>7 DEF OffReceiptFits
  <2> QED
    BY <2>2, <2>4, <2>6, <2>8 DEF OffItemOK
<1>7. Len(offAttempts) <= Len(offAttempts')
  BY <1>1 DEF OffIInv, OLP!IInv, OLP!TypeOK
<1>8. OffItems' /\ OffDirectory'
  BY <1>1, <1>4, <1>5, <1>6, <1>7, OffTransaction DEF OffIInv
<1> QED
  BY <1>1, <1>3, <1>4, <1>5, <1>8

LEMMA OffReserves ==
    ASSUME OffIInv, NEW p \in Procs, offManifest' = offManifest, Off!Reserve(p)
    PROVE  OffIInv'
<1>1. /\ UNCHANGED <<offMade, offObjects, offReceipts, offLock, offInvoked>>
      /\ offProc[p].pc = "reserve" /\ Off!Goto(p, "start")
  BY DEF Off!Reserve
<1>2. PICK l \in OffLocals, w \in Work :
         /\ l = offProc[p] /\ w = Off!Item(p) /\ w = Plan[l.at]
         /\ l.at \in 1..Len(Plan) /\ OffAhead(l) /\ OffPreparedFor(l, w)
  BY <1>1, OffWorker DEF OffDriving
<1>3. PICK q \in Off!Envelopes :
         /\ q = l.request /\ q \in offObjects /\ q = Off!Request(w)
         /\ Off!L!DependenciesCompleted(w)
  BY <1>1, <1>2 DEF OffPreparedFor
<1>4. /\ OLP!IInv' /\ OffItems' /\ OffDirectory' /\ OffSettledKept
      /\ Off!L!Current(w)'.state = "reserved" /\ Off!L!Current(w)'.request = q
      /\ \A v \in Work \ {w} : Off!L!Current(v)' = Off!L!Current(v)
  <2>1. CASE Off!L!Reserve(w, q)
    BY <1>1, <1>3, <2>1, OffReservation
  <2>2. CASE /\ Off!L!State(w) = "reserved" /\ Off!L!Current(w).request = q
             /\ UNCHANGED Off!ledgerVars
    <3>1. OLP!IInv' /\ OffItems' /\ OffSettledKept
      BY <1>1, <2>2, OffFileStep DEF OffIInv, Off!Receipt, Off!ledgerVars
    <3>2. OffDirectory'
      BY <1>1, <2>2 DEF OffIInv, OffDirectory, Off!ledgerVars
    <3>3. \A v : Off!L!Current(v)' = Off!L!Current(v)
      BY <2>2, OffSameView DEF Off!ledgerVars
    <3> QED
      BY <2>2, <3>1, <3>2, <3>3 DEF Off!L!State
  <2> QED
    BY <1>2, <1>3, <2>1, <2>2 DEF Off!Reserve
<1>5. "start" \in OffPlaces
  BY DEF OffPlaces, OffDriving
<1>6. PICK r \in OffLocals :
         /\ offProc' = [offProc EXCEPT ![p] = r]
         /\ r.pc = "start" /\ r.at = l.at /\ r.request = l.request
  BY <1>1, <1>2, <1>5, OffGoto DEF OffIInv
<1>7. OffAhead(r)'
  <2>1. ASSUME NEW v \in Work, Off!L!State(v)' = "in_flight"
        PROVE  FALSE
    <3>1. v # w
      BY <1>4, <2>1 DEF Off!L!State
    <3>2. Off!L!State(v) = "in_flight"
      BY <1>4, <2>1, <3>1 DEF Off!L!State
    <3> QED
      BY <1>1, <1>2, <3>2 DEF OffAhead, OffSending
  <2> QED
    BY <1>2, <1>4, <1>6, <2>1, OffAheadKept
<1>8. OffPreparedFor(r, w)' /\ OffAnsweredFor(r, w)'
  BY <1>3, <1>4, <1>6 DEF OffPreparedFor, OffAnsweredFor, OffSending
<1>9. OffRunning'
  BY <1>1, <1>2, <1>6, <1>7, <1>8, OffDrives DEF OffDriving
<1> QED
  BY <1>4, <1>9 DEF OffIInv

LEMMA OffStarts ==
    ASSUME OffIInv, NEW p \in Procs, offManifest' = offManifest, Off!Start(p)
    PROVE  OffIInv'
<1>1. /\ UNCHANGED <<offMade, offObjects, offReceipts, offLock, offInvoked>>
      /\ offProc[p].pc = "start" /\ Off!Goto(p, "invoke") /\ Off!L!Start(Off!AttemptAt(p))
  BY DEF Off!Start
<1>2. PICK l \in OffLocals, w \in Work :
         /\ l = offProc[p] /\ w = Off!Item(p) /\ w = Plan[l.at]
         /\ l.at \in 1..Len(Plan) /\ Off!AttemptAt(p) = Off!L!Current(w).attempt
         /\ OffAhead(l) /\ OffPreparedFor(l, w) /\ OffItemOK(w)
  BY <1>1, OffWorker DEF OffDriving
<1>3. PICK a : a = Off!L!Current(w).attempt
  OBVIOUS
<1>4. Off!L!Start(a)
  BY <1>1, <1>2, <1>3
<1>5. /\ OLP!IInv' /\ OffMoved(a, "reserved", "in_flight", Null)
      /\ offAttempts' = offAttempts
  BY <1>4, OffStartEffect DEF OffIInv
<1>6. /\ a # 0 /\ Off!L!Current(w).state = "reserved"
      /\ \E e \in OLP!Events : /\ OffAppended(w, e)
                              /\ e.state = "in_flight" /\ e.attempt = a /\ e.result = Null
                              /\ e.request = Off!L!Current(w).request
  BY <1>3, <1>5, OffMovedOf DEF OffIInv
<1>7. PICK e \in OLP!Events : /\ OffAppended(w, e)
                             /\ e.state = "in_flight" /\ e.attempt = a /\ e.result = Null
                             /\ e.request = Off!L!Current(w).request
  BY <1>6
<1>8. ~Off!Settled(w)
  BY <1>6 DEF Off!Settled, Off!L!State
<1>9. OffItems' /\ OffDirectory' /\ OffSettledKept
  <2>1. e.attempt = Off!L!Current(w).attempt /\ e.attempt # 0
    BY <1>3, <1>6, <1>7
  <2>2. e.state \notin Unsent \cup {"reserved"} \cup Answered \cup {"failed", "limited"}
    BY <1>7 DEF Unsent, Answered
  <2> QED
    BY <1>1, <1>5, <1>7, <1>8, <2>1, <2>2, OffMovedStep DEF OffIInv
<1>10. Off!L!Current(w)' = e /\ \A v \in Work \ {w} : Off!L!Current(v)' = Off!L!Current(v)
  BY <1>7 DEF OffAppended
<1>11. "invoke" \in OffPlaces /\ "invoke" \in OffSending
  BY DEF OffPlaces, OffDriving, OffSending
<1>12. PICK r \in OffLocals :
         /\ offProc' = [offProc EXCEPT ![p] = r]
         /\ r.pc = "invoke" /\ r.at = l.at /\ r.request = l.request
  BY <1>1, <1>2, <1>11, OffGoto DEF OffIInv
<1>13. OffAhead(r)'
  <2>1. ASSUME NEW v \in Work, Off!L!State(v)' = "in_flight"
        PROVE  v = w
    <3> SUFFICES ASSUME v # w
                 PROVE  FALSE
      OBVIOUS
    <3>1. Off!L!State(v) = "in_flight"
      BY <1>10, <2>1 DEF Off!L!State
    <3> QED
      BY <1>1, <1>2, <3>1 DEF OffAhead, OffSending
  <2> QED
    BY <1>2, <1>9, <1>11, <1>12, <2>1, OffAheadKept
<1>14. OffPreparedFor(r, w)'
  <2>1. Off!L!Current(w).request = l.request
    BY <1>1, <1>2 DEF OffPreparedFor
  <2> QED
    BY <1>7, <1>10, <1>12, <2>1 DEF OffPreparedFor
<1>15. OffAnsweredFor(r, w)'
  <2>1. offInvoked[w] = 0 /\ Off!Receipt(a) = {}
    BY <1>2, <1>3, <1>6 DEF OffItemOK, OffInvokedAsSaid, OffReceiptFits
  <2>2. Off!Receipt(a)' = {}
    BY <1>1, <2>1 DEF Off!Receipt
  <2> QED
    BY <1>1, <1>7, <1>10, <1>12, <2>1, <2>2 DEF OffAnsweredFor
<1>16. OffRunning'
  BY <1>1, <1>2, <1>12, <1>13, <1>14, <1>15, OffDrives DEF OffDriving, OffSending
<1> QED
  BY <1>5, <1>9, <1>16 DEF OffIInv

-----------------------------------------------------------------------------
(* From the call of the adapter to its answer *)

(* A step of the process that sends item w: of the files, or of the adapter.  *)
LEMMA OffSendStep ==
    ASSUME OffIInv, NEW p \in Procs, NEW l \in OffLocals, l = offProc[p], l.pc \in OffSending,
           NEW w \in Work, w = Plan[l.at], l.at \in 1..Len(Plan),
           OffAhead(l), OffPreparedFor(l, w), OffItemOK(w),
           UNCHANGED <<offEvents, offAttempts, offReconciliations, offRetries, offVersion>>,
           UNCHANGED <<offManifest, offMade, offLock>>,
           offObjects \subseteq offObjects',
           \A file \in offReceipts' :
               file \in offReceipts \/ file.attempt = Off!L!Current(w).attempt,
           \A file \in offReceipts :
               file \in offReceipts' \/ file.attempt = Off!L!Current(w).attempt,
           offInvoked' \in [Work -> 0..1],
           \A v \in Work \ {w} : offInvoked'[v] = offInvoked[v],
           NEW r \in OffLocals, r.pc \in OffSending, r.at = l.at, r.request = l.request,
           offProc' = [offProc EXCEPT ![p] = r], OffAnsweredFor(r, w)'
    PROVE  OffIInv'
<1>1. PICK a : a = Off!L!Current(w).attempt
  OBVIOUS
<1>2. Off!L!Current(w).state = "in_flight" /\ Off!L!Current(w).request = l.request
  BY DEF OffPreparedFor
<1>3. a # 0
  BY <1>1, <1>2 DEF OffItemOK, OffRowShape, Unsent
<1>4. a \in 1..Len(offAttempts) /\ offAttempts[a].work = w
  BY <1>1, <1>3, OffRowFacts DEF OffIInv
<1>5. ASSUME NEW v \in Work, v # w, NEW b, b = Off!L!Current(v).attempt, b # 0
      PROVE  Off!Receipt(b)' = Off!Receipt(b)
  <2>1. offAttempts[b].work = v
    BY <1>5, OffRowFacts DEF OffIInv
  <2>2. b # a
    BY <1>4, <1>5, <2>1
  <2> QED
    BY <1>1, <2>2 DEF Off!Receipt
<1>6. OLP!IInv' /\ OffItems' /\ OffSettledKept
  <2>1. ASSUME NEW v \in Work
        PROVE  \/ Off!L!Current(v).state = "in_flight"
               \/ /\ offInvoked'[v] = offInvoked[v]
                  /\ \A b : b = Off!L!Current(v).attempt /\ b # 0 =>
                                Off!Receipt(b)' = Off!Receipt(b)
    <3>1. CASE v = w
      BY <1>2, <3>1
    <3>2. CASE v # w
      BY <1>5, <3>2
    <3> QED
      BY <3>1, <3>2
  <2> QED
    BY <2>1, OffFileStep DEF OffIInv
<1>7. OffDirectory'
  BY <1>1, <1>4 DEF OffIInv, OffDirectory
<1>8. OffAhead(r)'
  <2>1. r.pc # "loop"
    BY DEF OffSending
  <2>2. ASSUME NEW v \in Work, Off!L!State(v)' = "in_flight"
        PROVE  v = Plan[r.at]
    <3>1. Off!L!State(v) = "in_flight"
      BY <2>2, OffSameView DEF Off!L!State
    <3> QED
      BY <3>1 DEF OffAhead
  <2> QED
    BY <1>6, <2>1, <2>2, OffAheadKept
<1>9. OffPreparedFor(r, w)'
  <2>1. r.pc \notin {"reserve", "start", "complete"}
    BY DEF OffSending
  <2> QED
    BY <1>2, <2>1, OffSameView DEF OffPreparedFor
<1>10. OffRunning'
  BY <1>8, <1>9, OffDrives DEF OffDriving
<1> QED
  BY <1>6, <1>7, <1>10 DEF OffIInv

LEMMA OffInvokes ==
    ASSUME OffIInv, NEW p \in Procs, offManifest' = offManifest, Off!Invoke(p)
    PROVE  OffIInv'
<1>1. /\ UNCHANGED <<offEvents, offAttempts, offReconciliations, offRetries, offVersion>>
      /\ UNCHANGED <<offMade, offObjects, offReceipts, offLock>>
      /\ offProc[p].pc = "invoke"
      /\ offInvoked' = [offInvoked EXCEPT ![Off!Item(p)] = @ + 1]
  BY DEF Off!Invoke, Off!ledgerVars
<1>2. PICK o \in Off!InspectOutcomes :
         offProc' = [offProc EXCEPT ![p].outcome = o,
                 ![p].pc = CASE o.status = "success" -> "put"
                             [] o.status = "raised" -> "fail"
                             [] OTHER -> IF offManifest.inspect THEN "native" ELSE "fail"]
  BY DEF Off!Invoke, Off!InspectOutcomes
<1>3. PICK l \in OffLocals, w \in Work :
         /\ l = offProc[p] /\ w = Off!Item(p) /\ w = Plan[l.at] /\ l.at \in 1..Len(Plan)
         /\ OffAhead(l) /\ OffPreparedFor(l, w) /\ OffAnsweredFor(l, w) /\ OffItemOK(w)
  BY <1>1, OffWorker DEF OffDriving, OffSending
<1>4. PICK pc : pc = CASE o.status = "success" -> "put"
                       [] o.status = "raised" -> "fail"
                       [] OTHER -> IF offManifest.inspect THEN "native" ELSE "fail"
  OBVIOUS
<1>5. /\ pc \in {"put", "fail", "native"}
      /\ pc = "put" <=> o.status = "success"
      /\ pc = "fail" /\ offManifest.inspect => o.status = "raised"
  BY <1>4
<1>6. pc \in OffSending /\ pc \in OffPlaces
  BY <1>5 DEF OffPlaces, OffDriving, OffSending
<1>7. PICK r : r = [l EXCEPT !.outcome = o, !.pc = pc]
  OBVIOUS
<1>8. /\ r \in OffLocals /\ r.pc = pc /\ r.at = l.at /\ r.request = l.request
      /\ r.outcome = o
  BY <1>6, <1>7 DEF OffLocals
<1>9. offProc' = [offProc EXCEPT ![p] = r]
  BY <1>2, <1>3, <1>4, <1>7 DEF OffIInv, OffRunning
<1>10. o.status = "success" => o.result \in Results
  BY DEF Off!InspectOutcomes, Off!FakeOutcomes
<1>11. /\ offInvoked[w] = 0 /\ Off!Receipt(Off!L!Current(w).attempt) = {}
  BY <1>1, <1>3 DEF OffAnsweredFor
<1>12. /\ offInvoked' \in [Work -> 0..1] /\ offInvoked'[w] = 1
       /\ \A v \in Work \ {w} : offInvoked'[v] = offInvoked[v]
  <2>1. offInvoked \in [Work -> 0..1]
    BY DEF OffIInv, OffDirectory
  <2> QED
    BY <1>1, <1>3, <1>11, <2>1
<1>13. OffAnsweredFor(r, w)'
  <2>1. PICK a : a = Off!L!Current(w).attempt /\ a = Off!L!Current(w)'.attempt
    BY <1>1, OffSameView
  <2>2. Off!Receipt(a)' = {}
    BY <1>1, <1>11, <2>1 DEF Off!Receipt
  <2> QED
    BY <1>5, <1>8, <1>10, <1>12, <2>1, <2>2 DEF OffAnsweredFor
<1> QED
  BY <1>1, <1>3, <1>6, <1>8, <1>9, <1>12, <1>13, OffSendStep DEF OffSending

LEMMA OffPutsNative ==
    ASSUME OffIInv, NEW p \in Procs, offManifest' = offManifest, Off!PutNative(p)
    PROVE  OffIInv'
<1>1. /\ UNCHANGED <<offEvents, offAttempts, offReconciliations, offRetries, offVersion>>
      /\ UNCHANGED <<offMade, offReceipts, offLock, offInvoked>>
      /\ offProc[p].pc = "native" /\ Off!Goto(p, "create_receipt")
      /\ offObjects' = offObjects \cup {Off!Native(p)}
  BY DEF Off!PutNative, Off!ledgerVars
<1>2. PICK l \in OffLocals, w \in Work :
         /\ l = offProc[p] /\ w = Plan[l.at] /\ l.at \in 1..Len(Plan)
         /\ OffAhead(l) /\ OffPreparedFor(l, w) /\ OffAnsweredFor(l, w) /\ OffItemOK(w)
  BY <1>1, OffWorker DEF OffDriving, OffSending
<1>3. "create_receipt" \in OffPlaces /\ "create_receipt" \in OffSending /\ l.pc \in OffSending
  BY <1>1, <1>2 DEF OffPlaces, OffDriving, OffSending
<1>4. PICK r \in OffLocals :
         /\ offProc' = [offProc EXCEPT ![p] = r] /\ r.pc = "create_receipt" /\ r.at = l.at
         /\ r.request = l.request /\ r.outcome = l.outcome
  BY <1>1, <1>2, <1>3, OffGoto DEF OffIInv
<1>5. OffNative(r) \in offObjects'
  BY <1>1, <1>2, <1>4 DEF Off!Native, OffNative
<1>6. OffAnsweredFor(r, w)'
  <2>1. PICK a : a = Off!L!Current(w).attempt /\ a = Off!L!Current(w)'.attempt
    BY <1>1, OffSameView
  <2>2. /\ offInvoked[w] = 1 /\ l.outcome \in Off!InspectOutcomes
        /\ l.outcome.status # "success" /\ Off!Receipt(a) = {}
    BY <1>1, <1>2, <2>1 DEF OffAnsweredFor, OffSending
  <2>3. Off!Receipt(a)' = {}
    BY <1>1, <2>2 DEF Off!Receipt
  <2> QED
    BY <1>1, <1>4, <1>5, <2>1, <2>2, <2>3 DEF OffAnsweredFor
<1>7. offInvoked \in [Work -> 0..1]
  BY DEF OffIInv, OffDirectory
<1> QED
  BY <1>1, <1>2, <1>3, <1>4, <1>6, <1>7, OffSendStep

LEMMA OffCreatesReceipt ==
    ASSUME OffIInv, NEW p \in Procs, offManifest' = offManifest, Off!CreateReceipt(p)
    PROVE  OffIInv'
<1>1. /\ UNCHANGED <<offEvents, offAttempts, offReconciliations, offRetries, offVersion>>
      /\ UNCHANGED <<offMade, offObjects, offLock, offInvoked>>
      /\ offProc[p].pc = "create_receipt" /\ Off!Goto(p, "write_receipt")
      /\ offReceipts' = offReceipts \cup {[attempt |-> Off!AttemptAt(p), native |-> Null]}
  BY DEF Off!CreateReceipt, Off!ledgerVars
<1>2. PICK l \in OffLocals, w \in Work :
         /\ l = offProc[p] /\ w = Plan[l.at] /\ l.at \in 1..Len(Plan)
         /\ Off!AttemptAt(p) = Off!L!Current(w).attempt
         /\ OffAhead(l) /\ OffPreparedFor(l, w) /\ OffAnsweredFor(l, w) /\ OffItemOK(w)
  BY <1>1, OffWorker DEF OffDriving, OffSending
<1>3. "write_receipt" \in OffPlaces /\ "write_receipt" \in OffSending /\ l.pc \in OffSending
  BY <1>1, <1>2 DEF OffPlaces, OffDriving, OffSending
<1>4. PICK r \in OffLocals :
         /\ offProc' = [offProc EXCEPT ![p] = r] /\ r.pc = "write_receipt" /\ r.at = l.at
         /\ r.request = l.request /\ r.outcome = l.outcome
  BY <1>1, <1>2, <1>3, OffGoto DEF OffIInv
<1>5. OffAnsweredFor(r, w)'
  <2>1. /\ offInvoked[w] = 1 /\ l.outcome \in Off!InspectOutcomes
        /\ l.outcome.status # "success" /\ OffNative(l) \in offObjects
    BY <1>1, <1>2 DEF OffAnsweredFor, OffSending
  <2>2. OffNative(r) \in offObjects'
    BY <1>1, <1>4, <2>1 DEF OffNative
  <2> QED
    BY <1>1, <1>4, <2>1, <2>2 DEF OffAnsweredFor
<1>6. offInvoked \in [Work -> 0..1]
  BY DEF OffIInv, OffDirectory
<1>7. \A file \in offReceipts' :
         file \in offReceipts \/ file.attempt = Off!L!Current(w).attempt
  BY <1>1, <1>2
<1> QED
  BY <1>1, <1>2, <1>3, <1>4, <1>5, <1>6, <1>7, OffSendStep

LEMMA OffWritesReceipt ==
    ASSUME OffIInv, NEW p \in Procs, offManifest' = offManifest, Off!WriteReceipt(p)
    PROVE  OffIInv'
<1>1. /\ UNCHANGED <<offEvents, offAttempts, offReconciliations, offRetries, offVersion>>
      /\ UNCHANGED <<offMade, offObjects, offLock, offInvoked>>
      /\ offProc[p].pc = "write_receipt" /\ Off!Goto(p, "fail")
      /\ offReceipts' = (offReceipts \ Off!Receipt(Off!AttemptAt(p)))
             \cup {[attempt |-> Off!AttemptAt(p), native |-> Off!Native(p)]}
  BY DEF Off!WriteReceipt, Off!ledgerVars
<1>2. PICK l \in OffLocals, w \in Work :
         /\ l = offProc[p] /\ w = Plan[l.at] /\ l.at \in 1..Len(Plan)
         /\ Off!AttemptAt(p) = Off!L!Current(w).attempt
         /\ OffAhead(l) /\ OffPreparedFor(l, w) /\ OffAnsweredFor(l, w) /\ OffItemOK(w)
  BY <1>1, OffWorker DEF OffDriving, OffSending
<1>3. "fail" \in OffPlaces /\ "fail" \in OffSending /\ l.pc \in OffSending
  BY <1>1, <1>2 DEF OffPlaces, OffDriving, OffSending
<1>4. PICK r \in OffLocals :
         /\ offProc' = [offProc EXCEPT ![p] = r] /\ r.pc = "fail" /\ r.at = l.at
         /\ r.request = l.request /\ r.outcome = l.outcome
  BY <1>1, <1>2, <1>3, OffGoto DEF OffIInv
<1>5. OffAnsweredFor(r, w)'
  <2>1. /\ offInvoked[w] = 1 /\ l.outcome \in Off!InspectOutcomes
        /\ l.outcome.status # "success" /\ OffNative(l) \in offObjects
    BY <1>1, <1>2 DEF OffAnsweredFor, OffSending
  <2>2. OffNative(r) = OffNative(l) /\ OffNative(r)' = OffNative(r) /\ Off!Native(p) = OffNative(l)
    BY <1>2, <1>4 DEF OffNative, Off!Native
  <2>3. PICK a : a = Off!L!Current(w).attempt /\ a = Off!L!Current(w)'.attempt
    BY <1>1, OffSameView
  <2>4. PICK file : file = [attempt |-> a, native |-> OffNative(r)]
    OBVIOUS
  <2>5. file \in Off!Receipt(a)' /\ file.native = OffNative(r)
    BY <1>1, <1>2, <2>2, <2>3, <2>4 DEF Off!Receipt
  <2> QED
    BY <1>1, <1>4, <2>1, <2>2, <2>3, <2>5 DEF OffAnsweredFor
<1>6. offInvoked \in [Work -> 0..1]
  BY DEF OffIInv, OffDirectory
<1>7. /\ \A file \in offReceipts' :
             file \in offReceipts \/ file.attempt = Off!L!Current(w).attempt
      /\ \A file \in offReceipts :
             file \in offReceipts' \/ file.attempt = Off!L!Current(w).attempt
  BY <1>1, <1>2 DEF Off!Receipt
<1> QED
  BY <1>1, <1>2, <1>3, <1>4, <1>5, <1>6, <1>7, OffSendStep

LEMMA OffPutsResult ==
    ASSUME OffIInv, NEW p \in Procs, offManifest' = offManifest, Off!PutResult(p)
    PROVE  OffIInv'
<1>1. /\ UNCHANGED <<offEvents, offAttempts, offReconciliations, offRetries, offVersion>>
      /\ UNCHANGED <<offMade, offReceipts, offLock, offInvoked>>
      /\ offProc[p].pc = "put" /\ Off!Goto(p, "record")
      /\ offObjects' = offObjects \cup {offProc[p].outcome.result}
  BY DEF Off!PutResult, Off!ledgerVars
<1>2. PICK l \in OffLocals, w \in Work :
         /\ l = offProc[p] /\ w = Plan[l.at] /\ l.at \in 1..Len(Plan)
         /\ OffAhead(l) /\ OffPreparedFor(l, w) /\ OffAnsweredFor(l, w) /\ OffItemOK(w)
  BY <1>1, OffWorker DEF OffDriving, OffSending
<1>3. "record" \in OffPlaces /\ "record" \in OffSending /\ l.pc \in OffSending
  BY <1>1, <1>2 DEF OffPlaces, OffDriving, OffSending
<1>4. PICK r \in OffLocals :
         /\ offProc' = [offProc EXCEPT ![p] = r] /\ r.pc = "record" /\ r.at = l.at
         /\ r.request = l.request /\ r.outcome = l.outcome
  BY <1>1, <1>2, <1>3, OffGoto DEF OffIInv
<1>5. OffAnsweredFor(r, w)'
  <2>1. /\ offInvoked[w] = 1 /\ l.outcome \in Off!InspectOutcomes
        /\ l.outcome.result \in Results
    BY <1>1, <1>2 DEF OffAnsweredFor, OffSending
  <2>2. l.outcome.result \in offObjects'
    BY <1>1, <1>2
  <2> QED
    BY <1>1, <1>4, <2>1, <2>2 DEF OffAnsweredFor
<1>6. offInvoked \in [Work -> 0..1]
  BY DEF OffIInv, OffDirectory
<1> QED
  BY <1>1, <1>2, <1>3, <1>4, <1>5, <1>6, OffSendStep

LEMMA OffRecords ==
    ASSUME OffIInv, NEW p \in Procs, offManifest' = offManifest, Off!RecordResult(p)
    PROVE  OffIInv'
<1>1. /\ UNCHANGED <<offMade, offObjects, offReceipts, offLock, offInvoked>>
      /\ offProc[p].pc = "record" /\ Off!Goto(p, "complete")
      /\ Off!L!RecordResult(Off!AttemptAt(p), offProc[p].outcome.result)
  BY DEF Off!RecordResult
<1>2. PICK l \in OffLocals, w \in Work :
         /\ l = offProc[p] /\ w = Plan[l.at]
         /\ l.at \in 1..Len(Plan) /\ Off!AttemptAt(p) = Off!L!Current(w).attempt
         /\ OffAhead(l) /\ OffAnsweredFor(l, w)
  BY <1>1, OffWorker DEF OffDriving, OffSending
<1>3. PICK a : a = Off!L!Current(w).attempt
  OBVIOUS
<1>4. PICK s : s \in Results /\ s = l.outcome.result /\ s \in offObjects
  BY <1>1, <1>2 DEF OffAnsweredFor
<1>5. s # Null /\ offInvoked[w] = 1
  BY <1>1, <1>2, <1>4, OfflineNullAssumption DEF OffAnsweredFor, OffSending
<1>6. Off!L!RecordResult(a, s)
  BY <1>1, <1>2, <1>3, <1>4
<1>7. /\ OLP!IInv' /\ OffMoved(a, "in_flight", "result_saved", s)
      /\ offAttempts' = offAttempts
  BY <1>4, <1>6, OffRecordResultEffect DEF OffIInv
<1>8. /\ a # 0 /\ offAttempts[a].work = w /\ Off!L!Current(w).state = "in_flight"
      /\ \E e \in OLP!Events : /\ OffAppended(w, e)
                              /\ e.state = "result_saved" /\ e.attempt = a /\ e.result = s
                              /\ e.request = Off!L!Current(w).request
  BY <1>3, <1>7, OffMovedOf DEF OffIInv
<1>9. PICK e \in OLP!Events : /\ OffAppended(w, e)
                             /\ e.state = "result_saved" /\ e.attempt = a /\ e.result = s
                             /\ e.request = Off!L!Current(w).request
  BY <1>8
<1>10. ~Off!Settled(w)
  BY <1>8 DEF Off!Settled, Off!L!State
<1>11. OffItems' /\ OffDirectory' /\ OffSettledKept
  <2>1. e.attempt = Off!L!Current(w).attempt /\ e.attempt # 0
    BY <1>3, <1>8, <1>9
  <2>2. e.state \notin Unsent \cup {"reserved"} /\ e.state \in Answered
        /\ e.state \notin {"failed", "limited"}
    BY <1>9 DEF Unsent, Answered
  <2> QED
    BY <1>1, <1>4, <1>5, <1>7, <1>9, <1>10, <2>1, <2>2, OffMovedStep DEF OffIInv
<1>12. Off!L!Current(w)' = e /\ \A v \in Work \ {w} : Off!L!Current(v)' = Off!L!Current(v)
  BY <1>9 DEF OffAppended
<1>13. "complete" \in OffPlaces
  BY DEF OffPlaces, OffDriving
<1>14. PICK r \in OffLocals :
         offProc' = [offProc EXCEPT ![p] = r] /\ r.pc = "complete" /\ r.at = l.at
  BY <1>1, <1>2, <1>13, OffGoto DEF OffIInv
<1>15. OffAhead(r)'
  <2>1. ASSUME NEW v \in Work, Off!L!State(v)' = "in_flight"
        PROVE  FALSE
    <3>1. v # w
      BY <1>9, <1>12, <2>1 DEF Off!L!State
    <3>2. Off!L!State(v) = "in_flight"
      BY <1>12, <2>1, <3>1 DEF Off!L!State
    <3> QED
      BY <1>2, <3>1, <3>2 DEF OffAhead
  <2> QED
    BY <1>2, <1>11, <1>14, <2>1, OffAheadKept
<1>16. OffPreparedFor(r, w)' /\ OffAnsweredFor(r, w)'
  BY <1>9, <1>12, <1>14 DEF OffPreparedFor, OffAnsweredFor, OffSending
<1>17. OffRunning'
  BY <1>1, <1>2, <1>14, <1>15, <1>16, OffDrives DEF OffDriving, OffSending
<1> QED
  BY <1>7, <1>11, <1>17 DEF OffIInv

(* The answer is closed, or what may have been a call becomes uncertain.    *)
LEMMA OffFails ==
    ASSUME OffIInv, NEW p \in Procs, offManifest' = offManifest, Off!Fail(p)
    PROVE  OffIInv'
<1>1. /\ UNCHANGED <<offMade, offObjects, offReceipts, offLock, offInvoked>>
      /\ offProc[p].pc = "fail" /\ Off!NextItem(p, 1)
  BY DEF Off!Fail
<1>2. PICK l \in OffLocals, w \in Work :
         /\ l = offProc[p] /\ w = Plan[l.at]
         /\ l.at \in 1..Len(Plan) /\ Off!AttemptAt(p) = Off!L!Current(w).attempt
         /\ OffAhead(l) /\ OffPreparedFor(l, w) /\ OffAnsweredFor(l, w)
  BY <1>1, OffWorker DEF OffDriving, OffSending
<1>3. Off!L!Current(w).state = "in_flight" /\ Off!L!Current(w).request = l.request
  BY <1>1, <1>2 DEF OffPreparedFor, OffSending
<1>4. CASE Off!L!Recover
  <2>1. /\ OLP!IInv' /\ OffItems' /\ OffDirectory' /\ OffSettledKept
        /\ \A v \in Work : Off!L!State(v) = "in_flight" => Off!Settled(v)'
    BY <1>1, <1>4, OffRecoverStep DEF OffIInv
  <2>2. Off!Settled(w)'
    BY <1>3, <2>1 DEF Off!L!State
  <2>3. ASSUME NEW v \in Work \ {w}
        PROVE  Off!L!Current(v)' = Off!L!Current(v)
    <3>1. Off!L!Current(v).state # "in_flight"
      BY <1>2 DEF OffAhead, Off!L!State
    <3>2. OffInterrupted(v)
      BY <1>4, OffRecoverEffect DEF OffIInv
    <3> QED
      BY <3>1, <3>2 DEF OffInterrupted
  <2>4. OffRunning'
    BY <1>1, <1>2, <2>1, <2>2, <2>3, OffNextItem DEF OffDriving, OffSending
  <2> QED
    BY <2>1, <2>4 DEF OffIInv
<1>5. ASSUME ~(l.outcome.status = "raised" /\ offManifest.inspect),
             NEW t \in {"failed", "limited"}, Off!L!Fail(Off!AttemptAt(p), t)
      PROVE  OffIInv'
  <2>1. PICK a : a = Off!L!Current(w).attempt
    OBVIOUS
  <2>2. Off!L!Fail(a, t)
    BY <1>2, <1>5, <2>1
  <2>3. OLP!IInv' /\ OffMoved(a, "in_flight", t, Null) /\ offAttempts' = offAttempts
    BY <2>2, OffFailEffect DEF OffIInv
  <2>4. /\ a # 0
        /\ \E e \in OLP!Events : /\ OffAppended(w, e)
                                /\ e.state = t /\ e.attempt = a /\ e.result = Null
                                /\ e.request = Off!L!Current(w).request
    <3>1. a \in 1..Len(offAttempts) /\ Len(offAttempts) \in Nat
      BY <2>1, <2>3, OffRowFacts DEF OffMoved, OffIInv
    <3>2. a # 0
      BY <3>1
    <3>3. offAttempts[a].work = w
      BY <2>1, <3>2, OffRowFacts DEF OffIInv
    <3> QED
      BY <2>3, <3>2, <3>3 DEF OffMoved
  <2>5. PICK e \in OLP!Events : /\ OffAppended(w, e)
                               /\ e.state = t /\ e.attempt = a /\ e.result = Null
                               /\ e.request = Off!L!Current(w).request
    BY <2>4
  <2>6. offManifest.inspect => Off!ReceiptReads(e)
    <3> SUFFICES ASSUME offManifest.inspect
                 PROVE  Off!ReceiptReads(e)
      OBVIOUS
    <3>1. PICK file \in Off!Receipt(a) :
             file.native = OffNative(l) /\ OffNative(l) \in offObjects
      BY <1>1, <1>2, <1>5, <2>1 DEF OffAnsweredFor
    <3>2. l.outcome \in Off!InspectOutcomes
      BY <1>1, <1>2 DEF OffAnsweredFor, OffSending
    <3>3. l.outcome.status \in {"invalid", "limited", "failed"}
      <4>1. l.outcome.status \in {"success", "invalid", "limited", "raised", "failed"}
        BY <3>2 DEF Off!InspectOutcomes, Off!FakeOutcomes
      <4>2. l.outcome.status # "success" /\ l.outcome.status # "raised"
        BY <1>1, <1>2, <1>5 DEF OffAnsweredFor, OffSending
      <4> QED
        BY <4>1, <4>2
    <3>4. l.request \in Off!Envelopes
      <4>1. OffRowShape(w)
        BY DEF OffIInv, OffItems, OffItemOK
      <4>2. Off!L!Current(w).request # Null
        BY <2>1, <2>4, <4>1 DEF OffRowShape
      <4> QED
        BY <1>3, <4>2, OffRowFacts DEF OffIInv
    <3>5. OffNative(l) \in [status : {"invalid", "limited", "failed"}, request : Off!Envelopes]
      BY <3>3, <3>4 DEF OffNative
    <3>6. OffNative(l) # Null /\ OffNative(l).request = l.request
      BY <3>5, OfflineNullAssumption DEF OffNative
    <3> QED
      BY <1>3, <2>5, <3>1, <3>6 DEF Off!ReceiptReads
  <2>7. ~Off!Settled(w)
    BY <1>3 DEF Off!Settled, Off!L!State
  <2>8. OffItems' /\ OffDirectory' /\ OffSettledKept
    <3>1. e.attempt = Off!L!Current(w).attempt /\ e.attempt # 0
      BY <2>1, <2>4, <2>5
    <3>2. /\ e.state \notin Unsent \cup {"reserved"} /\ e.state \notin Answered
          /\ offInvoked[w] = 1
      BY <1>1, <1>2, <2>5 DEF Unsent, Answered, OffAnsweredFor, OffSending
    <3> QED
      BY <1>1, <2>3, <2>5, <2>6, <2>7, <3>1, <3>2, OffMovedStep DEF OffIInv
  <2>9. Off!Settled(w)' /\ \A v \in Work \ {w} : Off!L!Current(v)' = Off!L!Current(v)
    BY <2>5 DEF OffAppended, Off!Settled, Off!L!State
  <2>10. OffRunning'
    BY <1>1, <1>2, <2>8, <2>9, OffNextItem DEF OffDriving, OffSending
  <2> QED
    BY <2>3, <2>8, <2>10 DEF OffIInv
<1> QED
  BY <1>2, <1>4, <1>5 DEF Off!Fail

-----------------------------------------------------------------------------
(* Offline runs, step by step *)

LEMMA OffInit == Off!Init => OffIInv
<1> SUFFICES ASSUME Off!Init
             PROVE  OffIInv
  OBVIOUS
<1>1. OLP!Init
  BY DEF Off!Init, Off!L!Init, OLP!Init, OLP!Unattempted, Off!L!Unattempted
<1>2. OLP!IInv
  BY <1>1, OffPlanHolds, OLP!InitInvariant
<1>3. /\ offMade = 1 /\ offObjects = {} /\ offReceipts = {} /\ offLock = Null
      /\ offProc = [p \in Procs |-> Off!Idle] /\ offInvoked = [w \in Work |-> 0]
      /\ offManifest \in Manifests
  BY DEF Off!Init
<1>4. ASSUME NEW w \in Work
      PROVE  /\ Off!L!Current(w).state = "planned" /\ Off!L!Current(w).attempt = 0
             /\ Off!L!Current(w).request = Null /\ Off!L!Current(w).result = Null
  <2>1. /\ OLP!LastIndex(w) \in 1..Len(offEvents)
        /\ OLP!Current(w) = offEvents[OLP!LastIndex(w)]
    BY <1>2, OffPlanHolds, OLP!CurrentIsLast DEF OLP!IInv, OLP!Current
  <2>2. PICK i \in 1..Len(offEvents) : OLP!Current(w) = offEvents[i]
    BY <2>1
  <2>3. offEvents = [j \in 1..Len(Plan) |-> OLP!Unattempted(Plan[j], "planned")]
    BY <1>1 DEF OLP!Init
  <2>4. Len(offEvents) = Len(Plan)
    BY <2>3, OfflinePlanAssumption
  <2>5. OLP!Current(w) = OLP!Unattempted(Plan[i], "planned")
    BY <2>2, <2>3, <2>4
  <2> QED
    BY <2>5, OffSameCurrent DEF OLP!Unattempted
<1>5. OffItems
  <2> SUFFICES ASSUME NEW w \in Work
               PROVE  OffItemOK(w)
    BY DEF OffItems
  <2>1. OffRowShape(w) /\ OffPromptStands(w) /\ OffAnswerStored(w)
    BY <1>4 DEF OffRowShape, OffPromptStands, OffAnswerStored, Unsent, Answered
  <2>2. OffInvokedAsSaid(w) /\ OffReceiptFits(w) /\ OffBlocked(w)
    BY <1>3, <1>4
       DEF OffInvokedAsSaid, OffReceiptFits, OffBlocked, Unsent, Answered, Off!L!State
  <2> QED
    BY <2>1, <2>2 DEF OffItemOK
<1>6. OffDirectory
  BY <1>3 DEF OffDirectory
<1>7. OffRunning
  <2>1. PICK r \in OffLocals : r = Off!Idle /\ r.pc = "idle"
    BY OffIdle
  <2>2. r.pc \notin OffDriving /\ r.pc # "drive"
    BY <2>1 DEF OffDriving, OffSending
  <2>3. OffPlaceOK(r)
    BY <2>2, OffResting
  <2> QED
    BY <1>3, <2>1, <2>2, <2>3 DEF OffRunning, OffPlaced
<1> QED
  BY <1>2, <1>5, <1>6, <1>7 DEF OffIInv

LEMMA OffStutters ==
    ASSUME OffIInv, UNCHANGED Off!vars
    PROVE  OffIInv'
<1>1. /\ UNCHANGED <<offEvents, offAttempts, offReconciliations, offRetries, offVersion>>
      /\ UNCHANGED <<offManifest, offMade, offObjects, offReceipts>>
      /\ UNCHANGED <<offLock, offProc, offInvoked>>
  BY DEF Off!vars, Off!ledgerVars
<1>2. OLP!IInv' /\ OffItems'
  BY <1>1, OffFileStep DEF OffIInv, Off!Receipt
<1>3. OffDirectory'
  BY <1>1 DEF OffIInv, OffDirectory
<1>4. OffRunning'
  <2>1. ASSUME NEW p \in Procs
        PROVE  OffPlaced(p)'
    <3>1. PICK r : r = offProc[p] /\ r = offProc'[p]
      BY <1>1
    <3>2. OffPlaceOK(r)'
      BY <1>1, <3>1, OffPlaceStays DEF OffIInv, OffRunning, OffPlaced
    <3> QED
      BY <1>1, <3>1, <3>2 DEF OffIInv, OffRunning, OffPlaced
  <2> QED
    BY <1>1, <2>1 DEF OffIInv, OffRunning
<1> QED
  BY <1>2, <1>3, <1>4 DEF OffIInv

LEMMA OffStep ==
    ASSUME OffIInv, [Off!Next]_(Off!vars)
    PROVE  OffIInv'
<1>1. CASE UNCHANGED Off!vars
  BY <1>1, OffStutters
<1>2. ASSUME offManifest' = offManifest, NEW p \in Procs,
             Off!MakeDirectory(p) \/ Off!LockOld(p) \/ Off!Step(p) \/ Off!Dies(p)
      PROVE  OffIInv'
  <2>1. CASE Off!MakeDirectory(p) \/ Off!MakeLockFile(p)
    BY <1>2, <2>1, OffMakes
  <2>2. CASE Off!LockNew(p) \/ Off!LockOld(p) \/ Off!OpenRun(p) \/ Off!Filled(p)
    BY <1>2, <2>2, OffLocks
  <2>3. CASE Off!Fill(p)
    BY <1>2, <2>3, OffFills
  <2>4. CASE Off!Stop(p) \/ Off!NotAdmitted(p) \/ Off!Dies(p)
    BY <1>2, <2>4, OffLeavesLoop
  <2>5. CASE Off!Drive(p)
    BY <1>2, <2>5, OffDrive
  <2>6. CASE Off!Pass(p)
    BY <1>2, <2>6, OffPass
  <2>7. CASE Off!CompleteSaved(p) \/ Off!Complete(p)
    BY <1>2, <2>7, OffCompletes
  <2>8. CASE Off!SkipItem(p)
    BY <1>2, <2>8, OffSkips
  <2>9. CASE Off!PutRequest(p)
    BY <1>2, <2>9, OffPutsRequest
  <2>10. CASE Off!Reserve(p)
    BY <1>2, <2>10, OffReserves
  <2>11. CASE Off!Start(p)
    BY <1>2, <2>11, OffStarts
  <2>12. CASE Off!Invoke(p)
    BY <1>2, <2>12, OffInvokes
  <2>13. CASE Off!PutNative(p)
    BY <1>2, <2>13, OffPutsNative
  <2>14. CASE Off!CreateReceipt(p)
    BY <1>2, <2>14, OffCreatesReceipt
  <2>15. CASE Off!WriteReceipt(p)
    BY <1>2, <2>15, OffWritesReceipt
  <2>16. CASE Off!Fail(p)
    BY <1>2, <2>16, OffFails
  <2>17. CASE Off!PutResult(p)
    BY <1>2, <2>17, OffPutsResult
  <2>18. CASE Off!RecordResult(p)
    BY <1>2, <2>18, OffRecords
  <2> QED
    BY <1>2, <2>1, <2>2, <2>3, <2>4, <2>5, <2>6, <2>7, <2>8, <2>9, <2>10, <2>11,
       <2>12, <2>13, <2>14, <2>15, <2>16, <2>17, <2>18 DEF Off!Step
<1> QED
  BY <1>1, <1>2 DEF Off!Next

LEMMA OffInvariance == Off!Spec => []OffIInv
BY OffInit, OffStep, PTL DEF Off!Spec

(* run_synthetic and resume_synthetic, _drive: whoever dies where, and whoever *)
(* races for the directory, its lock makes the read of a state and the event  *)
(* that rests on it one step, so that no item is handed to the adapter twice  *)
(* and the ledger never refuses what _drive asks of it.                       *)
THEOREM OfflineRunsInvokeOnce == Off!Spec => []OfflineInvokedOnce
<1>1. ASSUME OffIInv, NEW p \in Procs
      PROVE  LET pc == offProc[p].pc IN
             /\ pc = "start" => Off!L!State(Off!Item(p)) = "reserved"
             /\ pc \in {"invoke", "native", "create_receipt", "write_receipt", "fail", "put",
                        "record"} => Off!L!State(Off!Item(p)) = "in_flight"
             /\ pc = "create_receipt" => Off!Receipt(Off!AttemptAt(p)) = {}
             /\ pc = "complete" => Off!L!State(Off!Item(p)) = "result_saved"
  <2>1. CASE offProc[p].pc \in {"start", "complete"} \cup OffSending
    <3>1. offProc[p].pc \in OffDriving /\ offProc[p].pc # "loop"
      BY <2>1 DEF OffDriving, OffSending
    <3>2. PICK l \in OffLocals, w \in Work :
             /\ l = offProc[p] /\ w = Off!Item(p)
             /\ Off!AttemptAt(p) = Off!L!Current(w).attempt
             /\ OffPreparedFor(l, w) /\ OffAnsweredFor(l, w)
      BY <1>1, <3>1, OffWorker
    <3>3. /\ l.pc = "start" => Off!L!State(w) = "reserved"
          /\ l.pc \in OffSending => Off!L!State(w) = "in_flight"
          /\ l.pc = "complete" => Off!L!State(w) = "result_saved"
      BY <3>2 DEF OffPreparedFor, Off!L!State
    <3>4. l.pc = "create_receipt" => Off!Receipt(Off!L!Current(w).attempt) = {}
      BY <3>2 DEF OffAnsweredFor
    <3> QED
      BY <3>2, <3>3, <3>4 DEF OffSending
  <2>2. CASE offProc[p].pc \notin {"start", "complete"} \cup OffSending
    BY <2>2 DEF OffSending
  <2> QED
    BY <2>1, <2>2
<1>2. OffIInv => Off!NeverRefused
  BY <1>1 DEF Off!NeverRefused
<1>3. OffIInv => Off!InvokedOnce
  BY DEF OffIInv, OffDirectory, Off!InvokedOnce
<1>4. OffIInv => OfflineInvokedOnce
  BY <1>2, <1>3 DEF OfflineInvokedOnce
<1> QED
  BY <1>4, OffInvariance, PTL

(* _verify_artifacts accepts what any sequence of deaths and resumes leaves   *)
(* of a run whose ledger is there: every digest on record was stored before. *)
LEMMA OffReopens == OffIInv => Off!RunReopens
<1> SUFFICES ASSUME OffIInv, Off!Reached("ledger")
             PROVE  Off!Verifies
  BY DEF Off!RunReopens
<1>1. offManifest \in offObjects
  <2>1. offMade = 9
    BY OffReached DEF OffIInv, OffDirectory
  <2> QED
    BY <2>1 DEF OffIInv, OffDirectory
<1>2. ASSUME NEW w \in Work
      PROVE  Off!ItemVerifies(w)
  <2>1. PICK c : c = Off!L!Current(w)
    OBVIOUS
  <2> SUFFICES ASSUME c.request # Null
               PROVE  /\ Off!L!DependenciesCompleted(w)
                      /\ \A d \in Deps[w] : Off!L!Current(d).result \in offObjects
                      /\ c.request \in offObjects /\ c.request = Off!Request(w)
                      /\ c.result # Null => c.result \in offObjects
                      /\ offManifest.inspect /\ c.state \in {"failed", "limited"} =>
                            Off!ReceiptReads(c)
    BY <2>1 DEF Off!ItemVerifies
  <2>2. /\ OffRowShape(w) /\ OffPromptStands(w) /\ OffAnswerStored(w)
        /\ OffReceiptFits(w)
    BY DEF OffIInv, OffItems, OffItemOK
  <2>3. c.request \in offObjects /\ c.request = Off!Request(w) /\ Off!L!DependenciesCompleted(w)
    BY <2>1, <2>2 DEF OffRowShape, OffPromptStands
  <2>4. ASSUME NEW d \in Deps[w]
        PROVE  Off!L!Current(d).result \in offObjects
    <3>1. d \in Work /\ Off!L!Current(d).state = "completed"
      BY <2>3, OfflinePlanAssumption DEF Off!L!DependenciesCompleted, Off!L!State
    <3>2. OffRowShape(d) /\ OffAnswerStored(d)
      BY <3>1 DEF OffIInv, OffItems, OffItemOK
    <3> QED
      BY <3>1, <3>2 DEF OffRowShape, OffAnswerStored, Answered
  <2>5. c.result # Null => c.result \in offObjects
    BY <2>1, <2>2 DEF OffAnswerStored
  <2>6. offManifest.inspect /\ c.state \in {"failed", "limited"} => Off!ReceiptReads(c)
    BY <2>1, <2>2 DEF OffReceiptFits
  <2> QED
    BY <2>3, <2>4, <2>5, <2>6
<1> QED
  BY <1>1, <1>2 DEF Off!Verifies

(* _summary claims an execution only after an invocation and denies it only   *)
(* before the first one.                                                     *)
LEMMA OffSummary == OffIInv => Off!SummaryHonest
<1> SUFFICES ASSUME OffIInv
             PROVE  Off!SummaryHonest
  OBVIOUS
<1>1. ASSUME NEW w \in Work
      PROVE  /\ Off!L!State(w) \in {"result_saved", "completed", "failed", "limited"} =>
                    offInvoked[w] = 1
             /\ Off!L!State(w) \notin {"result_saved", "completed", "failed", "limited",
                                      "in_flight", "uncertain"} => offInvoked[w] = 0
  <2>1. OffInvokedAsSaid(w)
    BY DEF OffIInv, OffItems, OffItemOK
  <2>2. Off!L!State(w) \in OLP!States
    BY OffRowFacts DEF OffIInv, Off!L!State
  <2> QED
    BY <2>1, <2>2 DEF OffInvokedAsSaid, Unsent, Answered, OLP!States, Off!L!State
<1>2. Off!Performed = "yes" =>
         \E w \in Work : Off!L!State(w) \in {"result_saved", "completed", "failed", "limited"}
  BY DEF Off!Performed
<1>3. Off!Performed = "no" =>
         \A w \in Work : Off!L!State(w) \notin {"result_saved", "completed", "failed", "limited",
                                              "in_flight", "uncertain"}
  BY DEF Off!Performed
<1> QED
  BY <1>1, <1>2, <1>3 DEF Off!SummaryHonest

(* _drive, _verify_artifacts and _summary: an offline run can always be        *)
(* resumed from what is stored, blocks an item only for good, and claims or   *)
(* denies an execution only as the adapter was invoked.                      *)
THEOREM OfflineRunsStayHonest == Off!Spec => []OfflineIsHonest
<1>1. OffIInv => Off!BlockedForGood
  BY DEF OffIInv, OffItems, OffItemOK, OffBlocked, Off!BlockedForGood
<1>2. OffIInv => OfflineIsHonest
  BY <1>1, OffReopens, OffSummary DEF OfflineIsHonest
<1> QED
  BY <1>2, OffInvariance, PTL
=============================================================================
