----------------------------- MODULE PilotProofs -----------------------------
(***************************************************************************)
(* Proofs about Pilot for any number of models, any ceiling of the campaign  *)
(* and any number of commands and deaths.                                   *)
(***************************************************************************)
EXTENDS Pilot, FiniteSetTheorems, TLAPS

Inside == {"loop", "create", "draft", "revision", "reserve", "fund", "start",
           "answer", "complete", "after"}

(* Where a command holds no promise about an item. *)
Calm == {"idle", "prepare", "approve", "enter", "loop", "draft", "revision", "after"}

Outcomes == {"none", "created", "prepared", "refused", "stopped", "complete", "waiting",
             "admission_stopped", "died"}

Commands ==
    [pc : Calm \cup Inside, at : 1..(Len(Order) + 1), item : Items,
     before : ItemStates \cup Outcomes, waiting : SUBSET Models]

AnsweredWell(n) == request[n]["draft"] = "whole" /\ response[n] = "good"

Ready(n, j) == \A i \in Items : i < j => state[n][i] = "completed" /\ output[n][i] = "good"

(* What holds of an item, whatever the command does. *)
Accounted(n, j) ==
    /\ state[n][j] = "planned" => sent[n][j] = 0
    /\ state[n][j] = "reserved" => sent[n][j] <= 1
    /\ sent[n][j] > 0 => <<n, j>> \in funded /\ Ready(n, j)

Consistent(n) ==
    /\ dir[n] # "ready" => \A j \in Items : state[n][j] = "planned"
    /\ state[n][3] # "planned" => AnsweredWell(n)

(* What the command has established about the item it drives. *)
Driving ==
    /\ command.pc = "create" => dir[m] = "partial"
    /\ command.pc \in {"reserve", "fund", "start", "answer", "complete"} => dir[m] = "ready"
    /\ command.pc = "reserve" => state[m][k] \in {"planned", "reserved"}
    /\ command.pc \in {"fund", "start"} => state[m][k] = "reserved"
    /\ command.pc = "answer" => state[m][k] = "in_flight"
    /\ command.pc = "complete" => state[m][k] = "result_saved"
    /\ command.pc = "start" => <<m, k>> \in funded
    /\ command.pc \in {"reserve", "fund", "start"} =>
           Ready(m, k) /\ (k = 3 => AnsweredWell(m))

IInv ==
    /\ TypeOK
    /\ command \in Commands
    /\ command.pc \in Inside => command.at <= Len(Order)
    /\ IsFiniteSet(funded) /\ Cardinality(funded) <= ceiling
    /\ \A n \in Models, j \in Items : Accounted(n, j)
    /\ \A n \in Models : Consistent(n)
    /\ Driving

-----------------------------------------------------------------------------
LEMMA Nested ==
    ASSUME NEW S, NEW f \in [Models -> [Items -> S]], NEW n \in Models, NEW j \in Items, NEW v \in S
    PROVE  LET g == [f EXCEPT ![n][j] = v] IN
           /\ g \in [Models -> [Items -> S]]
           /\ g[n][j] = v
           /\ \A a \in Models, b \in Items : a # n \/ b # j => g[a][b] = f[a][b]
OBVIOUS

LEMMA InModels ==
    ASSUME IInv, command.pc \in Inside
    PROVE  /\ m \in Models /\ k \in Items /\ command.at \in 1..Len(Order)
           /\ command.at + 1 \in 1..(Len(Order) + 1)
<1>1. command.at \in 1..(Len(Order) + 1) /\ command.at <= Len(Order) /\ k \in Items
  BY DEF IInv, Commands, k
<1>2. command.at \in DOMAIN Order /\ command.at + 1 \in 1..(Len(Order) + 1)
  BY <1>1, PilotAssumption
<1> QED
  BY <1>1, <1>2, PilotAssumption DEF Models, m

LEMMA Idles ==
    ASSUME NEW outcome \in Outcomes
    PROVE  Idle(outcome) \in Commands /\ Idle(outcome).pc = "idle"
<1>1. 1 \in 1..(Len(Order) + 1) /\ 1 \in Items
  BY PilotAssumption DEF Items
<1> QED
  BY <1>1 DEF Idle, Commands, Calm

LEMMA Ends ==
    ASSUME NEW outcome \in Outcomes, End(outcome)
    PROVE  /\ command' \in Commands /\ command'.pc = "idle"
           /\ command'.at = 1 /\ command'.before = outcome
BY Idles DEF End, Idle

LEMMA Moves ==
    ASSUME IInv, NEW pc \in Calm \cup Inside, Go(pc)
    PROVE  /\ command' \in Commands /\ command'.pc = pc
           /\ command'.at = command.at /\ command'.item = command.item
           /\ command'.before = command.before /\ command'.waiting = command.waiting
BY DEF IInv, Commands, Go

LEMMA MovesOn ==
    ASSUME IInv, NEW waiting \in SUBSET Models, NextModel(waiting), command.at <= Len(Order)
    PROVE  command' \in Commands /\ command'.pc = "enter"
<1>1. command \in Commands /\ command.at + 1 \in 1..(Len(Order) + 1)
  BY PilotAssumption DEF IInv, Commands
<1>2. "enter" \in Calm /\ 1 \in Items /\ "none" \in Outcomes
  BY DEF Calm, Items, Outcomes
<1> QED
  BY <1>1, <1>2 DEF NextModel, Commands

LEMMA InitInvariant == Init => IInv
<1> SUFFICES ASSUME Init PROVE IInv
  OBVIOUS
<1>1. command \in Commands /\ command.pc = "idle"
  BY Idles DEF Init, Outcomes
<1>2. TypeOK
  <2>1. state \in [Models -> [Items -> ItemStates]] /\ output \in [Models -> [Items -> {"none", "good", "bad"}]]
        /\ sent \in [Models -> [Items -> 0..2]]
    BY DEF Init, ItemStates
  <2>2. request \in [Models -> [Stages -> FileStates]]
    BY DEF Init, FileStates
  <2> QED
    BY <1>1, <2>1, <2>2 DEF Init, TypeOK, FileStates, Commands
<1>3. IsFiniteSet(funded) /\ Cardinality(funded) <= ceiling
  BY FS_EmptySet, PilotAssumption DEF Init
<1>4. \A n \in Models, j \in Items : Accounted(n, j)
  BY DEF Init, Accounted
<1>5. \A n \in Models : Consistent(n)
  BY DEF Init, Consistent, Items
<1>6. Driving
  BY <1>1 DEF Driving
<1> QED
  BY <1>1, <1>2, <1>3, <1>4, <1>5, <1>6 DEF IInv, Inside

(* A step that leaves the ledgers and the campaign's rows alone. *)
LEMMA QuietKeeps ==
    ASSUME IInv,
           UNCHANGED <<dir, state, output, sent, ceiling, funded>>,
           packet' \in {"absent", "partial", "ready"}, code' \in {"planned", "repaired"},
           approval' \in FileStates, journal' \in {"none", "hot"},
           request' \in [Models -> [Stages -> FileStates]],
           response' \in [Models -> {"absent", "bad", "good"}],
           \A n \in Models : AnsweredWell(n) => AnsweredWell(n)',
           \/ command' = command
           \/ /\ command' \in Commands /\ command'.pc \in Calm
              /\ command'.pc \in Inside => command'.at <= Len(Order)
    PROVE  IInv'
<1>1. command' \in Commands /\ (command'.pc \in Inside => command'.at <= Len(Order))
  BY DEF IInv
<1>2. TypeOK'
  BY <1>1 DEF IInv, TypeOK, Commands
<1>3. \A n \in Models, j \in Items : Accounted(n, j)'
  BY DEF IInv, Accounted, Ready
<1>4. \A n \in Models : Consistent(n)'
  BY DEF IInv, Consistent
<1>5. Driving'
  <2>1. CASE command' = command
    <3>1. CASE command.pc \in {"reserve", "fund", "start"}
      <4>1. m \in Models /\ k \in Items
        BY <3>1, InModels DEF Inside
      <4>2. m' = m /\ k' = k
        BY <2>1 DEF m, k
      <4> QED
        BY <2>1, <3>1, <4>1, <4>2 DEF IInv, Driving, Ready
    <3>2. CASE command.pc \notin {"reserve", "fund", "start"}
      BY <2>1, <3>2 DEF IInv, Driving, m, k
    <3> QED
      BY <3>1, <3>2
  <2>2. CASE command'.pc \in Calm
    BY <2>2 DEF Driving, Calm
  <2> QED
    BY <2>1, <2>2
<1>6. IsFiniteSet(funded') /\ Cardinality(funded') <= ceiling'
  BY DEF IInv
<1> QED
  BY <1>1, <1>2, <1>3, <1>4, <1>5, <1>6 DEF IInv

-----------------------------------------------------------------------------
LEMMA Kept ==
    ASSUME UNCHANGED <<request, response>>
    PROVE  \A n \in Models : AnsweredWell(n) => AnsweredWell(n)'
BY DEF AnsweredWell

LEMMA Ending ==
    ASSUME IInv, NEW outcome \in Outcomes, End(outcome),
           UNCHANGED <<files, ledgers, ceiling, funded>>, journal' \in {"none", "hot"}
    PROVE  IInv'
<1>1. command' \in Commands /\ command'.pc = "idle"
  BY Idles DEF End
<1>2. UNCHANGED <<packet, code, approval, request, response, dir, state, output, sent, ceiling, funded>>
  BY DEF files, ledgers
<1> QED
  BY <1>1, <1>2, QuietKeeps, Kept DEF IInv, TypeOK, Calm, Inside

LEMMA PrepareKeeps == IInv /\ Prepare => IInv'
<1> SUFFICES ASSUME IInv, Prepare PROVE IInv'
  OBVIOUS
<1>1. packet' \in {"absent", "partial", "ready"}
      /\ UNCHANGED <<code, approval, request, response, dir, state, output, sent, ceiling, funded, journal>>
  BY DEF Prepare, IInv, TypeOK, ledgers, campaign
<1>2. command' \in Commands /\ command'.pc \in Calm /\ command'.pc \notin Inside
  BY Ends, Moves DEF Prepare, Calm, Inside, Outcomes
<1> QED
  BY <1>1, <1>2, QuietKeeps, Kept DEF IInv, TypeOK

LEMMA WritePlanKeeps == IInv /\ WritePlan => IInv'
<1> SUFFICES ASSUME IInv, WritePlan PROVE IInv'
  OBVIOUS
<1>1. packet' \in {"absent", "partial", "ready"}
      /\ UNCHANGED <<code, approval, request, response, dir, state, output, sent, ceiling, funded, journal>>
  BY DEF WritePlan, ledgers, campaign
<1>2. command' \in Commands /\ command'.pc \in Calm /\ command'.pc \notin Inside
  BY Ends DEF WritePlan, Calm, Inside, Outcomes
<1> QED
  BY <1>1, <1>2, QuietKeeps, Kept DEF IInv, TypeOK

LEMMA RunKeeps == IInv /\ (Run \/ WriteApproval) => IInv'
<1> SUFFICES ASSUME IInv, Run \/ WriteApproval PROVE IInv'
  OBVIOUS
<1>1. approval' \in FileStates
      /\ UNCHANGED <<packet, code, request, response, dir, state, output, sent, ceiling, funded, journal>>
  BY DEF Run, WriteApproval, RecordApproval, IInv, TypeOK, ledgers, campaign, FileStates
<1>2. command' \in Commands /\ command'.pc \in Calm /\ command'.pc \notin Inside
  BY Ends, Moves DEF Run, WriteApproval, RecordApproval, Calm, Inside, Outcomes
<1> QED
  BY <1>1, <1>2, QuietKeeps, Kept DEF IInv, TypeOK

LEMMA StopInvalidKeeps == IInv /\ StopInvalid => IInv'
<1>1. "stopped" \in Outcomes
  BY DEF Outcomes
<1> QED
  BY <1>1, Ending DEF StopInvalid, campaign, IInv, TypeOK

LEMMA FinishKeeps == IInv /\ Finish => IInv'
<1>1. "complete" \in Outcomes /\ "waiting" \in Outcomes
  BY DEF Outcomes
<1> QED
  BY <1>1, Ending DEF Finish, campaign, IInv, TypeOK

LEMMA RequestKeeps ==
    ASSUME IInv, NEW stage \in Stages, CreateReplayRequest(stage) \/ WriteReplayRequest(stage)
    PROVE  IInv'
<1>1. command.pc \in Inside
  BY DEF CreateReplayRequest, WriteReplayRequest, Judging, In, Inside, Stages
<1>2. m \in Models /\ command.at \in 1..Len(Order)
  BY <1>1, InModels
<1>3. UNCHANGED <<packet, code, approval, response, dir, state, output, sent, ceiling, funded, journal>>
  BY DEF CreateReplayRequest, WriteReplayRequest, ledgers, campaign
<1>4. request' \in [Models -> [Stages -> FileStates]]
      /\ \A n \in Models : request[n]["draft"] = "whole" => request'[n]["draft"] = "whole"
  <2>1. request \in [Models -> [Stages -> FileStates]]
    BY DEF IInv, TypeOK
  <2>2. ASSUME NEW value \in FileStates, request' = [request EXCEPT ![m][stage] = value],
               value = "whole" \/ request[m][stage] = "absent"
        PROVE  request' \in [Models -> [Stages -> FileStates]]
               /\ \A n \in Models : request[n]["draft"] = "whole" => request'[n]["draft"] = "whole"
    BY <1>2, <2>1, <2>2 DEF Stages
  <2> QED
    BY <2>1, <2>2 DEF CreateReplayRequest, WriteReplayRequest, FileStates
<1>5. command' \in Commands /\ command'.pc \in Calm
      /\ (command'.pc \in Inside => command'.at <= Len(Order))
  BY <1>2, Ends, Moves DEF CreateReplayRequest, WriteReplayRequest, Calm, Inside, Outcomes, Stages
<1>6. \A n \in Models : AnsweredWell(n) => AnsweredWell(n)'
  BY <1>3, <1>4 DEF AnsweredWell
<1> QED
  BY <1>3, <1>4, <1>5, <1>6, QuietKeeps DEF IInv, TypeOK

LEMMA NextModelKeeps ==
    ASSUME IInv, command.pc = "loop", NEW waiting \in SUBSET Models, NextModel(waiting),
           UNCHANGED <<files, ledgers, campaign>>
    PROVE  IInv'
<1>1. UNCHANGED <<packet, code, approval, request, response, dir, state, output, sent, ceiling, funded, journal>>
  BY DEF files, ledgers, campaign
<1>3. command' \in Commands /\ command'.pc = "enter"
  BY MovesOn DEF IInv, Inside
<1> QED
  BY <1>1, <1>3, QuietKeeps, Kept DEF IInv, TypeOK, Calm, Inside

LEMMA WaitKeeps == IInv /\ (RunFinished \/ Wait) => IInv'
<1> SUFFICES ASSUME IInv, RunFinished \/ Wait PROVE IInv'
  OBVIOUS
<1>1. m \in Models /\ command.pc = "loop"
  BY InModels DEF RunFinished, Wait, Judging, In, Inside
<1>2. command.waiting \in SUBSET Models /\ command.waiting \cup {m} \in SUBSET Models
  BY <1>1 DEF IInv, Commands
<1>3. "refused" \in Outcomes /\ journal \in {"none", "hot"}
  BY DEF Outcomes, IInv, TypeOK
<1> QED
  BY <1>1, <1>2, <1>3, NextModelKeeps, Ending DEF RunFinished, Wait, campaign

LEMMA AfterKeeps == IInv /\ (Unfunded \/ After) => IInv'
<1> SUFFICES ASSUME IInv, Unfunded \/ After PROVE IInv'
  OBVIOUS
<1>1. UNCHANGED <<packet, code, approval, request, response, dir, state, output, sent, ceiling, funded, journal>>
  BY DEF Unfunded, After, files, ledgers, campaign
<1>2. command.at <= Len(Order) /\ command.at \in 1..(Len(Order) + 1)
  BY DEF Unfunded, After, In, IInv, Inside, Commands
<1>3. command' \in Commands /\ command'.pc \in Calm
      /\ (command'.pc \in Inside => command'.at <= Len(Order))
  BY <1>2, Ends, Moves DEF Unfunded, After, Calm, Inside, Outcomes
<1> QED
  BY <1>1, <1>3, QuietKeeps, Kept DEF IInv, TypeOK

LEMMA OutsideKeeps ==
    ASSUME IInv, Repair \/ \E n \in Models : Respond(n) \/ RespondWell(n)
    PROVE  IInv'
<1>1. UNCHANGED <<packet, approval, request, dir, state, output, sent, ceiling, funded, journal, command>>
  BY DEF Repair, Respond, RespondWell, ledgers, campaign
<1>2. code' \in {"planned", "repaired"}
  BY DEF Repair, Respond, RespondWell, IInv, TypeOK
<1>3. response' \in [Models -> {"absent", "bad", "good"}]
      /\ \A n \in Models : response[n] = "good" => response'[n] = "good"
  <2>1. response \in [Models -> {"absent", "bad", "good"}]
    BY DEF IInv, TypeOK
  <2>2. ASSUME NEW n \in Models, NEW v \in {"absent", "bad", "good"}, response[n] # "good",
               response' = [response EXCEPT ![n] = v]
        PROVE  response' \in [Models -> {"absent", "bad", "good"}]
               /\ \A a \in Models : response[a] = "good" => response'[a] = "good"
    BY <2>1, <2>2
  <2>3. ASSUME NEW n \in Models, Respond(n) \/ RespondWell(n)
        PROVE  \E v \in {"absent", "bad", "good"} :
                   response' = [response EXCEPT ![n] = v] /\ response[n] # "good"
    BY <2>1, <2>3 DEF Respond, RespondWell
  <2> QED
    BY <2>1, <2>2, <2>3 DEF Repair
<1>4. \A n \in Models : AnsweredWell(n) => AnsweredWell(n)'
  BY <1>1, <1>3 DEF AnsweredWell
<1> QED
  BY <1>1, <1>2, <1>3, <1>4, QuietKeeps DEF IInv, TypeOK

-----------------------------------------------------------------------------
(* The state of one item changes, for the command that drives it or for a     *)
(* recovery; it had not completed, so no other item rests on it.              *)
LEMMA ItemKeeps ==
    ASSUME IInv, NEW n \in Models, NEW j \in Items, NEW v \in ItemStates,
           state[n][j] # "completed", v # "planned", dir[n] = "ready",
           j = 3 => AnsweredWell(n),
           state' = [state EXCEPT ![n][j] = v],
           UNCHANGED <<packet, code, request, response, dir, ceiling, funded, journal>>,
           approval' \in FileStates,
           output' \in [Models -> [Items -> {"none", "good", "bad"}]],
           sent' \in [Models -> [Items -> 0..2]],
           \A a \in Models, b \in Items : a # n \/ b # j =>
               output'[a][b] = output[a][b] /\ sent'[a][b] = sent[a][b],
           v = "reserved" => sent'[n][j] <= 1,
           sent'[n][j] > 0 => <<n, j>> \in funded /\ Ready(n, j),
           command' \in Commands, command'.pc \in Inside => command'.at <= Len(Order),
           Driving'
    PROVE  IInv'
<1>1. /\ state' \in [Models -> [Items -> ItemStates]]
      /\ state'[n][j] = v
      /\ \A a \in Models, b \in Items : a # n \/ b # j => state'[a][b] = state[a][b]
  BY Nested DEF IInv, TypeOK
<1>2. TypeOK'
  BY <1>1 DEF IInv, TypeOK, Commands
<1>3. ASSUME NEW a \in Models, NEW b \in Items, Ready(a, b), ~(a = n /\ j < b)
      PROVE  Ready(a, b)'
  <2>1. \A i \in Items : i < b => a # n \/ i # j
    BY <1>3 DEF Items
  <2> QED
    BY <1>1, <1>3, <2>1 DEF Ready
<1>4. ASSUME NEW a \in Models, NEW b \in Items, Ready(a, b)
      PROVE  ~(a = n /\ j < b)
  BY <1>4 DEF Ready
<1>5. ASSUME NEW a \in Models, NEW b \in Items PROVE Accounted(a, b)'
  <2>1. CASE a = n /\ b = j
    BY <1>1, <1>3, <1>4, <2>1 DEF Accounted
  <2>2. CASE a # n \/ b # j
    <3>1. state'[a][b] = state[a][b] /\ sent'[a][b] = sent[a][b]
      BY <1>1, <2>2
    <3>2. Accounted(a, b)
      BY DEF IInv
    <3> QED
      BY <1>3, <1>4, <3>1, <3>2 DEF Accounted
  <2> QED
    BY <2>1, <2>2
<1>6. ASSUME NEW a \in Models PROVE Consistent(a)'
  <2>1. AnsweredWell(a)' = AnsweredWell(a)
    BY DEF AnsweredWell
  <2>2. Consistent(a)
    BY DEF IInv
  <2>3. 3 \in Items
    BY DEF Items
  <2> QED
    BY <1>1, <2>1, <2>2, <2>3 DEF Consistent
<1>7. IsFiniteSet(funded') /\ Cardinality(funded') <= ceiling'
  BY DEF IInv
<1> QED
  BY <1>2, <1>5, <1>6, <1>7 DEF IInv

(* What the command knows of the item it drives. *)
LEMMA Driven ==
    ASSUME IInv, command.pc \in {"reserve", "fund", "start", "answer", "complete"}
    PROVE  /\ m \in Models /\ k \in Items /\ dir[m] = "ready"
           /\ command.at \in 1..Len(Order)
           /\ state[m][k] # "completed" /\ sent[m][k] \in 0..2 /\ Accounted(m, k)
           /\ k = 3 => AnsweredWell(m)
<1>1. m \in Models /\ k \in Items /\ command.at \in 1..Len(Order)
  BY InModels DEF Inside
<1>2. dir[m] = "ready" /\ state[m][k] # "completed"
  BY DEF IInv, Driving
<1>3. sent[m][k] \in 0..2 /\ Accounted(m, k) /\ Consistent(m)
  BY <1>1 DEF IInv, TypeOK
<1>4. k = 3 => AnsweredWell(m)
  BY <1>3 DEF IInv, Driving, Consistent
<1> QED
  BY <1>1, <1>2, <1>3, <1>4

LEMMA ReserveKeeps == IInv /\ Reserve => IInv'
<1> SUFFICES ASSUME IInv, Reserve PROVE IInv'
  OBVIOUS
<1>1. command.pc = "reserve"
  BY DEF Reserve, In
<1>2. /\ UNCHANGED <<packet, code, approval, request, response, dir, ceiling, funded, journal>>
      /\ UNCHANGED <<output, sent>>
  BY DEF Reserve, files, campaign
<1>3. state' = [state EXCEPT ![m][k] = "reserved"]
  BY DEF Reserve, SetState
<1>4. /\ command' \in Commands /\ command'.pc = "fund"
      /\ command'.at = command.at /\ command'.item = command.item
  BY Moves DEF Reserve, Inside
<1>5. /\ m \in Models /\ k \in Items /\ dir[m] = "ready" /\ command.at \in 1..Len(Order)
      /\ state[m][k] # "completed" /\ sent[m][k] \in 0..2 /\ Accounted(m, k)
      /\ k = 3 => AnsweredWell(m)
  BY <1>1, Driven
<1>6. state[m][k] \in {"planned", "reserved"} /\ Ready(m, k)
  BY <1>1 DEF IInv, Driving
<1>7. state'[m][k] = "reserved" /\ \A i \in Items : i # k => state'[m][i] = state[m][i]
  BY <1>3, <1>5, Nested DEF IInv, TypeOK, ItemStates
<1>8. m' = m /\ k' = k
  BY <1>4 DEF m, k
<1>9. Ready(m, k)' /\ AnsweredWell(m)' = AnsweredWell(m)
  <2>1. \A i \in Items : i < k => i # k
    BY <1>5 DEF Items
  <2> QED
    BY <1>2, <1>6, <1>7, <1>8, <2>1 DEF Ready, AnsweredWell
<1>10. Driving'
  BY <1>2, <1>4, <1>5, <1>7, <1>8, <1>9 DEF Driving
<1>11. sent'[m][k] <= 1 /\ (sent'[m][k] > 0 => <<m, k>> \in funded /\ Ready(m, k))
  BY <1>2, <1>5, <1>6 DEF Accounted
<1>12. /\ output' \in [Models -> [Items -> {"none", "good", "bad"}]]
       /\ sent' \in [Models -> [Items -> 0..2]] /\ approval' \in FileStates
       /\ \A a \in Models, b \in Items : a # m \/ b # k =>
              output'[a][b] = output[a][b] /\ sent'[a][b] = sent[a][b]
  BY <1>2 DEF IInv, TypeOK
<1>13. "reserved" \in ItemStates /\ (command'.pc \in Inside => command'.at <= Len(Order))
  BY <1>4, <1>5 DEF ItemStates
<1> QED
  BY <1>2, <1>3, <1>4, <1>5, <1>10, <1>11, <1>12, <1>13, ItemKeeps

LEMMA StartKeeps == IInv /\ Start => IInv'
<1> SUFFICES ASSUME IInv, Start PROVE IInv'
  OBVIOUS
<1>1. command.pc = "start"
  BY DEF Start, In
<1>2. /\ UNCHANGED <<packet, code, approval, request, response, dir, ceiling, funded, journal>>
      /\ UNCHANGED output
  BY DEF Start, files, campaign
<1>3. state' = [state EXCEPT ![m][k] = "in_flight"] /\ sent' = [sent EXCEPT ![m][k] = @ + 1]
  BY DEF Start, SetState
<1>4. /\ command' \in Commands /\ command'.pc = "answer"
      /\ command'.at = command.at /\ command'.item = command.item
  BY Moves DEF Start, Inside
<1>5. /\ m \in Models /\ k \in Items /\ dir[m] = "ready" /\ command.at \in 1..Len(Order)
      /\ state[m][k] # "completed" /\ sent[m][k] \in 0..2 /\ Accounted(m, k)
      /\ k = 3 => AnsweredWell(m)
  BY <1>1, Driven
<1>6. state[m][k] = "reserved" /\ Ready(m, k) /\ <<m, k>> \in funded
  BY <1>1 DEF IInv, Driving
<1>7. sent[m][k] + 1 \in 0..2
  BY <1>5, <1>6 DEF Accounted
<1>8. /\ sent' \in [Models -> [Items -> 0..2]]
      /\ \A a \in Models, b \in Items : a # m \/ b # k => sent'[a][b] = sent[a][b]
  BY <1>3, <1>5, <1>7, Nested DEF IInv, TypeOK
<1>9. state'[m][k] = "in_flight"
  BY <1>3, <1>5, Nested DEF IInv, TypeOK, ItemStates
<1>10. Driving'
  BY <1>2, <1>4, <1>5, <1>9 DEF Driving, m, k
<1>11. /\ output' \in [Models -> [Items -> {"none", "good", "bad"}]] /\ approval' \in FileStates
       /\ \A a \in Models, b \in Items : a # m \/ b # k =>
              output'[a][b] = output[a][b] /\ sent'[a][b] = sent[a][b]
  BY <1>2, <1>8 DEF IInv, TypeOK
<1>12. "in_flight" \in ItemStates /\ (command'.pc \in Inside => command'.at <= Len(Order))
  BY <1>4, <1>5 DEF ItemStates
<1>13. sent'[m][k] > 0 => <<m, k>> \in funded /\ Ready(m, k)
  BY <1>6
<1>14. state' = [state EXCEPT ![m][k] = "in_flight"]
  BY <1>3
<1> QED
  BY <1>2, <1>4, <1>5, <1>8, <1>10, <1>11, <1>12, <1>13, <1>14, ItemKeeps

LEMMA AnswerKeeps ==
    ASSUME IInv, NEW result \in {"good", "bad", "failed", "uncertain"}, Answer(result)
    PROVE  IInv'
<1>1. command.pc = "answer"
  BY DEF Answer, In
<1>2. /\ UNCHANGED <<packet, code, approval, request, response, dir, ceiling, funded, journal>>
      /\ UNCHANGED sent
  BY DEF Answer, files, campaign
<1>3. PICK v \in {"result_saved", "failed", "uncertain"} :
          /\ state' = [state EXCEPT ![m][k] = v]
          /\ v = "result_saved" => Go("complete")
          /\ v # "result_saved" => Go("after")
  <2>1. CASE result \in {"good", "bad"}
    <3>1. state' = [state EXCEPT ![m][k] = "result_saved"] /\ Go("complete")
      BY <2>1 DEF Answer, SetState
    <3>2. "result_saved" \in {"result_saved", "failed", "uncertain"}
      OBVIOUS
    <3> QED
      BY <3>1, <3>2
  <2>2. CASE result \in {"failed", "uncertain"}
    BY <2>2 DEF Answer, SetState
  <2> QED
    BY <2>1, <2>2
<1>4. /\ command' \in Commands
      /\ (command'.pc = "complete" /\ v = "result_saved") \/ command'.pc = "after"
      /\ command'.at = command.at /\ command'.item = command.item
  BY <1>3, Moves DEF Inside, Calm
<1>5. /\ m \in Models /\ k \in Items /\ dir[m] = "ready" /\ command.at \in 1..Len(Order)
      /\ state[m][k] # "completed" /\ sent[m][k] \in 0..2 /\ Accounted(m, k)
      /\ k = 3 => AnsweredWell(m)
  BY <1>1, Driven
<1>6. output' = output \/ \E r \in {"none", "good", "bad"} : output' = [output EXCEPT ![m][k] = r]
  BY DEF Answer
<1>7. /\ output' \in [Models -> [Items -> {"none", "good", "bad"}]]
      /\ \A a \in Models, b \in Items : a # m \/ b # k => output'[a][b] = output[a][b]
  <2>1. output \in [Models -> [Items -> {"none", "good", "bad"}]]
    BY DEF IInv, TypeOK
  <2>2. CASE output' = output
    BY <2>1, <2>2
  <2>3. ASSUME NEW r \in {"none", "good", "bad"}, output' = [output EXCEPT ![m][k] = r]
        PROVE  /\ output' \in [Models -> [Items -> {"none", "good", "bad"}]]
               /\ \A a \in Models, b \in Items : a # m \/ b # k => output'[a][b] = output[a][b]
    BY <1>5, <2>1, <2>3, Nested
  <2> QED
    BY <1>6, <2>2, <2>3
<1>8. v \in ItemStates /\ state'[m][k] = v
  BY <1>3, <1>5, Nested DEF IInv, TypeOK, ItemStates
<1>9. Driving'
  BY <1>2, <1>4, <1>5, <1>8 DEF Driving, m, k
<1>10. /\ sent' \in [Models -> [Items -> 0..2]] /\ approval' \in FileStates
       /\ \A a \in Models, b \in Items : a # m \/ b # k =>
              output'[a][b] = output[a][b] /\ sent'[a][b] = sent[a][b]
  BY <1>2, <1>7 DEF IInv, TypeOK
<1>11. v \notin {"reserved", "planned"} /\ (command'.pc \in Inside => command'.at <= Len(Order))
  BY <1>3, <1>4, <1>5
<1>12. sent'[m][k] > 0 => <<m, k>> \in funded /\ Ready(m, k)
  BY <1>2, <1>5 DEF Accounted
<1> QED
  BY <1>2, <1>3, <1>4, <1>5, <1>7, <1>8, <1>9, <1>10, <1>11, <1>12, ItemKeeps

LEMMA CompleteKeeps == IInv /\ Complete => IInv'
<1> SUFFICES ASSUME IInv, Complete PROVE IInv'
  OBVIOUS
<1>1. command.pc = "complete"
  BY DEF Complete, In
<1>2. /\ UNCHANGED <<packet, code, approval, request, response, dir, ceiling, funded, journal>>
      /\ UNCHANGED <<output, sent>>
  BY DEF Complete, files, campaign
<1>3. state' = [state EXCEPT ![m][k] = "completed"]
  BY DEF Complete, SetState
<1>4. /\ command' \in Commands /\ command'.pc = "after" /\ command'.at = command.at
  BY Moves DEF Complete, Inside
<1>5. /\ m \in Models /\ k \in Items /\ dir[m] = "ready" /\ command.at \in 1..Len(Order)
      /\ state[m][k] # "completed" /\ sent[m][k] \in 0..2 /\ Accounted(m, k)
      /\ k = 3 => AnsweredWell(m)
  BY <1>1, Driven
<1>6. Driving'
  BY <1>4 DEF Driving
<1>7. /\ output' \in [Models -> [Items -> {"none", "good", "bad"}]]
      /\ sent' \in [Models -> [Items -> 0..2]] /\ approval' \in FileStates
      /\ \A a \in Models, b \in Items : a # m \/ b # k =>
             output'[a][b] = output[a][b] /\ sent'[a][b] = sent[a][b]
  BY <1>2 DEF IInv, TypeOK
<1>8. "completed" \in ItemStates /\ (command'.pc \in Inside => command'.at <= Len(Order))
  BY <1>4, <1>5 DEF ItemStates
<1>9. sent'[m][k] > 0 => <<m, k>> \in funded /\ Ready(m, k)
  BY <1>2, <1>5 DEF Accounted
<1> QED
  BY <1>2, <1>3, <1>4, <1>5, <1>6, <1>7, <1>8, <1>9, ItemKeeps

LEMMA RecoveryKeeps ==
    ASSUME IInv, NEW n \in Models, NEW j \in Items, RetryUnsent(n, j) \/ RecoverReceipt(n, j)
    PROVE  IInv'
<1>1. /\ UNCHANGED <<packet, code, request, response, dir, ceiling, funded, journal>>
      /\ UNCHANGED <<sent, command>> /\ command.pc = "idle" /\ approval' \in FileStates
  BY DEF RetryUnsent, RecoverReceipt, Recovers, In, IInv, TypeOK, campaign, FileStates
<1>2. PICK v \in {"reserved", "completed"} :
          state' = [state EXCEPT ![n][j] = v] /\ (v = "reserved" => sent[n][j] = 1)
  BY DEF RetryUnsent, RecoverReceipt
<1>3. state[n][j] = "uncertain" /\ dir[n] = "ready"
  BY DEF RetryUnsent, RecoverReceipt
<1>4. output' = output \/ \E r \in {"none", "good", "bad"} : output' = [output EXCEPT ![n][j] = r]
  BY DEF RetryUnsent, RecoverReceipt
<1>5. /\ output' \in [Models -> [Items -> {"none", "good", "bad"}]]
      /\ \A a \in Models, b \in Items : a # n \/ b # j => output'[a][b] = output[a][b]
  <2>1. output \in [Models -> [Items -> {"none", "good", "bad"}]]
    BY DEF IInv, TypeOK
  <2>2. CASE output' = output
    BY <2>1, <2>2
  <2>3. ASSUME NEW r \in {"none", "good", "bad"}, output' = [output EXCEPT ![n][j] = r]
        PROVE  /\ output' \in [Models -> [Items -> {"none", "good", "bad"}]]
               /\ \A a \in Models, b \in Items : a # n \/ b # j => output'[a][b] = output[a][b]
    BY <2>1, <2>3, Nested
  <2> QED
    BY <1>4, <2>2, <2>3
<1>6. Accounted(n, j) /\ Consistent(n)
  BY DEF IInv
<1>7. j = 3 => AnsweredWell(n)
  BY <1>3, <1>6 DEF Consistent
<1>8. sent' \in [Models -> [Items -> 0..2]]
      /\ \A a \in Models, b \in Items : a # n \/ b # j =>
             output'[a][b] = output[a][b] /\ sent'[a][b] = sent[a][b]
  BY <1>1, <1>5 DEF IInv, TypeOK
<1>9. Driving' /\ command' \in Commands /\ (command'.pc \in Inside => command'.at <= Len(Order))
  BY <1>1 DEF Driving, IInv
<1>10. v \in ItemStates /\ v # "planned" /\ state[n][j] # "completed"
  BY <1>2, <1>3 DEF ItemStates
<1>11. sent'[n][j] > 0 => <<n, j>> \in funded /\ Ready(n, j)
  BY <1>1, <1>6 DEF Accounted
<1>12. v = "reserved" => sent'[n][j] <= 1
  BY <1>1, <1>2
<1> QED
  BY <1>1, <1>2, <1>3, <1>5, <1>7, <1>8, <1>9, <1>10, <1>11, <1>12, ItemKeeps

-----------------------------------------------------------------------------
(* Entering a run closes what was in flight and touches nothing that counts. *)
LEMMA EnterKeeps == IInv /\ Enter => IInv'
<1> SUFFICES ASSUME IInv, Enter PROVE IInv'
  OBVIOUS
<1>1. UNCHANGED <<packet, code, approval, request, response, dir, output, sent, ceiling, funded, journal>>
  BY DEF Enter, files, campaign
<1>2. CASE dir[m] = "partial"
  <2>1. UNCHANGED <<files, ledgers, ceiling, funded, journal>> /\ End("refused") /\ "refused" \in Outcomes
    BY <1>1, <1>2 DEF Enter, files, ledgers, Outcomes
  <2> QED
    BY <2>1, Ending DEF IInv, TypeOK
<1>3. CASE dir[m] # "partial"
  <2>1. Go("loop") /\ command.at \in DOMAIN Order /\ command.at <= Len(Order)
    BY <1>3, PilotAssumption DEF Enter, IInv, Commands
  <2>2. m \in Models
    BY <2>1 DEF m, Models
  <2>3. state' = [state EXCEPT ![m] = [j \in Items |-> Reopened(state[m][j])]]
    BY <1>3 DEF Enter
  <2>4. state \in [Models -> [Items -> ItemStates]]
    BY DEF IInv, TypeOK
  <2>5. ASSUME NEW a \in Models, NEW b \in Items
        PROVE  /\ state'[a][b] \in ItemStates
               /\ state[a][b] = "planned" <=> state'[a][b] = "planned"
               /\ state[a][b] = "reserved" <=> state'[a][b] = "reserved"
               /\ state[a][b] = "completed" => state'[a][b] = "completed"
    <3>1. CASE a = m
      <4>1. state'[a][b] = Reopened(state[a][b])
        BY <2>2, <2>3, <2>4, <3>1
      <4> QED
        BY <2>4, <4>1 DEF Reopened, ItemStates
    <3>2. CASE a # m
      BY <2>3, <2>4, <3>2
    <3> QED
      BY <3>1, <3>2
  <2>6. state' \in [Models -> [Items -> ItemStates]]
    <3>1. [j \in Items |-> Reopened(state[m][j])] \in [Items -> ItemStates]
      BY <2>2, <2>4 DEF Reopened, ItemStates
    <3> QED
      BY <2>2, <2>3, <2>4, <3>1
  <2>7. command' \in Commands /\ command'.pc = "loop" /\ command'.at = command.at
    BY <2>1, Moves DEF Calm
  <2>8. TypeOK'
    BY <1>1, <2>6, <2>7 DEF IInv, TypeOK, Commands
  <2>9. ASSUME NEW a \in Models, NEW b \in Items PROVE Accounted(a, b)'
    BY <1>1, <2>5 DEF IInv, Accounted, Ready
  <2>10. ASSUME NEW a \in Models PROVE Consistent(a)'
    <3>1. AnsweredWell(a)' = AnsweredWell(a) /\ 3 \in Items
      BY <1>1 DEF AnsweredWell, Items
    <3> QED
      BY <1>1, <2>5, <3>1 DEF IInv, Consistent
  <2>11. Driving'
    BY <2>7 DEF Driving
  <2>12. IsFiniteSet(funded') /\ Cardinality(funded') <= ceiling'
    BY <1>1 DEF IInv
  <2> QED
    BY <2>1, <2>7, <2>8, <2>9, <2>10, <2>11, <2>12 DEF IInv
<1> QED
  BY <1>2, <1>3

(* Steps that leave the ledgers as they are and make or take up an item.      *)
LEMMA TakesUp ==
    ASSUME IInv,
           UNCHANGED <<packet, code, approval, request, response, state, output, sent>>,
           journal' \in {"none", "hot"}, ceiling' = ceiling,
           dir' \in [Models -> {"absent", "partial", "ready"}],
           \A n \in Models : dir'[n] # "ready" => dir[n] # "ready",
           funded \subseteq funded', funded' \subseteq Models \X Items,
           IsFiniteSet(funded'), Cardinality(funded') <= ceiling',
           command' \in Commands, command'.pc \in Inside => command'.at <= Len(Order),
           Driving'
    PROVE  IInv'
<1>1. TypeOK'
  BY DEF IInv, TypeOK, Commands
<1>2. ASSUME NEW a \in Models, NEW b \in Items PROVE Accounted(a, b)'
  BY DEF IInv, Accounted, Ready
<1>3. ASSUME NEW a \in Models PROVE Consistent(a)'
  BY DEF IInv, Consistent, AnsweredWell
<1> QED
  BY <1>1, <1>2, <1>3 DEF IInv

LEMMA CreateRunKeeps == IInv /\ CreateRun => IInv'
<1> SUFFICES ASSUME IInv, CreateRun PROVE IInv'
  OBVIOUS
<1>1. m \in Models /\ command.at \in 1..Len(Order) /\ dir[m] = "absent"
  BY InModels DEF CreateRun, In, Inside
<1>2. UNCHANGED <<packet, code, approval, request, response, state, output, sent, ceiling, funded, journal>>
  BY DEF CreateRun, files, campaign
<1>3. dir' = [dir EXCEPT ![m] = "partial"]
  BY DEF CreateRun
<1>4. dir' \in [Models -> {"absent", "partial", "ready"}] /\ dir'[m] = "partial"
      /\ \A n \in Models : dir'[n] # "ready" => dir[n] # "ready"
  BY <1>1, <1>3 DEF IInv, TypeOK
<1>5. command' \in Commands /\ command'.pc = "create" /\ command'.at = command.at
  BY Moves DEF CreateRun, Inside
<1>6. Driving'
  BY <1>4, <1>5 DEF Driving, m
<1> QED
  BY <1>1, <1>2, <1>4, <1>5, <1>6, TakesUp DEF IInv, TypeOK

LEMMA CreateLedgerKeeps == IInv /\ CreateLedger => IInv'
<1> SUFFICES ASSUME IInv, CreateLedger PROVE IInv'
  OBVIOUS
<1>1. m \in Models /\ command.at \in 1..Len(Order) /\ dir[m] = "partial"
  BY InModels DEF CreateLedger, In, Inside, IInv, Driving
<1>2. UNCHANGED <<packet, code, approval, request, response, state, output, sent, ceiling, funded, journal>>
  BY DEF CreateLedger, files, campaign
<1>3. dir' = [dir EXCEPT ![m] = "ready"]
  BY DEF CreateLedger
<1>4. dir' \in [Models -> {"absent", "partial", "ready"}] /\ dir'[m] = "ready"
      /\ \A n \in Models : dir'[n] # "ready" => dir[n] # "ready"
  BY <1>1, <1>3 DEF IInv, TypeOK
<1>5. /\ command' \in Commands /\ command'.pc = "reserve"
      /\ command'.at = command.at /\ command'.item = 1
  <2>1. command \in Commands /\ "reserve" \in Inside /\ 1 \in Items /\ "created" \in Outcomes
    BY DEF IInv, Inside, Items, Outcomes
  <2> QED
    BY <2>1 DEF CreateLedger, Commands
<1>6. m' = m /\ k' = 1
  BY <1>5 DEF m, k
<1>7. state[m][1] = "planned" /\ \A i \in Items : ~(i < 1)
  BY <1>1 DEF IInv, Consistent, Items
<1>8. Driving'
  BY <1>2, <1>4, <1>5, <1>6, <1>7 DEF Driving, Ready
<1> QED
  BY <1>1, <1>2, <1>4, <1>5, <1>8, TakesUp DEF IInv, TypeOK

LEMMA TakeKeeps == IInv /\ Take => IInv'
<1> SUFFICES ASSUME IInv, Take PROVE IInv'
  OBVIOUS
<1>1. m \in Models /\ command.at \in 1..Len(Order) /\ dir[m] = "ready"
  BY InModels DEF Take, Judging, In, Inside
<1>2. UNCHANGED <<packet, code, approval, request, response, dir, state, output, sent, ceiling, funded, journal>>
  BY DEF Take, files, ledgers, campaign
<1>3. PICK j \in Items :
          /\ state[m][j] # "completed" /\ \A i \in 1..(j - 1) : state[m][i] = "completed"
          /\ command' = [command EXCEPT !.pc = "reserve", !.item = j, !.before = state[m][j]]
  BY DEF Take
<1>4. /\ command' \in Commands /\ command'.pc = "reserve"
      /\ command'.at = command.at /\ command'.item = j
  <2>1. command \in Commands /\ "reserve" \in Inside /\ state[m][j] \in ItemStates
    BY <1>1 DEF IInv, TypeOK, Inside
  <2> QED
    BY <1>3, <2>1 DEF Commands
<1>5. m' = m /\ k' = j
  BY <1>4 DEF m, k
<1>6. Ready(m, j) /\ state[m][j] \in {"planned", "reserved"}
  <2>1. ValidOutputs(m)
    BY DEF Take
  <2>2. \A i \in Items : i < j => i \in 1..(j - 1)
    BY DEF Items
  <2> QED
    BY <1>3, <2>1, <2>2 DEF ValidOutputs, Ready
<1>7. j = 3 => AnsweredWell(m)
  <2>1. CASE j = 3 /\ state[m][3] = "planned"
    <3>1. state[m][2] = "completed"
      BY <1>3, <2>1
    <3> QED
      BY <2>1, <3>1 DEF Take, Answered, AwaitsResponse, AnsweredWell
  <2>2. CASE j = 3 /\ state[m][3] # "planned"
    BY <1>1, <2>2 DEF IInv, Consistent
  <2> QED
    BY <2>1, <2>2
<1>8. Driving'
  BY <1>1, <1>2, <1>4, <1>5, <1>6, <1>7 DEF Driving, Ready, AnsweredWell
<1> QED
  BY <1>1, <1>2, <1>4, <1>8, TakesUp DEF IInv, TypeOK

LEMMA Funding ==
    ASSUME IInv, command.pc = "fund", Room
    PROVE  LET f == funded \cup {<<m, k>>} IN
           IsFiniteSet(f) /\ Cardinality(f) <= ceiling /\ f \subseteq Models \X Items
<1>1. m \in Models /\ k \in Items
  BY Driven
<1>2. IsFiniteSet(funded) /\ Cardinality(funded) <= ceiling /\ funded \subseteq Models \X Items
  BY DEF IInv, TypeOK
<1>3. Cardinality(funded) \in Nat /\ ceiling \in Nat
  BY <1>2, FS_CardinalityType, PilotAssumption DEF IInv, TypeOK
<1>4. CASE <<m, k>> \in funded
  <2>1. funded \cup {<<m, k>>} = funded
    BY <1>4
  <2> QED
    BY <1>2, <2>1
<1>5. CASE <<m, k>> \notin funded
  <2>1. Cardinality(funded) < ceiling
    BY <1>5 DEF Room
  <2>2. IsFiniteSet(funded \cup {<<m, k>>})
        /\ Cardinality(funded \cup {<<m, k>>}) = Cardinality(funded) + 1
    BY <1>2, <1>5, FS_AddElement
  <2> QED
    BY <1>1, <1>2, <1>3, <2>1, <2>2
<1> QED
  BY <1>4, <1>5

LEMMA FundKeeps == IInv /\ Fund => IInv'
<1> SUFFICES ASSUME IInv, Fund PROVE IInv'
  OBVIOUS
<1>1. command.pc = "fund" /\ Room
  BY DEF Fund, In
<1>2. /\ m \in Models /\ k \in Items /\ dir[m] = "ready" /\ command.at \in 1..Len(Order)
      /\ state[m][k] = "reserved" /\ Ready(m, k) /\ (k = 3 => AnsweredWell(m))
  BY <1>1, Driven DEF IInv, Driving
<1>3. UNCHANGED <<packet, code, approval, request, response, dir, state, output, sent, ceiling, journal>>
  BY DEF Fund, files, ledgers
<1>4. funded' = funded \cup {<<m, k>>}
  BY DEF Fund
<1>5. /\ command' \in Commands /\ command'.pc = "start"
      /\ command'.at = command.at /\ command'.item = command.item
  BY Moves DEF Fund, Inside
<1>6. m' = m /\ k' = k
  BY <1>5 DEF m, k
<1>7. Driving'
  BY <1>2, <1>3, <1>4, <1>5, <1>6 DEF Driving, Ready, AnsweredWell
<1>8. IsFiniteSet(funded') /\ Cardinality(funded') <= ceiling' /\ funded' \subseteq Models \X Items
      /\ funded \subseteq funded'
  BY <1>1, <1>3, <1>4, Funding
<1> QED
  BY <1>2, <1>3, <1>5, <1>7, <1>8, TakesUp DEF IInv, TypeOK

LEMMA DiesKeeps == IInv /\ Dies => IInv'
<1> SUFFICES ASSUME IInv, Dies PROVE IInv'
  OBVIOUS
<1>1. UNCHANGED <<packet, code, approval, request, response, dir, state, output, sent, ceiling>>
  BY DEF Dies, files, ledgers, campaign
<1>2. command' \in Commands /\ command'.pc = "idle"
  BY Ends DEF Dies, Outcomes
<1>3. Driving'
  BY <1>2 DEF Driving
<1>4. journal' \in {"none", "hot"}
  BY DEF Dies, campaign, IInv, TypeOK
<1>5. IsFiniteSet(funded') /\ Cardinality(funded') <= ceiling' /\ funded' \subseteq Models \X Items
      /\ funded \subseteq funded'
  <2>1. CASE funded' = funded
    BY <1>1, <2>1 DEF IInv, TypeOK
  <2>2. CASE funded' # funded
    <3>1. command.pc = "fund" /\ Room /\ funded' = funded \cup {<<m, k>>}
      BY <2>2 DEF Dies, In, campaign
    <3> QED
      BY <1>1, <3>1, Funding
  <2> QED
    BY <2>1, <2>2
<1> QED
  BY <1>1, <1>2, <1>3, <1>4, <1>5, TakesUp DEF IInv, TypeOK, Inside

-----------------------------------------------------------------------------
LEMMA NextKeeps == IInv /\ [Next]_vars => IInv'
<1> SUFFICES ASSUME IInv, [Next]_vars PROVE IInv'
  OBVIOUS
<1>1. CASE Step
  <2>1. CASE WritePlan
    BY <2>1, WritePlanKeeps
  <2>2. CASE WriteApproval
    BY <2>2, RunKeeps
  <2>3. CASE Enter
    BY <2>3, EnterKeeps
  <2>4. CASE CreateRun \/ CreateLedger
    BY <2>4, CreateRunKeeps, CreateLedgerKeeps
  <2>5. CASE StopInvalid \/ Finish
    BY <2>5, StopInvalidKeeps, FinishKeeps
  <2>6. CASE \E stage \in Stages : CreateReplayRequest(stage) \/ WriteReplayRequest(stage)
    BY <2>6, RequestKeeps
  <2>7. CASE RunFinished \/ Wait
    BY <2>7, WaitKeeps
  <2>8. CASE Take
    BY <2>8, TakeKeeps
  <2>9. CASE Reserve \/ Fund \/ Start \/ Complete
    BY <2>9, ReserveKeeps, FundKeeps, StartKeeps, CompleteKeeps
  <2>10. CASE Unfunded \/ After
    BY <2>10, AfterKeeps
  <2>11. CASE \E result \in {"good", "bad", "failed", "uncertain"} : Answer(result)
    BY <2>11, AnswerKeeps
  <2> QED
    BY <1>1, <2>1, <2>2, <2>3, <2>4, <2>5, <2>6, <2>7, <2>8, <2>9, <2>10, <2>11 DEF Step
<1>2. CASE Operator
  <2>1. CASE Prepare \/ Run
    BY <2>1, PrepareKeeps, RunKeeps
  <2>2. CASE Repair \/ \E n \in Models : Respond(n) \/ RespondWell(n)
    BY <2>2, OutsideKeeps
  <2>3. CASE \E n \in Models, j \in Items : RetryUnsent(n, j) \/ RecoverReceipt(n, j)
    BY <2>3, RecoveryKeeps
  <2> QED
    BY <1>2, <2>1, <2>2, <2>3 DEF Operator
<1>3. CASE Dies
  BY <1>3, DiesKeeps
<1>4. CASE UNCHANGED vars
  <2>1. UNCHANGED <<packet, code, approval, request, response, dir, state, output, sent>>
        /\ UNCHANGED <<ceiling, funded, journal, command>>
    BY <1>4 DEF vars, files, ledgers, campaign
  <2> QED
    BY <2>1, QuietKeeps, Kept DEF IInv, TypeOK
<1> QED
  BY <1>1, <1>2, <1>3, <1>4 DEF Next

-----------------------------------------------------------------------------
(* Every command of repaired code has its approval on disk before it enters a *)
(* run, and only between commands is code repaired.                          *)
Approved ==
    code = "repaired" /\ command.pc \notin {"idle", "prepare", "approve"} => approval = "whole"

LEMMA ApprovedStays == IInv /\ Approved /\ [Next]_vars => Approved'
<1> SUFFICES ASSUME IInv, Approved, [Next]_vars PROVE Approved'
  OBVIOUS
<1>1. CASE Step
  <2>1. CASE WriteApproval
    BY <2>1 DEF WriteApproval, Approved
  <2>2. CASE ~WriteApproval
    <3>1. UNCHANGED <<code, approval>>
      BY <1>1, <2>2 DEF Step, WritePlan, Enter, CreateRun, CreateLedger, StopInvalid,
             CreateReplayRequest, WriteReplayRequest, RunFinished, Wait, Take, Reserve, Fund,
             Unfunded, Start, Answer, Complete, After, Finish, files
    <3>2. command'.pc = "idle" \/ command.pc \notin {"idle", "prepare", "approve"}
      <4>1. CASE WritePlan
        BY <4>1, Ends DEF WritePlan, Outcomes
      <4>2. CASE ~WritePlan
        BY <1>1, <2>2, <4>2 DEF Step, Enter, CreateRun, CreateLedger, StopInvalid,
             CreateReplayRequest, WriteReplayRequest, RunFinished, Wait, Take, Reserve, Fund,
             Unfunded, Start, Answer, Complete, After, Finish, In, Judging, Stages
      <4> QED
        BY <4>1, <4>2
    <3> QED
      BY <3>1, <3>2 DEF Approved
  <2> QED
    BY <2>1, <2>2
<1>2. CASE Prepare
  <2>1. UNCHANGED <<code, approval>> /\ command'.pc \in {"idle", "prepare"}
    BY <1>2, Ends, Moves DEF Prepare, Outcomes, Calm
  <2> QED
    BY <2>1 DEF Approved
<1>3. CASE Run
  <2>1. code' = code
    BY <1>3 DEF Run
  <2>2. CASE code = "planned"
    BY <2>1, <2>2 DEF Approved
  <2>3. CASE code # "planned"
    <3>1. \/ approval' = "whole"
          \/ End("refused")
          \/ Go("approve")
      BY <1>3, <2>3 DEF Run, RecordApproval
    <3>2. approval' = "whole" \/ command'.pc \in {"idle", "approve"}
      BY <3>1, Ends, Moves DEF Outcomes, Calm
    <3> QED
      BY <3>2 DEF Approved
  <2> QED
    BY <2>2, <2>3
<1>4. CASE Repair \/ \E n \in Models, j \in Items : RetryUnsent(n, j) \/ RecoverReceipt(n, j)
  <2>1. command'.pc = "idle"
    BY <1>4 DEF Repair, RetryUnsent, RecoverReceipt, Recovers, In
  <2> QED
    BY <2>1 DEF Approved
<1>5. CASE \E n \in Models : Respond(n) \/ RespondWell(n)
  BY <1>5 DEF Respond, RespondWell, Approved
<1>6. CASE Dies
  <2>1. command'.pc = "idle"
    BY <1>6, Ends DEF Dies, Outcomes
  <2> QED
    BY <2>1 DEF Approved
<1>7. CASE UNCHANGED vars
  BY <1>7 DEF vars, files, Approved
<1> QED
  BY <1>1, <1>2, <1>3, <1>4, <1>5, <1>6, <1>7 DEF Next, Operator

(* In every state of the pilot all that IInv says holds, and repaired code is   *)
(* approved on disk before a command of it enters a run.                     *)
THEOREM Invariant == Spec => [](IInv /\ Approved)
<1>1. Init => IInv /\ Approved
  <2>1. Init => Approved
    BY DEF Init, Approved
  <2> QED
    BY <2>1, InitInvariant
<1>2. IInv /\ Approved /\ [Next]_vars => (IInv /\ Approved)'
  BY NextKeeps, ApprovedStays
<1> QED
  BY <1>1, <1>2, PTL DEF Spec

(* The variables of the pilot stay in their types, for any number of models. *)
THEOREM TypeCorrect == Spec => []TypeOK
<1>1. IInv => TypeOK
  BY DEF IInv
<1> QED
  BY <1>1, Invariant, PTL

(* A request of _drive is sent only when everything it waits for is there:    *)
(* the valid outputs of its run, the response to the replay request, its     *)
(* share of the campaign and the approval of the code.                       *)
THEOREM ClearedBeforeSent == Spec => []SentWhenCleared
<1>1. ASSUME IInv, Approved PROVE SentWhenCleared
  <2>1. ASSUME NEW n \in Models, NEW j \in Items, sent[n][j] > 0
        PROVE  Ready(n, j) /\ <<n, j>> \in funded
    BY <1>1, <2>1 DEF IInv, Accounted
  <2>2. SentAfterValid
    <3>1. \A j \in Items : \A i \in 1..(j - 1) : i \in Items /\ i < j
      BY DEF Items
    <3> QED
      BY <2>1, <3>1 DEF SentAfterValid, Ready
  <2>3. RevisionAnswered
    <3>1. ASSUME NEW n \in Models, sent[n][3] > 0 PROVE AnsweredWell(n)
      <4>1. 3 \in Items /\ Accounted(n, 3) /\ Consistent(n)
        BY <1>1 DEF IInv, Items
      <4> QED
        BY <3>1, <4>1 DEF Accounted, Consistent
    <3> QED
      BY <3>1 DEF RevisionAnswered, AnsweredWell
  <2>4. FundedBeforeSent
    BY <1>1, <2>1 DEF FundedBeforeSent, IInv
  <2>5. RepairApproved
    BY <1>1 DEF RepairApproved, Approved, In
  <2> QED
    BY <2>2, <2>3, <2>4, <2>5 DEF SentWhenCleared
<1> QED
  BY <1>1, Invariant, PTL

-----------------------------------------------------------------------------
(* What the command establishes step by step, so that it can say how it ended. *)
Done(n) ==
    /\ request[n]["revision"] = "whole"
    /\ \A j \in Items : state[n][j] = "completed" /\ output[n][j] = "good"

Exhausted(n, j) ==
    /\ Cardinality(funded) >= ceiling
    /\ state[n][j] = "reserved" /\ <<n, j>> \notin funded

(* A saved answer has a judgment. *)
Judged == \A n \in Models, j \in Items :
    state[n][j] \in {"result_saved", "completed"} => output[n][j] \in {"good", "bad"}

(* In the run that the command drives nothing is unfinished but its item.     *)
Quiet == command.pc \in Inside => \A j \in Items :
    state[m][j] \in {"in_flight", "result_saved"} =>
        j = k /\ command.pc \in {"answer", "complete"}

Passed == \A i \in 1..Len(Order) :
    i < command.at => Order[i] \in command.waiting \/ Done(Order[i])

Decided == command.pc \in {"reserve", "fund", "start", "answer", "complete"} =>
    command.before \in {"created", "planned", "reserved"}

Verdict ==
    /\ command.pc = "after" /\ Unchanged => Exhausted(m, k)
    /\ command.pc = "idle" /\ command.before = "admission_stopped" =>
           \E n \in Models, j \in Items : Exhausted(n, j)
    /\ command.pc = "idle" /\ command.before = "complete" => \A n \in Models : Done(n)

Honest == Judged /\ Quiet /\ Passed /\ Decided /\ Verdict

LEMMA LedgerSteps ==
    ASSUME [Next]_vars
    PROVE  \/ UNCHANGED <<state, output>>
           \/ Enter \/ Reserve \/ Start \/ Complete
           \/ \E result \in {"good", "bad", "failed", "uncertain"} : Answer(result)
           \/ \E n \in Models, j \in Items : RetryUnsent(n, j) \/ RecoverReceipt(n, j)
<1>1. CASE Step
  BY <1>1 DEF Step, WritePlan, WriteApproval, CreateRun, CreateLedger, StopInvalid,
      CreateReplayRequest, WriteReplayRequest, RunFinished, Wait, Take, Fund, Unfunded, After,
      Finish, ledgers
<1>2. CASE Operator
  BY <1>2 DEF Operator, Prepare, Run, Repair, Respond, RespondWell, ledgers
<1>3. CASE Dies \/ UNCHANGED vars
  BY <1>3 DEF Dies, vars, ledgers
<1> QED
  BY <1>1, <1>2, <1>3 DEF Next

(* What a step may do to an item. *)
LEMMA ItemSteps ==
    ASSUME IInv, [Next]_vars, NEW n \in Models, NEW j \in Items
    PROVE  \/ state'[n][j] = state[n][j] /\ output'[n][j] = output[n][j]
           \/ /\ state[n][j] # "completed"
              /\ \/ state'[n][j] \in {"reserved", "in_flight", "uncertain", "failed"}
                 \/ /\ state'[n][j] = "completed" /\ state[n][j] = "result_saved"
                    /\ output'[n][j] = output[n][j]
                 \/ state'[n][j] \in {"result_saved", "completed"} /\ output'[n][j] \in {"good", "bad"}
              /\ state[n][j] = "reserved" /\ command.pc = "idle" => state'[n][j] = "reserved"
<1>1. /\ state \in [Models -> [Items -> ItemStates]]
      /\ output \in [Models -> [Items -> {"none", "good", "bad"}]]
  BY DEF IInv, TypeOK
<1>2. CASE UNCHANGED <<state, output>>
  BY <1>2
<1>3. CASE Enter
  <2>1. UNCHANGED output /\ command.pc = "enter"
    BY <1>3 DEF Enter, In
  <2>2. CASE state' = state
    BY <2>1, <2>2
  <2>3. CASE state' = [state EXCEPT ![m] = [b \in Items |-> Reopened(state[m][b])]]
    <3>1. state'[n][j] = state[n][j] \/ state'[n][j] = Reopened(state[n][j])
      BY <1>1, <2>3
    <3> QED
      BY <1>1, <2>1, <3>1 DEF Reopened, ItemStates
  <2> QED
    BY <1>3, <2>2, <2>3 DEF Enter
<1>4. ASSUME NEW v \in ItemStates, SetState(v), command.pc \in {"reserve", "start", "answer", "complete"}
      PROVE  /\ n = m /\ j = k => state'[n][j] = v /\ state[n][j] # "completed"
             /\ n # m \/ j # k => state'[n][j] = state[n][j]
  <2>1. m \in Models /\ k \in Items /\ state[m][k] # "completed"
    BY <1>4, Driven
  <2> QED
    BY <1>1, <1>4, <2>1, Nested DEF SetState
<1>5. CASE Reserve \/ Start
  BY <1>4, <1>5 DEF Reserve, Start, In, ItemStates
<1>6. CASE Complete
  BY <1>4, <1>6 DEF Complete, In, ItemStates, IInv, Driving
<1>7. ASSUME NEW result \in {"good", "bad", "failed", "uncertain"}, Answer(result)
      PROVE  \/ state'[n][j] = state[n][j] /\ output'[n][j] = output[n][j]
             \/ /\ state[n][j] # "completed" /\ command.pc = "answer"
                /\ \/ state'[n][j] \in {"uncertain", "failed"}
                   \/ state'[n][j] = "result_saved" /\ output'[n][j] \in {"good", "bad"}
  <2>1. command.pc = "answer" /\ m \in Models /\ k \in Items
    BY <1>7, Driven DEF Answer, In
  <2>2. CASE result \in {"failed", "uncertain"}
    BY <1>4, <1>7, <2>1, <2>2 DEF Answer, ItemStates
  <2>3. CASE result \in {"good", "bad"}
    <3>1. SetState("result_saved") /\ output' = [output EXCEPT ![m][k] = result]
      BY <1>7, <2>3 DEF Answer
    <3>2. /\ n = m /\ j = k => output'[n][j] = result
          /\ n # m \/ j # k => output'[n][j] = output[n][j]
      BY <1>1, <2>1, <3>1, Nested
    <3> QED
      BY <1>4, <2>1, <2>3, <3>1, <3>2 DEF ItemStates
  <2> QED
    BY <2>2, <2>3
<1>8. ASSUME NEW a \in Models, NEW b \in Items, RetryUnsent(a, b) \/ RecoverReceipt(a, b)
      PROVE  \/ state'[n][j] = state[n][j] /\ output'[n][j] = output[n][j]
             \/ /\ state[n][j] = "uncertain"
                /\ \/ state'[n][j] = "reserved"
                   \/ state'[n][j] = "completed" /\ output'[n][j] = "good"
  <2>1. state[a][b] = "uncertain"
    BY <1>8 DEF RetryUnsent, RecoverReceipt
  <2>2. CASE RetryUnsent(a, b)
    <3>1. state' = [state EXCEPT ![a][b] = "reserved"] /\ output' = output
      BY <2>2 DEF RetryUnsent
    <3> QED
      BY <1>1, <2>1, <3>1
  <2>3. CASE RecoverReceipt(a, b)
    <3>1. state' = [state EXCEPT ![a][b] = "completed"] /\ output' = [output EXCEPT ![a][b] = "good"]
      BY <2>3 DEF RecoverReceipt
    <3> QED
      BY <1>1, <2>1, <3>1
  <2> QED
    BY <1>8, <2>2, <2>3
<1> QED
  BY <1>2, <1>3, <1>5, <1>6, <1>7, <1>8, LedgerSteps

LEMMA JudgedStays == IInv /\ Judged /\ [Next]_vars => Judged'
<1> SUFFICES ASSUME IInv, Judged, [Next]_vars, NEW n \in Models, NEW j \in Items,
                    state'[n][j] \in {"result_saved", "completed"}
             PROVE  output'[n][j] \in {"good", "bad"}
  BY DEF Judged
<1> QED
  BY ItemSteps DEF Judged

(* Where a step leaves the command. *)
LEMMA Places ==
    ASSUME IInv, [Next]_vars
    PROVE  \/ command'.at = 1
           \/ command'.at = command.at /\ command'.waiting = command.waiting
           \/ In("loop") /\ Done(m) /\ NextModel(command.waiting)
           \/ In("loop") /\ NextModel(command.waiting \cup {m})
<1>1. ASSUME NEW outcome \in Outcomes, End(outcome) PROVE command'.at = 1
  BY <1>1, Ends
<1>2. ASSUME NEW pc \in Calm \cup Inside, Go(pc)
      PROVE  command'.at = command.at /\ command'.waiting = command.waiting
  BY <1>2, Moves
<1>3. CASE CreateLedger \/ Take
  BY <1>3 DEF CreateLedger, Take, IInv, Commands
<1>4. CASE RunFinished
  BY <1>4 DEF RunFinished, Judging, In, Done, AllCompleted, ValidOutputs
<1>5. CASE Wait
  BY <1>1, <1>5 DEF Wait, Judging, Outcomes
<1>6. CASE Step /\ ~(CreateLedger \/ Take \/ RunFinished \/ Wait)
  <2>1. CASE \E stage \in Stages : CreateReplayRequest(stage) \/ WriteReplayRequest(stage)
    BY <1>1, <1>2, <2>1 DEF CreateReplayRequest, WriteReplayRequest, Stages, Calm, Outcomes
  <2>2. CASE \E result \in {"good", "bad", "failed", "uncertain"} : Answer(result)
    BY <1>2, <2>2 DEF Answer, Inside, Calm
  <2>3. CASE WritePlan \/ StopInvalid \/ Finish
    BY <1>1, <2>3 DEF WritePlan, StopInvalid, Finish, Outcomes
  <2>4. CASE WriteApproval \/ CreateRun \/ Reserve \/ Fund \/ Unfunded \/ Start \/ Complete
    BY <1>2, <2>4 DEF WriteApproval, CreateRun, Reserve, Fund, Unfunded, Start, Complete, Inside, Calm
  <2>5. CASE Enter \/ After
    BY <1>1, <1>2, <2>5 DEF Enter, After, Outcomes, Calm
  <2> QED
    BY <1>6, <2>1, <2>2, <2>3, <2>4, <2>5 DEF Step
<1>7. CASE Operator
  <2>1. CASE Prepare
    BY <1>1, <1>2, <2>1 DEF Prepare, Outcomes, Calm
  <2>2. CASE Run
    BY <1>1, <1>2, <2>2 DEF Run, RecordApproval, Outcomes, Calm
  <2>3. CASE ~Prepare /\ ~Run
    BY <1>7, <2>3 DEF Operator, Repair, Respond, RespondWell, RetryUnsent, RecoverReceipt, Recovers
  <2> QED
    BY <2>1, <2>2, <2>3
<1>8. CASE Dies
  BY <1>1, <1>8 DEF Dies, Outcomes
<1>9. CASE UNCHANGED vars
  BY <1>9 DEF vars
<1> QED
  BY <1>3, <1>4, <1>5, <1>6, <1>7, <1>8, <1>9 DEF Next

LEMMA DoneStays == ASSUME IInv, [Next]_vars, NEW n \in Models, Done(n) PROVE Done(n)'
<1>1. ASSUME NEW j \in Items PROVE state'[n][j] = "completed" /\ output'[n][j] = "good"
  BY ItemSteps DEF Done
<1>2. request'[n]["revision"] = "whole"
  <2>1. request \in [Models -> [Stages -> FileStates]] /\ request[n]["revision"] = "whole"
    BY DEF IInv, TypeOK, Done
  <2>2. ASSUME NEW stage \in Stages, CreateReplayRequest(stage) \/ WriteReplayRequest(stage)
        PROVE  request'[n]["revision"] = "whole"
    <3>1. m \in Models
      BY <2>2, InModels DEF CreateReplayRequest, WriteReplayRequest, Judging, In, Inside, Stages
    <3>2. \/ request' = request
          \/ request' = [request EXCEPT ![m][stage] = "whole"]
          \/ request[m][stage] = "absent" /\ request' = [request EXCEPT ![m][stage] = "torn"]
      BY <2>2 DEF CreateReplayRequest, WriteReplayRequest
    <3> QED
      BY <2>1, <3>1, <3>2 DEF Stages
  <2>3. CASE UNCHANGED request
    BY <2>1, <2>3
  <2>4. CASE Step
    BY <2>2, <2>3, <2>4 DEF Step, WritePlan, WriteApproval, Enter, CreateRun, CreateLedger,
        StopInvalid, RunFinished, Wait, Take, Reserve, Fund, Unfunded, Start, Answer, Complete,
        After, Finish, files
  <2>5. CASE Operator
    BY <2>3, <2>5 DEF Operator, Prepare, Run, Repair, Respond, RespondWell, RetryUnsent,
        RecoverReceipt, Recovers
  <2>6. CASE Dies \/ UNCHANGED vars
    BY <2>3, <2>6 DEF Dies, vars, files
  <2> QED
    BY <2>4, <2>5, <2>6 DEF Next
<1> QED
  BY <1>1, <1>2 DEF Done

LEMMA PassedStays == IInv /\ Passed /\ [Next]_vars => Passed'
<1> SUFFICES ASSUME IInv, Passed, [Next]_vars, NEW i \in 1..Len(Order), i < command'.at
             PROVE  Order[i] \in command'.waiting \/ Done(Order[i])'
  BY DEF Passed
<1>1. Order[i] \in Models /\ i >= 1 /\ i \in Int
  BY PilotAssumption DEF Models
<1>2. ASSUME Done(Order[i]) PROVE Done(Order[i])'
  BY <1>1, <1>2, DoneStays
<1>3. CASE command'.at = 1
  BY <1>1, <1>3
<1>4. CASE command'.at = command.at /\ command'.waiting = command.waiting
  BY <1>2, <1>4 DEF Passed
<1>5. ASSUME NEW waiting, In("loop"), NextModel(waiting), command.waiting \subseteq waiting,
             Done(m) \/ m \in waiting
      PROVE  Order[i] \in command'.waiting \/ Done(Order[i])'
  <2>1. command'.at = command.at + 1 /\ command'.waiting = waiting
    BY <1>5 DEF NextModel, IInv, Commands
  <2>2. command.at \in Int
    BY DEF IInv, Commands
  <2>3. CASE i < command.at
    BY <1>2, <1>5, <2>1, <2>3 DEF Passed
  <2>4. CASE i = command.at
    BY <1>2, <1>5, <2>1, <2>4 DEF m
  <2> QED
    BY <1>1, <2>1, <2>2, <2>3, <2>4
<1> QED
  BY <1>3, <1>4, <1>5, Places

(* Which actions take a command to the steps of an item, and how it got there. *)
LEMMA Towards ==
    ASSUME IInv, [Next]_vars, command'.pc \in Inside
    PROVE  \/ command' = command /\ UNCHANGED <<state, funded, ceiling>>
           \/ Enter /\ Go("loop")
           \/ CreateLedger \/ Take
           \/ \E pc \in {"loop", "create", "draft", "revision"} :
                  Go(pc) /\ command.pc \in {"loop", "draft", "revision", "after"}
                  /\ UNCHANGED state
           \/ Reserve \/ Fund \/ Unfunded \/ Start \/ Complete
           \/ \E result \in {"good", "bad", "failed", "uncertain"} : Answer(result)
<1>1. ASSUME NEW outcome \in Outcomes, End(outcome) PROVE FALSE
  BY <1>1, Ends DEF Inside
<1>2. ASSUME NEW waiting, NextModel(waiting) PROVE FALSE
  BY <1>2 DEF NextModel, IInv, Commands, Inside
<1>3. ASSUME NEW pc \in {"enter", "prepare", "approve"}, Go(pc) PROVE FALSE
  BY <1>3, Moves DEF Inside, Calm
<1>4. CASE Enter
  BY <1>1, <1>4 DEF Enter, Outcomes
<1>5. CASE WritePlan \/ WriteApproval \/ StopInvalid \/ Finish \/ RunFinished \/ Wait \/ Dies
  BY <1>1, <1>2, <1>3, <1>5 DEF WritePlan, WriteApproval, StopInvalid, Finish, RunFinished, Wait,
      Dies, Outcomes
<1>6. CASE CreateRun
  BY <1>6 DEF CreateRun, In
<1>7. CASE After
  BY <1>1, <1>7 DEF After, In, Outcomes, ledgers
<1>8. CASE \E stage \in Stages : CreateReplayRequest(stage) \/ WriteReplayRequest(stage)
  BY <1>1, <1>8 DEF CreateReplayRequest, WriteReplayRequest, Judging, In, Stages, Outcomes, ledgers
<1>9. CASE Prepare \/ Run
  BY <1>1, <1>3, <1>9 DEF Prepare, Run, RecordApproval, Outcomes
<1>10. CASE Repair \/ \E n \in Models : Respond(n) \/ RespondWell(n)
  BY <1>10 DEF Repair, Respond, RespondWell, ledgers, campaign
<1>11. CASE \E n \in Models, j \in Items : RetryUnsent(n, j) \/ RecoverReceipt(n, j)
  BY <1>11 DEF RetryUnsent, RecoverReceipt, Recovers, In, Inside
<1>12. CASE UNCHANGED vars
  BY <1>12 DEF vars, ledgers, campaign
<1> QED
  BY <1>4, <1>5, <1>6, <1>7, <1>8, <1>9, <1>10, <1>11, <1>12 DEF Next, Step, Operator

LEMMA Taken ==
    ASSUME IInv, Take
    PROVE  /\ command'.pc = "reserve" /\ command'.before \in {"planned", "reserved"}
           /\ command'.at = command.at /\ command.pc = "loop" /\ state' = state
<1>1. command.pc = "loop" /\ state' = state /\ m \in Models
  BY InModels DEF Take, Judging, In, ledgers, Inside
<1>2. PICK j \in Items :
          /\ state[m][j] # "completed"
          /\ command' = [command EXCEPT !.pc = "reserve", !.item = j, !.before = state[m][j]]
  BY DEF Take
<1>3. state[m][j] \in {"planned", "reserved"}
  BY <1>2 DEF Take, ValidOutputs
<1> QED
  BY <1>1, <1>2, <1>3 DEF IInv, Commands

LEMMA MakesLedger ==
    ASSUME IInv, CreateLedger
    PROVE  /\ command'.pc = "reserve" /\ command'.before = "created"
           /\ command'.at = command.at /\ command.pc = "create" /\ state' = state
BY DEF CreateLedger, In, IInv, Commands

LEMMA DecidedStays == IInv /\ Decided /\ [Next]_vars => Decided'
<1> SUFFICES ASSUME IInv, Decided, [Next]_vars,
                    command'.pc \in {"reserve", "fund", "start", "answer", "complete"}
             PROVE  command'.before \in {"created", "planned", "reserved"}
  BY DEF Decided
<1>1. CASE command' = command
  BY <1>1 DEF Decided
<1>2. CASE CreateLedger \/ Take
  BY <1>2, Taken, MakesLedger
<1>3. ASSUME NEW pc \in {"loop", "create", "draft", "revision", "after"}, Go(pc) PROVE FALSE
  BY <1>3, Moves DEF Inside
<1>4. CASE Reserve \/ Fund \/ Start
  BY <1>4, Moves DEF Reserve, Fund, Start, In, Inside, Decided
<1>5. ASSUME NEW result \in {"good", "bad", "failed", "uncertain"}, Answer(result)
      PROVE  command.pc = "answer" /\ command'.before = command.before
  BY <1>5, Moves DEF Answer, In, Inside
<1>6. CASE Unfunded \/ Complete
  BY <1>3, <1>6 DEF Unfunded, Complete
<1> QED
  BY <1>1, <1>2, <1>3, <1>4, <1>5, <1>6, Towards DEF Decided, Inside

LEMMA QuietStays == IInv /\ Quiet /\ [Next]_vars => Quiet'
<1> SUFFICES ASSUME IInv, Quiet, [Next]_vars, command'.pc \in Inside, NEW j \in Items,
                    state'[m'][j] \in {"in_flight", "result_saved"}
             PROVE  j = k' /\ command'.pc \in {"answer", "complete"}
  BY DEF Quiet
<1>1. CASE command' = command /\ state' = state
  BY <1>1 DEF Quiet, m, k
<1>2. CASE Enter /\ Go("loop")
  <2>1. command'.at = command.at /\ command'.pc = "loop"
    BY <1>2, Moves DEF Calm
  <2>2. m' = m
    BY <2>1 DEF m
  <2>3. state' = [state EXCEPT ![m] = [b \in Items |-> Reopened(state[m][b])]]
    <3>1. ~End("refused")
      BY <2>1, Ends DEF Outcomes
    <3> QED
      BY <1>2, <3>1 DEF Enter
  <2>4. m \in Models
    <3>1. command.at \in DOMAIN Order
      BY <1>2, PilotAssumption DEF Enter, IInv, Commands
    <3> QED
      BY <3>1 DEF m, Models
  <2>5. state'[m][j] = Reopened(state[m][j]) /\ state[m][j] \in ItemStates
    BY <2>3, <2>4 DEF IInv, TypeOK
  <2> QED
    BY <2>2, <2>5 DEF Reopened, ItemStates
<1>3. ASSUME command'.at = command.at, state' = state, command.pc \in Inside \ {"answer", "complete"}
      PROVE  FALSE
  BY <1>3 DEF Quiet, m
<1>4. CASE CreateLedger \/ Take
  BY <1>3, <1>4, Taken, MakesLedger DEF Inside
<1>5. ASSUME NEW pc \in {"loop", "create", "draft", "revision"}, Go(pc),
             command.pc \in {"loop", "draft", "revision", "after"}, state' = state
      PROVE  FALSE
  BY <1>3, <1>5, Moves DEF Inside
<1>6. CASE Fund \/ Unfunded
  <2>1. command.pc = "fund" /\ state' = state /\ (Go("start") \/ Go("after"))
    BY <1>6 DEF Fund, Unfunded, In, ledgers
  <2> QED
    BY <1>3, <2>1, Moves DEF Inside
<1>7. ASSUME NEW v \in ItemStates, SetState(v), NEW pc \in Inside, Go(pc),
             command.pc \in {"reserve", "start", "answer", "complete"}
      PROVE  j = k' /\ command'.pc = pc /\ v \in {"in_flight", "result_saved"}
  <2>1. command'.at = command.at /\ command'.item = command.item /\ command'.pc = pc
    BY <1>7, Moves
  <2>2. m' = m /\ k' = k
    BY <2>1 DEF m, k
  <2>3. m \in Models /\ k \in Items
    BY <1>7, Driven
  <2>4. state'[m][k] = v /\ (j # k => state'[m][j] = state[m][j])
    BY <1>7, <2>3, Nested DEF SetState, IInv, TypeOK
  <2>5. j = k
    BY <1>7, <2>2, <2>4 DEF Quiet, Inside
  <2> QED
    BY <2>1, <2>2, <2>4, <2>5
<1>8. CASE Reserve \/ Start \/ Complete
  BY <1>7, <1>8 DEF Reserve, Start, Complete, In, Inside, ItemStates
<1>9. ASSUME NEW result \in {"good", "bad", "failed", "uncertain"}, Answer(result)
      PROVE  j = k' /\ command'.pc \in {"answer", "complete"}
  <2>1. CASE result \in {"good", "bad"}
    BY <1>7, <1>9, <2>1 DEF Answer, In, Inside, ItemStates
  <2>2. CASE result \in {"failed", "uncertain"}
    BY <1>7, <1>9, <2>2 DEF Answer, In, Inside, ItemStates
  <2> QED
    BY <2>1, <2>2
<1> QED
  BY <1>1, <1>2, <1>4, <1>5, <1>6, <1>8, <1>9, Towards

(* An item that a command gave up is as it was decided on only when the        *)
(* campaign had no room for it.                                             *)
LEMMA AfterStays ==
    IInv /\ Decided /\ Verdict /\ [Next]_vars =>
        (command.pc = "after" /\ Unchanged => Exhausted(m, k))'
<1> SUFFICES ASSUME IInv, Decided, Verdict, [Next]_vars, command'.pc = "after", Unchanged'
             PROVE  Exhausted(m, k)'
  OBVIOUS
<1>1. CASE command' = command /\ UNCHANGED <<state, funded, ceiling>>
  BY <1>1 DEF Verdict, Unchanged, Exhausted, m, k
<1>2. ASSUME NEW pc \in {"loop", "create", "draft", "revision", "fund", "start", "answer", "complete"},
             Go(pc)
      PROVE  FALSE
  BY <1>2, Moves DEF Inside
<1>3. CASE CreateLedger \/ Take
  BY <1>3, Taken, MakesLedger
<1>4. CASE Unfunded
  <2>1. command.pc = "fund" /\ ~Room /\ UNCHANGED <<state, funded, ceiling>> /\ Go("after")
    BY <1>4 DEF Unfunded, In, ledgers, campaign
  <2>2. m' = m /\ k' = k
    BY <2>1, Moves DEF Inside, m, k
  <2>3. state[m][k] = "reserved"
    BY <2>1 DEF IInv, Driving
  <2>4. Cardinality(funded) \in Nat /\ ceiling \in Nat
    BY FS_CardinalityType, PilotAssumption DEF IInv, TypeOK
  <2> QED
    BY <2>1, <2>2, <2>3, <2>4 DEF Exhausted, Room
<1>5. ASSUME NEW v \in {"failed", "uncertain", "completed"}, SetState(v), Go("after"),
             command.pc \in {"answer", "complete"}
      PROVE  FALSE
  <2>1. m' = m /\ k' = k /\ command'.before = command.before
    BY <1>5, Moves DEF Inside, m, k
  <2>2. command.before \in {"created", "planned", "reserved"}
    BY <1>5 DEF Decided
  <2>3. m \in Models /\ k \in Items /\ v \in ItemStates
    BY <1>5, Driven DEF ItemStates
  <2>4. state'[m][k] = v
    BY <1>5, <2>3, Nested DEF SetState, IInv, TypeOK
  <2> QED
    BY <2>1, <2>2, <2>4 DEF Unchanged
<1>6. CASE Complete
  BY <1>5, <1>6 DEF Complete, In
<1>7. ASSUME NEW result \in {"good", "bad", "failed", "uncertain"}, Answer(result) PROVE FALSE
  BY <1>2, <1>5, <1>7 DEF Answer, In
<1>8. CASE Reserve \/ Fund \/ Start
  BY <1>2, <1>8 DEF Reserve, Fund, Start
<1> QED
  BY <1>1, <1>2, <1>3, <1>4, <1>6, <1>7, <1>8, Towards DEF Inside

(* Only the end of a command changes what it said. *)
LEMMA Endings ==
    ASSUME IInv, [Next]_vars, command'.pc = "idle",
           command'.before \in {"complete", "admission_stopped"}
    PROVE  \/ command' = command /\ UNCHANGED <<funded, ceiling>>
           \/ Finish
           \/ After /\ End("admission_stopped")
<1>1. ASSUME NEW outcome \in Outcomes \ {"complete", "admission_stopped"}, End(outcome) PROVE FALSE
  BY <1>1, Ends
<1>2. ASSUME NEW pc \in (Calm \cup Inside) \ {"idle"}, Go(pc) PROVE FALSE
  BY <1>2, Moves
<1>3. ASSUME NEW waiting, NextModel(waiting) PROVE FALSE
  BY <1>3 DEF NextModel, IInv, Commands
<1>4. CASE CreateLedger \/ Take
  BY <1>4, Taken, MakesLedger
<1>5. CASE \E stage \in Stages : CreateReplayRequest(stage) \/ WriteReplayRequest(stage)
  BY <1>1, <1>2, <1>5 DEF CreateReplayRequest, WriteReplayRequest, Stages, Outcomes, Calm
<1>6. CASE \E result \in {"good", "bad", "failed", "uncertain"} : Answer(result)
  BY <1>2, <1>6 DEF Answer, Inside, Calm
<1>7. CASE WritePlan \/ WriteApproval \/ Enter \/ CreateRun \/ StopInvalid \/ RunFinished \/ Wait
  BY <1>1, <1>2, <1>3, <1>7 DEF WritePlan, WriteApproval, Enter, CreateRun, StopInvalid,
      RunFinished, Wait, Outcomes, Calm, Inside
<1>8. CASE Reserve \/ Fund \/ Unfunded \/ Start \/ Complete
  BY <1>2, <1>8 DEF Reserve, Fund, Unfunded, Start, Complete, Calm, Inside
<1>9. CASE After
  BY <1>2, <1>9 DEF After, Calm
<1>10. CASE Prepare \/ Run
  BY <1>1, <1>2, <1>10 DEF Prepare, Run, RecordApproval, Outcomes, Calm
<1>11. CASE Operator /\ ~Prepare /\ ~Run
  BY <1>11 DEF Operator, Repair, Respond, RespondWell, RetryUnsent, RecoverReceipt, Recovers, campaign
<1>12. CASE Dies
  BY <1>1, <1>12 DEF Dies, Outcomes
<1>13. CASE UNCHANGED vars
  BY <1>13 DEF vars, campaign
<1> QED
  BY <1>4, <1>5, <1>6, <1>7, <1>8, <1>9, <1>10, <1>11, <1>12, <1>13 DEF Next, Step

LEMMA VerdictStays == IInv /\ Passed /\ Decided /\ Verdict /\ [Next]_vars => Verdict'
<1> SUFFICES ASSUME IInv, Passed, Decided, Verdict, [Next]_vars PROVE Verdict'
  OBVIOUS
<1>1. (command.pc = "after" /\ Unchanged => Exhausted(m, k))'
  BY AfterStays
<1>2. ASSUME command'.pc = "idle", command'.before = "admission_stopped"
      PROVE  \E n \in Models, j \in Items : Exhausted(n, j)'
  <2>1. CASE command' = command /\ UNCHANGED <<funded, ceiling>>
    <3>1. PICK n \in Models, j \in Items : Exhausted(n, j)
      BY <1>2, <2>1 DEF Verdict
    <3>2. state'[n][j] = "reserved"
      BY <1>2, <2>1, <3>1, ItemSteps DEF Exhausted
    <3> QED
      BY <2>1, <3>1, <3>2 DEF Exhausted
  <2>2. CASE Finish
    <3>1. End("complete") \/ End("waiting")
      BY <2>2 DEF Finish
    <3> QED
      BY <1>2, <3>1, Ends DEF Outcomes
  <2>3. CASE After /\ End("admission_stopped")
    <3>1. ~Go("loop")
      BY <1>2, Moves DEF Calm
    <3>2. command.pc = "after" /\ Unchanged /\ UNCHANGED <<state, funded, ceiling>>
      BY <2>3, <3>1 DEF After, In, ledgers, campaign
    <3>3. Exhausted(m, k) /\ m \in Models /\ k \in Items
      BY <3>2, InModels DEF Verdict, Inside
    <3> QED
      BY <3>2, <3>3 DEF Exhausted
  <2> QED
    BY <1>2, <2>1, <2>2, <2>3, Endings
<1>3. ASSUME command'.pc = "idle", command'.before = "complete", NEW n \in Models
      PROVE  Done(n)'
  <2>1. CASE command' = command
    BY <1>3, <2>1, DoneStays DEF Verdict
  <2>2. CASE Finish
    <3>1. command.waiting = {} /\ command.at > Len(Order)
      BY <1>3, <2>2, Ends DEF Finish, Outcomes
    <3>2. PICK i \in 1..Len(Order) : n = Order[i]
      BY PilotAssumption DEF Models
    <3>3. i < command.at
      BY <3>1, PilotAssumption DEF IInv, Commands
    <3>4. Done(n)
      BY <3>1, <3>2, <3>3 DEF Passed
    <3> QED
      BY <3>4, DoneStays
  <2>3. CASE After /\ End("admission_stopped")
    BY <1>3, <2>3, Ends DEF Outcomes
  <2> QED
    BY <1>3, <2>1, <2>2, <2>3, Endings
<1> QED
  BY <1>1, <1>2, <1>3 DEF Verdict

LEMMA HonestInit == Init => Honest
BY DEF Init, Honest, Judged, Quiet, Passed, Decided, Verdict, Idle, Inside

LEMMA HonestStays == IInv /\ Honest /\ [Next]_vars => Honest'
BY JudgedStays, QuietStays, PassedStays, DecidedStays, VerdictStays DEF Honest

(* In every state of the pilot what the command has established about the runs  *)
(* it went through holds of the ledgers, up to the outcome it reports.       *)
THEOREM HonestAlways == Spec => [](IInv /\ Honest)
<1>1. Init => IInv /\ Honest
  BY InitInvariant, HonestInit
<1>2. IInv /\ Honest /\ [Next]_vars => (IInv /\ Honest)'
  BY NextKeeps, HonestStays
<1> QED
  BY <1>1, <1>2, PTL DEF Spec

(* How pilot.run says that it ended is how it ended: it stops for admission   *)
(* only with an exhausted campaign, and is complete only with every run.      *)
THEOREM EndsAreHonest == Spec => []OutcomeIsHonest
<1>1. ASSUME IInv, Honest PROVE OutcomeIsHonest
  BY <1>1 DEF OutcomeIsHonest, Honest, Verdict, Exhausted, Done, In
<1> QED
  BY <1>1, HonestAlways, PTL

(* _validate_outputs stops a run for an interrupted, failed or invalid item,   *)
(* not for what a death left unfinished.                                     *)
THEOREM StopsHaveCause == Spec => StoppedForCause
<1> DEFINE Cause == \E j \in Items :
        \/ state[m][j] \in {"uncertain", "failed"}
        \/ state[m][j] = "completed" /\ output[m][j] = "bad"
<1>1. ASSUME IInv, Honest, StopInvalid PROVE Cause
  <2>1. command.pc = "loop" /\ m \in Models
    BY <1>1, InModels DEF StopInvalid, Judging, In, Inside
  <2>2. PICK j \in Items :
            \/ state[m][j] \notin {"planned", "reserved", "completed"}
            \/ state[m][j] = "completed" /\ output[m][j] # "good"
    BY <1>1 DEF StopInvalid, ValidOutputs
  <2>3. state[m][j] \in ItemStates /\ state[m][j] \notin {"in_flight", "result_saved"}
    BY <1>1, <2>1 DEF IInv, TypeOK, Honest, Quiet, Inside
  <2>4. state[m][j] = "completed" => output[m][j] \in {"good", "bad"}
    BY <1>1, <2>1 DEF Honest, Judged
  <2> QED
    BY <2>2, <2>3, <2>4 DEF ItemStates
<1>2. IInv /\ Honest => [StopInvalid => Cause]_vars
  BY <1>1
<1> QED
  BY <1>2, HonestAlways, PTL DEF StoppedForCause

-----------------------------------------------------------------------------
(* The refinement: what the rows of Dispatch say of an item, and how they     *)
(* change with it.                                                          *)
LEMMA Entry ==
    ASSUME NEW n \in Models, NEW j \in Items
    PROVE  /\ <<n, j>> \in Rows
           /\ Phase[<<n, j>>] = PhaseOf(state[n][j])
           /\ Sends[<<n, j>>] = sent[n][j]
BY DEF Rows, Phase, Sends

LEMMA SamePhase == UNCHANGED state => UNCHANGED Phase
BY DEF Phase

LEMMA SameAnswers == UNCHANGED output => UNCHANGED Answers
BY DEF Answers

LEMMA SameSends == UNCHANGED sent => UNCHANGED Sends
BY DEF Sends

(* One item of one run changes, and so does its row. *)
LEMMA RowMoves ==
    ASSUME IInv, NEW n \in Models, NEW j \in Items, NEW v,
           state' = [state EXCEPT ![n][j] = v]
    PROVE  Phase' = [Phase EXCEPT ![<<n, j>>] = PhaseOf(v)]
<1>1. state \in [Models -> [Items -> ItemStates]]
  BY DEF IInv, TypeOK
<1>2. ASSUME NEW w \in Rows PROVE Phase'[w] = IF w = <<n, j>> THEN PhaseOf(v) ELSE Phase[w]
  <2>1. PICK a \in Models, b \in Items : w = <<a, b>>
    BY DEF Rows
  <2>2. state'[a][b] = IF a = n /\ b = j THEN v ELSE state[a][b]
    BY <1>1, <2>1
  <2>3. Phase'[w] = PhaseOf(state'[a][b]) /\ Phase[w] = PhaseOf(state[a][b])
    BY <2>1 DEF Phase
  <2> QED
    BY <2>1, <2>2, <2>3
<1>3. Phase' = [w \in Rows |-> Phase'[w]] /\ Phase = [w \in Rows |-> Phase[w]]
  BY DEF Phase
<1> QED
  BY <1>2, <1>3

LEMMA AnswerMoves ==
    ASSUME IInv, NEW n \in Models, NEW j \in Items, NEW v,
           output' = [output EXCEPT ![n][j] = v]
    PROVE  Answers' = [Answers EXCEPT ![<<n, j>>] = v]
<1>1. output \in [Models -> [Items -> {"none", "good", "bad"}]]
  BY DEF IInv, TypeOK
<1>2. ASSUME NEW w \in Rows PROVE Answers'[w] = IF w = <<n, j>> THEN v ELSE Answers[w]
  <2>1. PICK a \in Models, b \in Items : w = <<a, b>>
    BY DEF Rows
  <2>2. output'[a][b] = IF a = n /\ b = j THEN v ELSE output[a][b]
    BY <1>1, <2>1
  <2> QED
    BY <2>1, <2>2 DEF Answers
<1>3. Answers' = [w \in Rows |-> Answers'[w]] /\ Answers = [w \in Rows |-> Answers[w]]
  BY DEF Answers
<1> QED
  BY <1>2, <1>3

LEMMA SendMoves ==
    ASSUME IInv, NEW n \in Models, NEW j \in Items, sent' = [sent EXCEPT ![n][j] = @ + 1]
    PROVE  Sends' = [Sends EXCEPT ![<<n, j>>] = @ + 1]
<1>1. sent \in [Models -> [Items -> 0..2]]
  BY DEF IInv, TypeOK
<1>2. ASSUME NEW w \in Rows PROVE Sends'[w] = IF w = <<n, j>> THEN Sends[w] + 1 ELSE Sends[w]
  <2>1. PICK a \in Models, b \in Items : w = <<a, b>>
    BY DEF Rows
  <2>2. sent'[a][b] = IF a = n /\ b = j THEN sent[a][b] + 1 ELSE sent[a][b]
    BY <1>1, <2>1
  <2> QED
    BY <2>1, <2>2 DEF Sends
<1>3. Sends' = [w \in Rows |-> Sends'[w]] /\ Sends = [w \in Rows |-> Sends[w]]
  BY DEF Sends
<1> QED
  BY <1>2, <1>3

(* A first request or one that an operator put back sends its row. *)
LEMMA StartSends == IInv /\ Start => D!Next
<1> SUFFICES ASSUME IInv, Start PROVE D!Next
  OBVIOUS
<1> DEFINE w == <<m, k>>
<1>1. m \in Models /\ k \in Items /\ w \in Rows
  BY InModels, Entry DEF Start, In, Inside
<1>2. state[m][k] = "reserved" /\ Ready(m, k)
  BY DEF IInv, Driving, Start, In
<1>3. sent[m][k] <= 1
  BY <1>1, <1>2 DEF IInv, Accounted
<1>4. Phase[w] = "idle" /\ Sends[w] < 2
  <2>1. sent[m][k] \in 0..2
    BY <1>1 DEF IInv, TypeOK
  <2> QED
    BY <1>1, <1>2, <1>3, <2>1, Entry DEF PhaseOf
<1>5. ASSUME NEW d \in {m} \X Items, d[2] = k - 1 PROVE Phase[d] = "settled"
  <2>1. PICK i \in Items : d = <<m, i>> /\ i < k
    BY <1>1, <1>5 DEF Items
  <2>2. state[m][i] = "completed"
    BY <1>2, <2>1 DEF Ready
  <2> QED
    BY <1>1, <2>1, <2>2, Entry DEF PhaseOf
<1>6. Phase' = [Phase EXCEPT ![w] = "sending"]
  <2>1. PhaseOf("in_flight") = "sending"
    BY DEF PhaseOf
  <2>2. state' = [state EXCEPT ![m][k] = "in_flight"]
    BY DEF Start, SetState
  <2>3. Phase' = [Phase EXCEPT ![<<m, k>>] = PhaseOf("in_flight")]
    BY <1>1, <2>2, RowMoves
  <2> QED
    BY <2>1, <2>3
<1>7. Sends' = [Sends EXCEPT ![w] = @ + 1] /\ UNCHANGED Answers
  BY <1>1, SendMoves, SameAnswers DEF Start
<1>8. D!Send(w)
  BY <1>1, <1>4, <1>5, <1>6, <1>7 DEF D!Send
<1> QED
  BY <1>1, <1>8 DEF D!Next

(* What a step does to the row of one item. *)
LEMMA Settles ==
    ASSUME IInv, NEW n \in Models, NEW j \in Items, NEW r \in {"good", "bad"},
           NEW v \in {"result_saved", "completed"},
           state[n][j] \in {"in_flight", "uncertain"},
           state' = [state EXCEPT ![n][j] = v],
           output' = [output EXCEPT ![n][j] = r], UNCHANGED sent
    PROVE  D!Next
<1>1. <<n, j>> \in Rows /\ Phase[<<n, j>>] \in {"sending", "unknown"}
  BY Entry DEF PhaseOf
<1>2. Phase' = [Phase EXCEPT ![<<n, j>>] = "settled"]
  <2>1. PhaseOf(v) = "settled"
    BY DEF PhaseOf
  <2>2. Phase' = [Phase EXCEPT ![<<n, j>>] = PhaseOf(v)]
    BY RowMoves
  <2> QED
    BY <2>1, <2>2
<1>3. Answers' = [Answers EXCEPT ![<<n, j>>] = r] /\ UNCHANGED Sends
  BY AnswerMoves, SameSends
<1>4. D!Settle(<<n, j>>, r)
  BY <1>1, <1>2, <1>3 DEF D!Settle
<1> QED
  BY <1>1, <1>4 DEF D!Next

LEMMA Stays ==
    ASSUME IInv, NEW n \in Models, NEW j \in Items, NEW v,
           state' = [state EXCEPT ![n][j] = v], PhaseOf(v) = PhaseOf(state[n][j]),
           UNCHANGED <<output, sent>>
    PROVE  UNCHANGED D!vars
<1>1. Phase' = [Phase EXCEPT ![<<n, j>>] = PhaseOf(v)]
  BY RowMoves
<1>2. Phase = [w \in Rows |-> Phase[w]] /\ Phase[<<n, j>>] = PhaseOf(v)
  BY Entry DEF Phase
<1>3. UNCHANGED Phase
  BY <1>1, <1>2
<1> QED
  BY <1>3, SameAnswers, SameSends DEF D!vars

LEMMA AnswerSettles ==
    IInv /\ (\E result \in {"good", "bad", "failed", "uncertain"} : Answer(result)) => D!Next
<1> SUFFICES ASSUME IInv, NEW result \in {"good", "bad", "failed", "uncertain"}, Answer(result)
    PROVE D!Next
  OBVIOUS
<1>1. m \in Models /\ k \in Items /\ <<m, k>> \in Rows
  BY InModels, Entry DEF Answer, In, Inside
<1>2. state[m][k] = "in_flight"
  BY DEF IInv, Driving, Answer, In
<1>3. Phase[<<m, k>>] = "sending"
  BY <1>1, <1>2, Entry DEF PhaseOf
<1>4. CASE result \in {"good", "bad"}
  <2>1. /\ state' = [state EXCEPT ![m][k] = "result_saved"]
        /\ output' = [output EXCEPT ![m][k] = result] /\ UNCHANGED sent
    BY <1>4 DEF Answer, SetState
  <2> QED
    BY <1>1, <1>2, <1>4, <2>1, Settles
<1>5. CASE result \in {"failed", "uncertain"}
  <2>1. /\ state' = [state EXCEPT ![m][k] = result]
        /\ UNCHANGED output /\ UNCHANGED sent
    BY <1>5 DEF Answer, SetState
  <2>2. Phase' = [Phase EXCEPT ![<<m, k>>] = PhaseOf(result)]
    BY <1>1, <2>1, RowMoves
  <2>3. UNCHANGED <<Answers, Sends>>
    BY <2>1, SameAnswers, SameSends
  <2>4. CASE result = "failed"
    <3>1. Phase' = [Phase EXCEPT ![<<m, k>>] = "closed"]
      BY <2>2, <2>4 DEF PhaseOf
    <3>2. D!Close(<<m, k>>)
      BY <1>3, <2>3, <3>1 DEF D!Close
    <3> QED
      BY <1>1, <3>2 DEF D!Next
  <2>5. CASE result = "uncertain"
    <3>1. Phase' = [Phase EXCEPT ![<<m, k>>] = "unknown"]
      BY <2>2, <2>5 DEF PhaseOf
    <3>2. Phase' = [w \in Rows |-> IF w \in {<<m, k>>} THEN "unknown" ELSE Phase[w]]
      BY <3>1 DEF Phase
    <3>3. D!Interrupt({<<m, k>>})
      BY <1>3, <2>3, <3>2 DEF D!Interrupt
    <3> QED
      BY <1>1, <3>3 DEF D!Next
  <2> QED
    BY <1>5, <2>4, <2>5
<1> QED
  BY <1>4, <1>5

LEMMA CompleteStays == IInv /\ Complete => UNCHANGED D!vars
<1> SUFFICES ASSUME IInv, Complete PROVE UNCHANGED D!vars
  OBVIOUS
<1>1. m \in Models /\ k \in Items
  BY InModels DEF Complete, In, Inside
<1>2. state[m][k] = "result_saved"
  BY DEF IInv, Driving, Complete, In
<1>3. PhaseOf("completed") = PhaseOf(state[m][k])
  BY <1>2 DEF PhaseOf
<1>4. state' = [state EXCEPT ![m][k] = "completed"] /\ UNCHANGED <<output, sent>>
  BY DEF Complete, SetState
<1> QED
  BY <1>1, <1>3, <1>4, Stays

LEMMA ReserveStays == IInv /\ Reserve => UNCHANGED D!vars
<1> SUFFICES ASSUME IInv, Reserve PROVE UNCHANGED D!vars
  OBVIOUS
<1>1. m \in Models /\ k \in Items
  BY InModels DEF Reserve, In, Inside
<1>2. state[m][k] \in {"planned", "reserved"}
  BY DEF IInv, Driving, Reserve, In
<1>3. PhaseOf("reserved") = PhaseOf(state[m][k])
  BY <1>2 DEF PhaseOf
<1>4. state' = [state EXCEPT ![m][k] = "reserved"] /\ UNCHANGED <<output, sent>>
  BY DEF Reserve, SetState
<1> QED
  BY <1>1, <1>3, <1>4, Stays

LEMMA RecoverySettles ==
    IInv /\ (\E n \in Models, j \in Items : RetryUnsent(n, j) \/ RecoverReceipt(n, j)) => D!Next
<1> SUFFICES ASSUME IInv, NEW n \in Models, NEW j \in Items,
                    RetryUnsent(n, j) \/ RecoverReceipt(n, j)
    PROVE D!Next
  OBVIOUS
<1>1. CASE RetryUnsent(n, j)
  <2>1. /\ state[n][j] = "uncertain" /\ sent[n][j] = 1
        /\ state' = [state EXCEPT ![n][j] = "reserved"]
        /\ UNCHANGED output /\ UNCHANGED sent
    BY <1>1 DEF RetryUnsent, Recovers
  <2>2. <<n, j>> \in Rows /\ Phase[<<n, j>>] = "unknown" /\ Sends[<<n, j>>] = 1
    BY <2>1, Entry DEF PhaseOf
  <2>3. state' = [state EXCEPT ![n][j] = "reserved"]
    BY <2>1
  <2>4. Phase' = [Phase EXCEPT ![<<n, j>>] = PhaseOf("reserved")]
    BY <2>3, RowMoves
  <2>5. Phase' = [Phase EXCEPT ![<<n, j>>] = "idle"]
    BY <2>4 DEF PhaseOf
  <2>6. D!Reopen(<<n, j>>)
    BY <2>1, <2>2, <2>5, SameAnswers, SameSends DEF D!Reopen
  <2> QED
    BY <2>2, <2>6 DEF D!Next
<1>2. CASE RecoverReceipt(n, j)
  <2>1. /\ state[n][j] = "uncertain"
        /\ state' = [state EXCEPT ![n][j] = "completed"]
        /\ output' = [output EXCEPT ![n][j] = "good"] /\ UNCHANGED sent
    BY <1>2 DEF RecoverReceipt, Recovers
  <2> QED
    BY <2>1, Settles
<1> QED
  BY <1>1, <1>2

(* Entering a run interrupts, all at once, what was in flight in it. *)
LEMMA EnterInterrupts == IInv /\ Enter => D!Next \/ UNCHANGED D!vars
<1> SUFFICES ASSUME IInv, Enter PROVE D!Next \/ UNCHANGED D!vars
  OBVIOUS
<1> DEFINE Cut == {w \in Rows : w[1] = m /\ state[w[1]][w[2]] = "in_flight"}
<1>1. UNCHANGED <<Answers, Sends>>
  BY SameAnswers, SameSends DEF Enter
<1>2. state \in [Models -> [Items -> ItemStates]]
  BY DEF IInv, TypeOK
<1>3. CASE UNCHANGED state
  BY <1>1, <1>3, SamePhase DEF D!vars
<1>4. CASE state' = [state EXCEPT ![m] = [j \in Items |-> Reopened(state[m][j])]]
  <2>1. ASSUME NEW w \in Rows PROVE Phase'[w] = IF w \in Cut THEN "unknown" ELSE Phase[w]
    <3>1. PICK a \in Models, b \in Items : w = <<a, b>>
      BY DEF Rows
    <3>2. state'[a][b] = IF a = m THEN Reopened(state[a][b]) ELSE state[a][b]
      BY <1>2, <1>4, <3>1
    <3>3. Phase'[w] = PhaseOf(state'[a][b]) /\ Phase[w] = PhaseOf(state[a][b])
      BY <3>1 DEF Phase
    <3>4. w \in Cut <=> a = m /\ state[a][b] = "in_flight"
      BY <3>1
    <3>5. CASE state[a][b] = "in_flight"
      BY <3>2, <3>3, <3>4, <3>5 DEF Reopened, PhaseOf
    <3>6. CASE state[a][b] # "in_flight"
      BY <3>2, <3>3, <3>4, <3>6 DEF Reopened, PhaseOf
    <3> QED
      BY <3>5, <3>6
  <2>2. Phase' = [w \in Rows |-> IF w \in Cut THEN "unknown" ELSE Phase[w]]
    BY <2>1 DEF Phase
  <2>3. \A w \in Cut : Phase[w] = "sending"
    BY DEF Phase, PhaseOf
  <2>4. CASE Cut = {}
    <3>1. UNCHANGED Phase
      BY <2>2, <2>4 DEF Phase
    <3> QED
      BY <1>1, <3>1 DEF D!vars
  <2>5. CASE Cut # {}
    <3>1. D!Interrupt(Cut)
      BY <1>1, <2>2, <2>3, <2>5 DEF D!Interrupt
    <3>2. Cut \in SUBSET Rows
      OBVIOUS
    <3> QED
      BY <3>1, <3>2 DEF D!Next
  <2> QED
    BY <2>4, <2>5
<1> QED
  BY <1>3, <1>4 DEF Enter

LEMMA StepDispatches == IInv /\ [Next]_vars => [D!Next]_(D!vars)
<1> SUFFICES ASSUME IInv, [Next]_vars PROVE D!Next \/ UNCHANGED D!vars
  OBVIOUS
<1>1. ASSUME UNCHANGED <<state, output, sent>> PROVE UNCHANGED D!vars
  BY <1>1, SamePhase, SameAnswers, SameSends DEF D!vars
<1>2. CASE WritePlan \/ WriteApproval \/ CreateRun \/ CreateLedger \/ StopInvalid
  BY <1>1, <1>2 DEF WritePlan, WriteApproval, CreateRun, CreateLedger, StopInvalid, ledgers
<1>3. CASE \E stage \in Stages : CreateReplayRequest(stage) \/ WriteReplayRequest(stage)
  BY <1>1, <1>3 DEF CreateReplayRequest, WriteReplayRequest, ledgers
<1>4. CASE RunFinished \/ Wait \/ Take \/ Fund \/ Unfunded \/ After \/ Finish
  BY <1>1, <1>4 DEF RunFinished, Wait, Take, Fund, Unfunded, After, Finish, ledgers
<1>5. CASE Prepare \/ Run \/ Repair \/ Dies
  BY <1>1, <1>5 DEF Prepare, Run, Repair, Dies, ledgers
<1>6. CASE \E n \in Models : Respond(n) \/ RespondWell(n)
  BY <1>1, <1>6 DEF Respond, RespondWell, ledgers
<1>7. CASE UNCHANGED vars
  BY <1>1, <1>7 DEF vars, ledgers
<1> QED
  BY <1>2, <1>3, <1>4, <1>5, <1>6, <1>7, EnterInterrupts, ReserveStays, StartSends,
     AnswerSettles, CompleteStays, RecoverySettles DEF Next, Step, Operator

LEMMA DispatchInit == Init => D!Init
<1> SUFFICES ASSUME Init PROVE D!Init
  OBVIOUS
<1>1. Phase = [w \in Rows |-> "idle"]
  BY DEF Init, Phase, Rows, PhaseOf
<1>2. Answers = [w \in Rows |-> "none"] /\ Sends = [w \in Rows |-> 0]
  BY DEF Init, Answers, Sends, Rows
<1> QED
  BY <1>1, <1>2 DEF D!Init

(* The pilot keeps the promise of Dispatch over all its runs: whatever its     *)
(* commands, the operator's recoveries and deaths do, no request is sent a    *)
(* second time without the operator's word, none before its predecessor has  *)
(* settled, and a settled answer stays.                                      *)
THEOREM Dispatches == Spec => ImplementsDispatch
<1>1. Init => D!Init
  BY DispatchInit
<1>2. IInv /\ [Next]_vars => [D!Next]_(D!vars)
  BY StepDispatches
<1>3. Spec => []IInv
  BY Invariant, PTL
<1> QED
  BY <1>1, <1>2, <1>3, PTL DEF Spec, ImplementsDispatch, D!Spec

=============================================================================
