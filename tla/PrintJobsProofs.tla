-------------------------- MODULE PrintJobsProofs --------------------------
(***************************************************************************)
(* What PrintJobs guarantees for any number of jobs and agents, and        *)
(* whatever number of messages is lost.                                    *)
(***************************************************************************)
EXTENDS PrintJobs, FiniteSetTheorems, TLAPS

---------------------------------------------------------------------------
(* The inductive invariant.                                                *)

(* A request that is about a report has one: no agent goes on, stops or    *)
(* starts another report while the server answers.                         *)
ReportIsMade ==
  \A a \in Agents : session[a].kind = "report" => report[a] # Silent

(* An agent reports what came out of its printer, or was skipped.          *)
ReportedWasPrinted ==
  \A a \in Agents : report[a].says = "complete" =>
    report[a].job \in printed \cup skipped

(* The agents that have tried job j and have yet to be told that the       *)
(* server knows.                                                           *)
Telling(j) == {a \in Agents : report[a] # Silent /\ report[a].job = j}

(* The retries counted are of as many tries, and the tries that agents     *)
(* still report come on top: a report in progress adds one to the retries  *)
(* that it has read, which may be fewer than the row has by then.          *)
RetriesWereTries ==
  /\ \A j \in Jobs : job[j].retries + Cardinality(Telling(j)) <= tried[j]
  /\ \A a \in Agents : session[a].kind = "report" =>
       LET j == report[a].job IN
       session[a].row.retries + Cardinality(Telling(j)) <= tried[j]

(* What a poll is about to give up had its tries.                          *)
SpentWereTries ==
  \A a \in Agents : session[a].kind = "poll" =>
    \A j \in session[a].spent : tried[j] >= MaxRetries

PrintInv ==
  /\ TypeOK
  /\ ReportIsMade
  /\ ReportedWasPrinted /\ DoneWasPrinted
  /\ RetriesWereTries /\ SpentWereTries /\ GivenUpAfterTries

---------------------------------------------------------------------------
(* The types.                                                              *)

(* A report that is being made names a job.                                *)
LEMMA ReportType ==
  ASSUME TypeOK, NEW a \in Agents, report[a] # Silent
  PROVE  report[a].says \in {"complete", "fail"} /\ report[a].job \in Jobs
BY DEF TypeOK, Report

(* What a request has read is known by its kind.                           *)
LEMMA SessionType ==
  ASSUME TypeOK, NEW a \in Agents
  PROVE  /\ session[a].kind = "poll" => session[a] \in Polled
         /\ session[a].kind = "report" => session[a] \in Loaded
BY DEF TypeOK, Idle, Polled, Loaded

LEMMA ErrsType ==
  ASSUME TypeOK, NEW a \in Agents, report[a] # Silent, Errs(a)
  PROVE  held' \in [Agents -> SUBSET Jobs] /\ report' \in [Agents -> {Silent} \cup Report]
<1>1. [report[a] EXCEPT !.says = "fail"] \in Report
  BY DEF TypeOK, Report
<1>2. report' \in [Agents -> {Silent} \cup Report]
  BY <1>1 DEF Errs, TypeOK
<1>3. held' \in [Agents -> SUBSET Jobs]
  BY DEF Errs, TypeOK
<1> QED
  BY <1>2, <1>3

LEMMA RequeuedType ==
  ASSUME TypeOK, NEW poll \in Polled, NEW j \in Jobs
  PROVE  /\ Requeued(poll, j) \in Row
         /\ Claimed(poll, Requeued(poll, j), j) \in Row
<1>1. job[j] \in Row
  BY DEF TypeOK
<1>2. Requeued(poll, j) \in Row
  BY <1>1 DEF Requeued, Row, Statuses
<1>3. ASSUME NEW r \in Row
      PROVE  Claimed(poll, r, j) \in Row
  BY <1>3 DEF Claimed, Row, Statuses
<1> QED
  BY <1>2, <1>3

LEMMA ReportedType ==
  ASSUME NEW row \in Row, NEW read \in Row
  PROVE  Completed(row, read) \in Row /\ Failed(row, read) \in Row
<1>1. Completed(row, read) \in Row
  BY DEF Completed, Row, Statuses
<1>2. read.retries + 1 \in Nat
  BY DEF Row
<1>3. Failed(row, read) \in Row
  BY <1>2 DEF Failed, Row, Statuses
<1> QED
  BY <1>1, <1>3

LEMMA TypeInit == Init => TypeOK
BY MaxFaultsType, TillsType DEF Init, TypeOK, NoJob, Row, Statuses

LEMMA TypeStep == TypeOK /\ ReportIsMade /\ [Next]_vars => TypeOK'
<1> SUFFICES ASSUME TypeOK, ReportIsMade, [Next]_vars
             PROVE  TypeOK'
  OBVIOUS
<1> USE DEF paper
<1>1. ASSUME NEW j \in Jobs, Create(j)
      PROVE  TypeOK'
  <2>1. [job[j] EXCEPT !.status = "pending"] \in Row
    BY DEF TypeOK, Row, Statuses
  <2> QED
    BY <1>1, <2>1 DEF Create, TypeOK
<1>2. ASSUME NEW j \in Jobs, Lapse(j)
      PROVE  TypeOK'
  <2>1. [job[j] EXCEPT !.claim = "stale"] \in Row
    BY DEF TypeOK, Row
  <2>2. faults' \in 0..MaxFaults
    BY <1>2, MaxFaultsType DEF Lapse, TypeOK
  <2> QED
    BY <1>2, <2>1, <2>2 DEF Lapse, TypeOK
<1>3. ASSUME NEW a \in Agents, PollRead(a)
      PROVE  TypeOK'
  <2> DEFINE claims == {j \in Jobs : job[j].status = "printing" /\ job[j].claim # "null"}
             lapsed == {j \in claims : job[j].claim = "stale"}
             poll == [kind |-> "poll", claims |-> claims, lapsed |-> lapsed,
                      spent |-> {j \in lapsed : job[j].retries >= MaxRetries}]
  <2>1. poll \in Polled
    BY DEF Polled
  <2>2. session' = [session EXCEPT ![a] = poll]
    BY <1>3 DEF PollRead
  <2> QED
    BY <1>3, <2>1, <2>2 DEF PollRead, TypeOK
<1>4. ASSUME NEW a \in Agents, PollCommit(a)
      PROVE  TypeOK'
  <2> DEFINE poll == session[a]
             requeued == [j \in Jobs |-> Requeued(poll, j)]
             mine == {j \in Serves(a) : requeued[j].status = "pending"}
  <2>1. poll \in Polled
    BY <1>4, SessionType DEF PollCommit
  <2>2. mine \in SUBSET Jobs
    BY ServesJobs
  <2>3. job' \in [Jobs -> Row]
    <3>1. \A j \in Jobs : Requeued(poll, j) \in Row /\ Claimed(poll, Requeued(poll, j), j) \in Row
      BY <2>1, RequeuedType
    <3>2. \/ job' = job
          \/ job' = [j \in Jobs |-> IF j \in mine THEN Claimed(poll, requeued[j], j)
                                    ELSE requeued[j]]
      BY <1>4 DEF PollCommit
    <3> QED
      BY <3>1, <3>2 DEF TypeOK
  <2>4. held' \in [Agents -> SUBSET Jobs] /\ faults' \in 0..MaxFaults
    <3>1. \/ held' = [held EXCEPT ![a] = mine] /\ UNCHANGED faults
          \/ faults < MaxFaults /\ faults' = faults + 1 /\ UNCHANGED held
      BY <1>4 DEF PollCommit
    <3> HIDE DEF mine
    <3> QED
      BY <2>2, <3>1, MaxFaultsType DEF TypeOK
  <2>5. session' = [session EXCEPT ![a] = Idle] /\ UNCHANGED <<report, paper>>
    BY <1>4 DEF PollCommit
  <2> QED
    BY <2>3, <2>4, <2>5 DEF TypeOK
<1>5. ASSUME NEW a \in Agents, Dispatch(a)
      PROVE  TypeOK'
  <2>1. PICK j \in held[a] :
          /\ tried' = [tried EXCEPT ![j] = @ + 1]
          /\ printed' \in {printed, printed \cup {j}}
          /\ skipped' \in {skipped, skipped \cup {j}}
          /\ \/ report' = [report EXCEPT ![a] = [says |-> "complete", job |-> j]]
             \/ report' = [report EXCEPT ![a] = [says |-> "fail", job |-> j]]
          /\ UNCHANGED <<job, session, held, off, faults>>
    BY <1>5 DEF Dispatch
  <2>2. j \in Jobs
    BY DEF TypeOK
  <2>3. tried' \in [Jobs -> Nat] /\ printed' \subseteq Jobs /\ skipped' \subseteq Jobs
    BY <2>1, <2>2 DEF TypeOK
  <2>4. report' \in [Agents -> {Silent} \cup Report]
    <3>1. [says |-> "complete", job |-> j] \in Report /\ [says |-> "fail", job |-> j] \in Report
      BY <2>2 DEF Report
    <3> QED
      BY <2>1, <3>1 DEF TypeOK
  <2> QED
    BY <2>1, <2>3, <2>4 DEF TypeOK
<1>6. ASSUME NEW a \in Agents, ReportRead(a)
      PROVE  TypeOK'
  <2>1. report[a].job \in Jobs
    BY <1>6, ReportType DEF ReportRead
  <2>2. [kind |-> "report", row |-> job[report[a].job]] \in Loaded
    BY <2>1 DEF TypeOK, Loaded
  <2>3. session' \in [Agents -> {Idle} \cup Polled \cup Loaded]
    BY <1>6, <2>2 DEF ReportRead, TypeOK
  <2>4. held' \in [Agents -> SUBSET Jobs] /\ report' \in [Agents -> {Silent} \cup Report]
    BY <1>6, ErrsType DEF ReportRead, TypeOK
  <2> QED
    BY <1>6, <2>3, <2>4 DEF ReportRead, TypeOK
<1>7. ASSUME NEW a \in Agents, ReportCommit(a)
      PROVE  TypeOK'
  <2>1. session[a].row \in Row /\ report[a] # Silent
    BY <1>7, SessionType DEF ReportCommit, Loaded, ReportIsMade
  <2>2. job' \in [Jobs -> Row]
    BY <1>7, <2>1, ReportedType, ReportType DEF ReportCommit, TypeOK
  <2>3. held' \in [Agents -> SUBSET Jobs] /\ report' \in [Agents -> {Silent} \cup Report]
    BY <1>7, <2>1, ErrsType DEF ReportCommit, Succeeds, TypeOK
  <2>4. faults' \in 0..MaxFaults
    BY <1>7, MaxFaultsType DEF ReportCommit, TypeOK
  <2> QED
    BY <1>7, <2>2, <2>3, <2>4 DEF ReportCommit, TypeOK
<1>8. ASSUME NEW a \in Agents, ReportLost(a)
      PROVE  TypeOK'
  <2>1. held' \in [Agents -> SUBSET Jobs] /\ report' \in [Agents -> {Silent} \cup Report]
    BY <1>8, ErrsType DEF ReportLost
  <2>2. faults' \in 0..MaxFaults
    BY <1>8, MaxFaultsType DEF ReportLost, TypeOK
  <2> QED
    BY <1>8, <2>1, <2>2 DEF ReportLost, TypeOK
<1>9. ASSUME NEW a \in Agents, Restart(a)
      PROVE  TypeOK'
  <2>1. faults' \in 0..MaxFaults
    BY <1>9, MaxFaultsType DEF Restart, TypeOK
  <2> QED
    BY <1>9, <2>1 DEF Restart, TypeOK
<1>10. ASSUME NEW a \in Agents, NEW j \in Jobs, Switch(a, j)
      PROVE  TypeOK'
  BY <1>10 DEF Switch, TypeOK
<1>11. CASE UNCHANGED vars
  BY <1>11 DEF vars, TypeOK
<1> QED
  BY <1>1, <1>2, <1>3, <1>4, <1>5, <1>6, <1>7, <1>8, <1>9, <1>10, <1>11
  DEF Next, Poll, Work

---------------------------------------------------------------------------
(* Reports that are being made.                                            *)

LEMMA ReportIsMadeStep == TypeOK /\ ReportIsMade /\ [Next]_vars => ReportIsMade'
<1> SUFFICES ASSUME TypeOK, ReportIsMade, [Next]_vars
             PROVE  ReportIsMade'
  OBVIOUS
<1>1. ASSUME NEW j \in Jobs, Create(j) \/ Lapse(j)
      PROVE  ReportIsMade'
  BY <1>1 DEF Create, Lapse, ReportIsMade
<1>2. ASSUME NEW a \in Agents, Poll(a)
      PROVE  ReportIsMade'
  BY <1>2 DEF Poll, PollRead, PollCommit, ReportIsMade, Idle, TypeOK
<1>3. ASSUME NEW a \in Agents, Dispatch(a)
      PROVE  ReportIsMade'
  BY <1>3 DEF Dispatch, ReportIsMade, Silent, TypeOK
<1>4. ASSUME NEW a \in Agents, ReportRead(a)
      PROVE  ReportIsMade'
  BY <1>4 DEF ReportRead, Errs, ReportIsMade, Idle, TypeOK
<1>5. ASSUME NEW a \in Agents, ReportCommit(a)
      PROVE  ReportIsMade'
  BY <1>5 DEF ReportCommit, Succeeds, Errs, ReportIsMade, Idle, TypeOK
<1>6. ASSUME NEW a \in Agents, ReportLost(a) \/ Restart(a)
      PROVE  ReportIsMade'
  BY <1>6 DEF ReportLost, Restart, Errs, ReportIsMade, Idle, TypeOK
<1>7. CASE UNCHANGED <<session, report>>
  BY <1>7 DEF ReportIsMade
<1> QED
  BY <1>1, <1>2, <1>3, <1>4, <1>5, <1>6, <1>7 DEF Next, Work, Switch, vars

---------------------------------------------------------------------------
(* What is done was printed, or skipped.                                   *)

(* Only a report of completion makes a row a done one.                     *)
LEMMA DoneIsReported ==
  ASSUME TypeOK, ReportIsMade, [Next]_vars,
         NEW j \in Jobs, job'[j].status = "done"
  PROVE  \/ job[j].status = "done"
         \/ \E a \in Agents : report[a].says = "complete" /\ report[a].job = j
<1>1. ASSUME NEW i \in Jobs, Create(i) \/ Lapse(i)
      PROVE  job[j].status = "done"
  BY <1>1 DEF Create, Lapse, TypeOK, Row
<1>2. ASSUME NEW a \in Agents, PollCommit(a)
      PROVE  job[j].status = "done"
  <2>1. Requeued(session[a], j).status = "done" => job[j].status = "done"
    BY DEF Requeued, TypeOK, Row
  <2>2. ASSUME NEW row \in Row, NEW poll, Claimed(poll, row, j).status = "done"
        PROVE  row.status = "done"
    BY <2>2 DEF Claimed, Row
  <2>3. session[a] \in Polled
    BY <1>2, SessionType DEF PollCommit
  <2>4. Requeued(session[a], j) \in Row
    BY <2>3, RequeuedType
  <2>5. \/ job'[j] = job[j]
        \/ job'[j] = Requeued(session[a], j)
        \/ job'[j] = Claimed(session[a], Requeued(session[a], j), j)
    BY <1>2 DEF PollCommit
  <2> QED
    BY <2>1, <2>2, <2>4, <2>5
<1>3. ASSUME NEW a \in Agents, ReportCommit(a), report[a].says # "complete"
      PROVE  job[j].status = "done"
  <2>1. \A row \in Row : \A read : Failed(row, read).status = "done" => row.status = "done"
    BY DEF Failed
  <2>2. job' = [job EXCEPT ![report[a].job] = Failed(@, session[a].row)]
    BY <1>3 DEF ReportCommit
  <2> QED
    BY <2>1, <2>2 DEF TypeOK
<1>4. ASSUME NEW a \in Agents, ReportCommit(a), report[a].job # j
      PROVE  job[j].status = "done"
  BY <1>4 DEF ReportCommit, TypeOK
<1>5. ASSUME NEW a \in Agents,
             PollRead(a) \/ Dispatch(a) \/ ReportRead(a) \/ ReportLost(a) \/ Restart(a)
      PROVE  job[j].status = "done"
  BY <1>5 DEF PollRead, Dispatch, ReportRead, ReportLost, Restart
<1>6. CASE UNCHANGED job
  BY <1>6
<1> QED
  BY <1>1, <1>2, <1>3, <1>4, <1>5, <1>6 DEF Next, Poll, Work, Switch, vars

LEMMA PrintedStep ==
  TypeOK /\ ReportIsMade /\ ReportedWasPrinted /\ DoneWasPrinted /\ [Next]_vars
    => ReportedWasPrinted' /\ DoneWasPrinted'
<1> SUFFICES ASSUME TypeOK, ReportIsMade, ReportedWasPrinted, DoneWasPrinted, [Next]_vars
             PROVE  ReportedWasPrinted' /\ DoneWasPrinted'
  OBVIOUS
<1> USE DEF paper
<1>1. printed \subseteq printed' /\ skipped \subseteq skipped'
  BY DEF Next, Poll, Work, Create, Lapse, PollRead, PollCommit, Dispatch, ReportRead,
         ReportCommit, ReportLost, Restart, Switch, vars
<1>2. ReportedWasPrinted'
  <2>1. ASSUME NEW a \in Agents, Dispatch(a)
        PROVE  ReportedWasPrinted'
    BY <2>1 DEF Dispatch, ReportedWasPrinted, TypeOK
  <2>2. ASSUME NEW a \in Agents, ReportRead(a) \/ ReportCommit(a) \/ ReportLost(a)
        PROVE  ReportedWasPrinted'
    <3>1. printed' = printed /\ skipped' = skipped
      BY <2>2 DEF ReportRead, ReportCommit, ReportLost
    <3>2. \/ report' = report
          \/ report' = [report EXCEPT ![a] = Silent]
          \/ report' = [report EXCEPT ![a].says = "fail"]
      BY <2>2 DEF ReportRead, ReportCommit, ReportLost, Succeeds, Errs
    <3>3. ASSUME NEW b \in Agents, report'[b].says = "complete"
          PROVE  report'[b] = report[b]
      <4>1. report[b] \in {Silent} \cup Report
        BY DEF TypeOK
      <4> QED
        BY <3>2, <3>3, <4>1 DEF TypeOK, Silent, Report
    <3> QED
      BY <3>1, <3>3 DEF ReportedWasPrinted
  <2>3. ASSUME NEW a \in Agents, Poll(a) \/ Restart(a)
        PROVE  ReportedWasPrinted'
    BY <2>3 DEF Poll, PollRead, PollCommit, Restart, ReportedWasPrinted, Silent, TypeOK
  <2>4. ASSUME NEW j \in Jobs, Create(j) \/ Lapse(j)
        PROVE  ReportedWasPrinted'
    BY <2>4 DEF Create, Lapse, ReportedWasPrinted
  <2>5. CASE UNCHANGED <<report, printed, skipped>>
    BY <2>5 DEF ReportedWasPrinted
  <2> QED
    BY <2>1, <2>2, <2>3, <2>4, <2>5 DEF Next, Work, Switch, vars
<1>3. DoneWasPrinted'
  BY <1>1, DoneIsReported DEF DoneWasPrinted, ReportedWasPrinted
<1> QED
  BY <1>2, <1>3

---------------------------------------------------------------------------
(* How many agents are telling the server of a job.                        *)

(* They are finitely many, before a step and after it.                     *)
LEMMA TellingFinite ==
  ASSUME NEW j
  PROVE  /\ IsFiniteSet(Telling(j)) /\ Cardinality(Telling(j)) \in Nat
         /\ IsFiniteSet(Telling(j)') /\ Cardinality(Telling(j)') \in Nat
<1>1. Telling(j) \in SUBSET Agents /\ Telling(j)' \in SUBSET Agents
  BY DEF Telling
<1>2. IsFiniteSet(Telling(j)) /\ IsFiniteSet(Telling(j)')
  BY <1>1, AgentsFinite, FS_Subset
<1> QED
  BY <1>2, FS_CardinalityType

(* A silent agent that starts to report is one more.                       *)
LEMMA TellingStarts ==
  ASSUME TypeOK, NEW a \in Agents, NEW r \in Report,
         report[a] = Silent, report' = [report EXCEPT ![a] = r], NEW j \in Jobs
  PROVE  Cardinality(Telling(j)') =
           IF j = r.job THEN Cardinality(Telling(j)) + 1 ELSE Cardinality(Telling(j))
<1>1. r # Silent
  BY DEF Silent, Report
<1>2. Telling(j)' = IF j = r.job THEN Telling(j) \cup {a} ELSE Telling(j)
  BY <1>1 DEF Telling, TypeOK
<1>3. a \notin Telling(j)
  BY DEF Telling
<1> QED
  BY <1>2, <1>3, TellingFinite, FS_AddElement

(* A report that is over is one less.                                      *)
LEMMA TellingEnds ==
  ASSUME TypeOK, NEW a \in Agents,
         report[a] # Silent, report' = [report EXCEPT ![a] = Silent], NEW j \in Jobs
  PROVE  Cardinality(Telling(j)') =
           IF j = report[a].job THEN Cardinality(Telling(j)) - 1
           ELSE Cardinality(Telling(j))
<1>1. Telling(j)' = IF j = report[a].job THEN Telling(j) \ {a} ELSE Telling(j)
  BY DEF Telling, TypeOK
<1>2. j = report[a].job => a \in Telling(j)
  BY DEF Telling
<1> QED
  BY <1>1, <1>2, TellingFinite, FS_RemoveElement

(* A completion that becomes a failure is of the same job.                 *)
LEMMA TellingGoesOn ==
  ASSUME TypeOK, NEW a \in Agents, report[a] # Silent,
         report' = [report EXCEPT ![a].says = "fail"], NEW j \in Jobs
  PROVE  Telling(j)' = Telling(j)
<1>1. report'[a] # Silent /\ report'[a].job = report[a].job
  BY DEF TypeOK, Silent, Report
<1>2. \A b \in Agents \ {a} : report'[b] = report[b]
  BY DEF TypeOK
<1> QED
  BY <1>1, <1>2 DEF Telling

(* No answer, good or bad, makes more reports of them.                     *)
LEMMA TellingAnswered ==
  ASSUME TypeOK, NEW a \in Agents, report[a] # Silent,
         Succeeds(a) \/ Errs(a), NEW j \in Jobs
  PROVE  /\ Cardinality(Telling(j)') <= Cardinality(Telling(j))
         /\ (report[a].says = "fail" /\ j = report[a].job) =>
               Cardinality(Telling(j)') = Cardinality(Telling(j)) - 1
<1> DEFINE n == Cardinality(Telling(j))
<1>0. n \in Nat
  BY TellingFinite
<1>1. CASE report' = [report EXCEPT ![a] = Silent]
  <2>1. n' = IF j = report[a].job THEN n - 1 ELSE n
    BY <1>1, TellingEnds
  <2> HIDE DEF n
  <2>2. n' <= n /\ (j = report[a].job => n' = n - 1)
    BY <1>0, <2>1
  <2> QED
    BY <2>2 DEF n
<1>2. CASE /\ report[a].says = "complete"
           /\ report' = [report EXCEPT ![a].says = "fail"]
  <2>1. n' = n
    BY <1>2, TellingGoesOn
  <2> HIDE DEF n
  <2>2. n' <= n
    BY <1>0, <2>1
  <2> QED
    BY <1>2, <2>2 DEF n
<1> QED
  BY <1>1, <1>2 DEF Succeeds, Errs

---------------------------------------------------------------------------
(* The tries of a job that is given up.                                    *)

TriesInv == RetriesWereTries /\ SpentWereTries /\ GivenUpAfterTries

(* An answer, or a loss, ends what one agent asks: nothing is made of it   *)
(* but retries and failures that the tries are enough for.                 *)
LEMMA TriesAnswered ==
  ASSUME PrintInv, NEW a \in Agents, UNCHANGED tried,
         session'[a] = Idle,
         \A b \in Agents \ {a} : session'[b] = session[b] /\ report'[b] = report[b],
         \A j \in Jobs : Cardinality(Telling(j)') <= Cardinality(Telling(j)),
         \A j \in Jobs : job'[j].retries + Cardinality(Telling(j)') <= tried[j],
         \A j \in Jobs : job'[j].status = "failed" => tried[j] >= MaxRetries
  PROVE  TriesInv'
<1> USE DEF PrintInv
<1>1. ASSUME NEW b \in Agents, session'[b].kind = "report",
             NEW j \in Jobs, j = report'[b].job
      PROVE  session'[b].row.retries + Cardinality(Telling(j)') <= tried'[j]
  <2>1. b # a
    BY <1>1 DEF Idle
  <2>2. session'[b] = session[b] /\ report'[b] = report[b] /\ report[b] # Silent
    BY <1>1, <2>1 DEF ReportIsMade
  <2>3. session[b].row.retries \in Nat
    BY <1>1, <2>2, SessionType DEF Loaded, Row
  <2>4. session[b].row.retries + Cardinality(Telling(j)) <= tried[j]
    BY <1>1, <2>2 DEF RetriesWereTries
  <2>5. Cardinality(Telling(j)') <= Cardinality(Telling(j))
    OBVIOUS
  <2>6. /\ tried[j] \in Nat
        /\ Cardinality(Telling(j)) \in Nat /\ Cardinality(Telling(j)') \in Nat
    BY TellingFinite DEF TypeOK
  <2>7. session[b].row.retries + Cardinality(Telling(j)') <= tried[j]
    BY <2>3, <2>4, <2>5, <2>6
  <2> QED
    BY <2>2, <2>7
<1>2. RetriesWereTries'
  <2>1. ASSUME NEW b \in Agents, session'[b].kind = "report"
        PROVE  report'[b].job \in Jobs
    <3>1. b # a
      BY <2>1 DEF Idle
    <3>2. session[b].kind = "report" /\ report'[b] = report[b]
      BY <2>1, <3>1
    <3> QED
      BY <3>2, ReportType DEF ReportIsMade
  <2> QED
    BY <1>1, <2>1 DEF RetriesWereTries
<1>3. SpentWereTries'
  BY DEF SpentWereTries, Idle
<1>4. GivenUpAfterTries'
  BY DEF GivenUpAfterTries
<1> QED
  BY <1>2, <1>3, <1>4 DEF TriesInv

(* Fewer reports leave room for the retries.                               *)
LEMMA TriesLeft ==
  ASSUME PrintInv, NEW j \in Jobs, Cardinality(Telling(j)') <= Cardinality(Telling(j))
  PROVE  job[j].retries + Cardinality(Telling(j)') <= tried[j]
<1> DEFINE n == Cardinality(Telling(j))
           m == Cardinality(Telling(j)')
<1>1. n \in Nat /\ m \in Nat /\ m <= n
  BY TellingFinite
<1>2. job[j].retries \in Nat /\ tried[j] \in Nat /\ job[j].retries + n <= tried[j]
  BY DEF PrintInv, TypeOK, Row, RetriesWereTries
<1> HIDE DEF n, m
<1>3. job[j].retries + m <= tried[j]
  BY <1>1, <1>2
<1> QED
  BY <1>3 DEF m

(* A report that the server does not count.                                *)
LEMMA UnheardTries ==
  ASSUME PrintInv, NEW a \in Agents, report[a] # Silent, session[a] = Idle,
         Errs(a), UNCHANGED <<job, session, tried>>
  PROVE  TriesInv'
<1>1. TypeOK /\ GivenUpAfterTries
  BY DEF PrintInv
<1>2. \A j \in Jobs : Cardinality(Telling(j)') <= Cardinality(Telling(j))
  BY <1>1, TellingAnswered
<1>3. \A j \in Jobs : job'[j].retries + Cardinality(Telling(j)') <= tried[j]
  BY <1>2, TriesLeft
<1>4. \A j \in Jobs : job'[j].status = "failed" => tried[j] >= MaxRetries
  BY <1>1 DEF GivenUpAfterTries
<1>5. \A b \in Agents \ {a} : session'[b] = session[b] /\ report'[b] = report[b]
  BY <1>1 DEF Errs, TypeOK
<1> QED
  BY <1>2, <1>3, <1>4, <1>5, TriesAnswered

LEMMA TriesStep == PrintInv /\ [Next]_vars => TriesInv'
<1> SUFFICES ASSUME PrintInv, [Next]_vars
             PROVE  TriesInv'
  OBVIOUS
<1> USE DEF paper
<1> USE DEF PrintInv
<1>0. TypeOK' /\ ReportIsMade'
  BY TypeStep, ReportIsMadeStep
<1>1. ASSUME NEW j \in Jobs, Create(j) \/ Lapse(j)
      PROVE  TriesInv'
  <2>1. UNCHANGED <<session, report, tried>>
    BY <1>1 DEF Create, Lapse
  <2>2. \A i \in Jobs : /\ job'[i].retries = job[i].retries
                        /\ job'[i].status = "failed" => job[i].status = "failed"
    BY <1>1 DEF Create, Lapse, TypeOK, Row
  <2>3. \A i : Telling(i)' = Telling(i)
    BY <2>1 DEF Telling
  <2> QED
    BY <2>1, <2>2, <2>3
    DEF TriesInv, RetriesWereTries, SpentWereTries, GivenUpAfterTries
<1>2. ASSUME NEW a \in Agents, PollRead(a)
      PROVE  TriesInv'
  <2>1. UNCHANGED <<job, report, tried>>
    BY <1>2 DEF PollRead
  <2>2. \A i : Telling(i)' = Telling(i)
    BY <2>1 DEF Telling
  <2>3. \A b \in Agents \ {a} : session'[b] = session[b]
    BY <1>2 DEF PollRead, TypeOK
  <2>4. /\ session'[a].kind = "poll"
        /\ \A i \in session'[a].spent : i \in Jobs /\ job[i].retries >= MaxRetries
    BY <1>2 DEF PollRead, TypeOK
  <2>5. \A i \in Jobs : job[i].retries >= MaxRetries => tried[i] >= MaxRetries
    BY TellingFinite, MaxRetriesType DEF RetriesWereTries, TypeOK, Row
  <2>6. RetriesWereTries'
    BY <2>1, <2>2, <2>3, <2>4 DEF RetriesWereTries
  <2>7. SpentWereTries' /\ GivenUpAfterTries'
    BY <2>1, <2>3, <2>4, <2>5 DEF SpentWereTries, GivenUpAfterTries
  <2> QED
    BY <2>6, <2>7 DEF TriesInv
<1>3. ASSUME NEW a \in Agents, PollCommit(a)
      PROVE  TriesInv'
  <2>1. UNCHANGED <<report, tried>> /\ session' = [session EXCEPT ![a] = Idle]
    BY <1>3 DEF PollCommit
  <2>2. \A i : Telling(i)' = Telling(i)
    BY <2>1 DEF Telling
  <2>3. session[a] \in Polled /\ session[a].kind = "poll"
    BY <1>3, SessionType DEF PollCommit
  <2>4. ASSUME NEW i \in Jobs
        PROVE  /\ job'[i].retries = job[i].retries
               /\ job'[i].status = "failed" =>
                    job[i].status = "failed" \/ i \in session[a].spent
    <3> DEFINE requeued == Requeued(session[a], i)
    <3>1. requeued \in Row
      BY <2>3, RequeuedType
    <3>2. /\ requeued.retries = job[i].retries
          /\ requeued.status = "failed" => job[i].status = "failed" \/ i \in session[a].spent
      BY DEF Requeued, TypeOK, Row
    <3>3. ASSUME NEW row \in Row
          PROVE  /\ Claimed(session[a], row, i).retries = row.retries
                 /\ Claimed(session[a], row, i).status = "failed" => row.status = "failed"
      BY DEF Claimed, Row
    <3>4. \/ job'[i] = job[i]
          \/ job'[i] = requeued
          \/ job'[i] = Claimed(session[a], requeued, i)
      BY <1>3 DEF PollCommit
    <3> HIDE DEF requeued
    <3> QED
      BY <3>1, <3>2, <3>3, <3>4
  <2>5. \A b \in Agents : session'[b] = session[b] \/ session'[b] = Idle
    BY <2>1 DEF TypeOK
  <2>6. RetriesWereTries'
    BY <2>1, <2>2, <2>4, <2>5 DEF RetriesWereTries, Idle
  <2>7. SpentWereTries'
    BY <2>1, <2>5 DEF SpentWereTries, Idle
  <2>8. GivenUpAfterTries'
    BY <2>1, <2>3, <2>4 DEF GivenUpAfterTries, SpentWereTries
  <2> QED
    BY <2>6, <2>7, <2>8 DEF TriesInv
<1>4. ASSUME NEW a \in Agents, Dispatch(a)
      PROVE  TriesInv'
  <2>1. PICK k \in held[a], r \in {"complete", "fail"} :
          /\ report[a] = Silent
          /\ tried' = [tried EXCEPT ![k] = @ + 1]
          /\ report' = [report EXCEPT ![a] = [says |-> r, job |-> k]]
    BY <1>4 DEF Dispatch
  <2>2. UNCHANGED <<job, session>> /\ k \in Jobs
    BY <1>4 DEF Dispatch, TypeOK
  <2>3. [says |-> r, job |-> k] \in Report
    BY <2>2 DEF Report
  <2>4. \A i \in Jobs : /\ tried'[i] >= tried[i]
                        /\ tried[i] \in Nat /\ tried'[i] \in Nat
                        /\ tried'[i] = IF i = k THEN tried[i] + 1 ELSE tried[i]
    BY <2>1, <2>2 DEF TypeOK
  <2>5. \A i \in Jobs : Cardinality(Telling(i)') =
           IF i = k THEN Cardinality(Telling(i)) + 1 ELSE Cardinality(Telling(i))
    BY <2>1, <2>3, TellingStarts
  <2>6. \A b \in Agents : session[b].kind = "report" =>
           /\ b # a /\ report'[b] = report[b]
           /\ report[b].job \in Jobs /\ session[b].row.retries \in Nat
    BY <2>1, ReportType, SessionType DEF ReportIsMade, TypeOK, Loaded, Row
  <2>7. RetriesWereTries'
    <3>1. \A i \in Jobs : job[i].retries \in Nat
      BY DEF TypeOK, Row
    <3> QED
      BY <2>2, <2>4, <2>5, <2>6, <3>1, TellingFinite DEF RetriesWereTries
  <2>8. SpentWereTries'
    <3>1. \A b \in Agents : session[b].kind = "poll" => session[b].spent \subseteq Jobs
      BY SessionType DEF Polled
    <3> QED
      BY <2>2, <2>4, <3>1, MaxRetriesType DEF SpentWereTries
  <2>9. GivenUpAfterTries'
    BY <2>2, <2>4, MaxRetriesType DEF GivenUpAfterTries
  <2> QED
    BY <2>7, <2>8, <2>9 DEF TriesInv
<1>5. ASSUME NEW a \in Agents, ReportRead(a)
      PROVE  TriesInv'
  <2> DEFINE j == report[a].job
  <2>1. UNCHANGED <<job, tried>> /\ report[a] # Silent /\ j \in Jobs
    BY <1>5, ReportType DEF ReportRead
  <2>2. CASE /\ session' = [session EXCEPT ![a] = [kind |-> "report", row |-> job[j]]]
             /\ UNCHANGED report
    <3>1. \A i : Telling(i)' = Telling(i)
      BY <2>2 DEF Telling
    <3>2. /\ session'[a].kind = "report" /\ session'[a].row = job[j]
          /\ \A b \in Agents \ {a} : session'[b] = session[b]
      BY <2>2 DEF TypeOK
    <3>3. RetriesWereTries'
      BY <2>1, <2>2, <3>1, <3>2 DEF RetriesWereTries
    <3>4. SpentWereTries' /\ GivenUpAfterTries'
      BY <2>1, <3>2 DEF SpentWereTries, GivenUpAfterTries
    <3> QED
      BY <3>3, <3>4 DEF TriesInv
  <2>3. CASE Errs(a) /\ UNCHANGED session
    <3>1. session[a] = Idle
      BY <1>5 DEF ReportRead
    <3> QED
      BY <2>1, <2>3, <3>1, UnheardTries
  <2> QED
    BY <1>5, <2>2, <2>3 DEF ReportRead
<1>6. ASSUME NEW a \in Agents, ReportCommit(a)
      PROVE  TriesInv'
  <2>1. session[a].kind = "report" /\ report[a] # Silent
    BY <1>6 DEF ReportCommit, ReportIsMade
  <2> PICK j \in Jobs : j = report[a].job
    BY <2>1, ReportType
  <2> PICK read \in Row : read = session[a].row
    BY <2>1, SessionType DEF Loaded
  <2>2. report[a].says \in {"complete", "fail"}
    BY <2>1, ReportType
  <2>3. Succeeds(a) \/ Errs(a)
    BY <1>6 DEF ReportCommit
  <2>4. UNCHANGED tried /\ session' = [session EXCEPT ![a] = Idle]
    BY <1>6 DEF ReportCommit
  <2>5. \A i \in Jobs : Cardinality(Telling(i)') <= Cardinality(Telling(i))
    BY <2>1, <2>3, TellingAnswered
  <2>6. \A i \in Jobs \ {j} : job'[i] = job[i]
    BY <1>6 DEF ReportCommit, TypeOK
  <2>7. /\ job'[j].retries + Cardinality(Telling(j)') <= tried[j]
        /\ job'[j].status = "failed" => tried[j] >= MaxRetries
    <3> DEFINE n == Cardinality(Telling(j))
               m == Cardinality(Telling(j)')
    <3>1. n \in Nat /\ m \in Nat /\ m <= n /\ tried[j] \in Nat /\ job[j].retries \in Nat
      BY <2>2, <2>5, TellingFinite DEF TypeOK, Row
    <3>2. job[j].retries + n <= tried[j] /\ read.retries + n <= tried[j]
      BY <2>1, <2>2 DEF RetriesWereTries
    <3>3. CASE report[a].says = "complete"
      <4>1. job'[j] = Completed(job[j], read)
        BY <1>6, <2>2, <3>3 DEF ReportCommit, TypeOK
      <4>2. job'[j].retries = job[j].retries /\ job'[j].status # "failed"
        BY <2>2, <4>1 DEF Completed, TypeOK, Row
      <4> HIDE DEF n, m
      <4>3. job[j].retries + m <= tried[j]
        BY <3>1, <3>2
      <4> QED
        BY <4>2, <4>3 DEF m
    <3>4. CASE report[a].says = "fail"
      <4>1. job'[j] = Failed(job[j], read)
        BY <1>6, <2>2, <3>4 DEF ReportCommit, TypeOK
      <4>2. m = n - 1
        BY <2>1, <2>2, <2>3, <3>4, TellingAnswered
      <4>3. read.retries \in Nat
        BY <2>2 DEF Row
      <4>4. job'[j].retries = read.retries + 1
        BY <4>1 DEF Failed
      <4>5. job'[j].status = "failed" =>
              job[j].status = "failed" \/ read.retries + 1 >= MaxRetries
        BY <4>1 DEF Failed
      <4>6. job[j].status = "failed" => tried[j] >= MaxRetries
        BY <2>2 DEF GivenUpAfterTries
      <4> HIDE DEF n, m
      <4>7. read.retries + 1 + m <= tried[j] /\ read.retries + 1 <= tried[j]
        BY <3>1, <3>2, <4>2, <4>3
      <4>8. read.retries + 1 >= MaxRetries => tried[j] >= MaxRetries
        BY <3>1, <4>3, <4>7, MaxRetriesType
      <4> QED
        BY <4>4, <4>5, <4>6, <4>7, <4>8 DEF m
    <3> QED
      BY <2>2, <3>3, <3>4
  <2>8. \A b \in Agents \ {a} : session'[b] = session[b] /\ report'[b] = report[b]
    BY <2>3, <2>4 DEF Succeeds, Errs, TypeOK
  <2>9. ASSUME NEW i \in Jobs \ {j}
        PROVE  /\ job'[i].retries + Cardinality(Telling(i)') <= tried[i]
               /\ job'[i].status = "failed" => tried[i] >= MaxRetries
    <3>1. job[i].retries + Cardinality(Telling(i)') <= tried[i]
      BY <2>5, TriesLeft
    <3> QED
      BY <2>6, <3>1 DEF GivenUpAfterTries
  <2> QED
    BY <2>4, <2>5, <2>7, <2>8, <2>9, TriesAnswered DEF TypeOK
<1>7. ASSUME NEW a \in Agents, ReportLost(a)
      PROVE  TriesInv'
  BY <1>7, UnheardTries DEF ReportLost
<1>8. ASSUME NEW a \in Agents, Restart(a)
      PROVE  TriesInv'
  <2>1. \A i \in Jobs : Cardinality(Telling(i)') <= Cardinality(Telling(i))
    <3>1. CASE report[a] = Silent
      <4>1. report' = report
        BY <1>8, <3>1 DEF Restart, TypeOK
      <4>2. \A i : Telling(i)' = Telling(i)
        BY <4>1 DEF Telling
      <4> QED
        BY <4>2, TellingFinite
    <3>2. CASE report[a] # Silent
      <4>1. ASSUME NEW i \in Jobs
            PROVE  Cardinality(Telling(i)') =
                     IF i = report[a].job THEN Cardinality(Telling(i)) - 1
                     ELSE Cardinality(Telling(i))
        BY <1>8, <3>2, TellingEnds DEF Restart
      <4>2. \A i : Cardinality(Telling(i)) \in Nat
        BY TellingFinite
      <4> QED
        BY <4>1, <4>2
    <3> QED
      BY <3>1, <3>2
  <2>2. \A i \in Jobs : /\ job'[i].retries + Cardinality(Telling(i)') <= tried[i]
                        /\ job'[i].status = "failed" => tried[i] >= MaxRetries
    BY <1>8, <2>1, TriesLeft DEF Restart, GivenUpAfterTries
  <2>3. /\ session'[a] = Idle /\ UNCHANGED tried
        /\ \A b \in Agents \ {a} : session'[b] = session[b] /\ report'[b] = report[b]
    BY <1>8 DEF Restart, TypeOK
  <2> QED
    BY <2>1, <2>2, <2>3, TriesAnswered
<1>9. CASE UNCHANGED <<job, session, report, tried>>
  <2>1. \A i : Telling(i)' = Telling(i)
    BY <1>9 DEF Telling
  <2> QED
    BY <1>9, <2>1 DEF TriesInv, RetriesWereTries, SpentWereTries, GivenUpAfterTries
<1> QED
  BY <1>1, <1>2, <1>3, <1>4, <1>5, <1>6, <1>7, <1>8, <1>9
  DEF Next, Poll, Work, Switch, vars

---------------------------------------------------------------------------
(* The theorems.                                                           *)

LEMMA PrintInit == Init => PrintInv
<1> SUFFICES ASSUME Init
             PROVE  PrintInv
  OBVIOUS
<1>1. \A j : Telling(j) = {}
  BY DEF Init, Telling
<1>2. \A j : Cardinality(Telling(j)) = 0
  BY <1>1, FS_EmptySet
<1>3. RetriesWereTries
  BY <1>2 DEF Init, RetriesWereTries, NoJob, Idle
<1>4. SpentWereTries /\ GivenUpAfterTries
  BY DEF Init, SpentWereTries, GivenUpAfterTries, NoJob, Idle
<1>5. ReportIsMade /\ ReportedWasPrinted /\ DoneWasPrinted
  BY DEF Init, ReportIsMade, ReportedWasPrinted, DoneWasPrinted, NoJob, Idle, Silent
<1> QED
  BY <1>3, <1>4, <1>5, TypeInit DEF PrintInv

LEMMA PrintStep == PrintInv /\ [Next]_vars => PrintInv'
BY TypeStep, ReportIsMadeStep, PrintedStep, TriesStep DEF PrintInv, TriesInv

LEMMA PrintAlways == Spec => []PrintInv
<1>1. Init => PrintInv
  BY PrintInit
<1>2. PrintInv /\ [Next]_vars => PrintInv'
  BY PrintStep
<1> QED
  BY <1>1, <1>2, PTL DEF Spec

(* Rows, sessions and reports keep their types, and no request is about a  *)
(* report that is not made.                                                *)
THEOREM PrintJobsTypes == Spec => []TypeOK
<1>1. PrintInv => TypeOK
  BY DEF PrintInv
<1> QED
  BY <1>1, PrintAlways, PTL

(* A job that the server counts as done came out of a printer, or a till   *)
(* took it up while its printer there was off, however many agents hold it *)
(* and whichever of them reports last.                                     *)
THEOREM DoneWasPrintedAlways == Spec => []DoneWasPrinted
<1>1. PrintInv => DoneWasPrinted
  BY DEF PrintInv
<1> QED
  BY <1>1, PrintAlways, PTL

(* A job is given up only after agents took it up _MAX_RETRIES times:      *)
(* agents that report the same job at once, lost reports and lapsed claims *)
(* do not use the retries up.                                              *)
THEOREM GivenUpAfterTriesAlways == Spec => []GivenUpAfterTries
<1>1. PrintInv => GivenUpAfterTries
  BY DEF PrintInv
<1> QED
  BY <1>1, PrintAlways, PTL

=============================================================================
