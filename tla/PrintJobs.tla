----------------------------- MODULE PrintJobs -----------------------------
(***************************************************************************)
(* The queue of print jobs: apps/api/app/api/v1/print_jobs.py, and the     *)
(* agents that poll it, a till with the workstation switch on              *)
(* (remote_print_job_worker.dart) or a browser with printers paired to it  *)
(* (pos_web/src/stores/printer.ts).                                        *)
(*                                                                         *)
(* A poll is two steps, for it reads the claims that may have lapsed       *)
(* before it locks anything; so is a report.  The database session of a    *)
(* request writes the columns whose value differs from the one it read,    *)
(* and rows that it has read once are not read again when it locks them.   *)
(***************************************************************************)
EXTENDS Integers, FiniteSets

CONSTANTS
  Jobs,
  Agents,
  Tills,       \* the agents that are tills; the others are browsers
  Serves(_),   \* Serves(a): the jobs whose printer role agent a asks for
  MaxRetries,  \* _MAX_RETRIES
  MaxFaults    \* bound: lost messages, restarts of agents, slow agents

ASSUME AgentsFinite == IsFiniteSet(Agents)
ASSUME TillsType == Tills \subseteq Agents
ASSUME ServesJobs == \A a \in Agents : Serves(a) \subseteq Jobs
ASSUME MaxRetriesType == MaxRetries \in Nat \ {0}
ASSUME MaxFaultsType == MaxFaults \in Nat

VARIABLES
  job,      \* job[j]: the row of job j
  session,  \* session[a]: what the server has read for agent a's request
  held,     \* held[a]: the jobs of agent a's last poll it is not through with
  report,   \* report[a]: what agent a is telling the server, of which job
  off,      \* off[a]: the jobs whose printer is switched off at agent a
  tried,    \* tried[j]: how often an agent took up job j
  printed,  \* the jobs that came out of a printer
  skipped,  \* the jobs that a till took up while their printer was off
  faults

vars == <<job, session, held, report, off, tried, printed, skipped, faults>>
paper == <<off, tried, printed, skipped>>

---------------------------------------------------------------------------
Statuses == {"none", "pending", "printing", "done", "failed"}

(* claimed_at is null, of the last five minutes, or older.                 *)
Row == [status : Statuses, retries : Nat, claim : {"null", "fresh", "stale"}]

NoJob == [status |-> "none", retries |-> 0, claim |-> "null"]

Idle == [kind |-> "none"]
Polled == [kind : {"poll"}, claims : SUBSET Jobs, lapsed : SUBSET Jobs,
           spent : SUBSET Jobs]
Loaded == [kind : {"report"}, row : Row]

Silent == [says |-> "none"]
Report == [says : {"complete", "fail"}, job : Jobs]

TypeOK ==
  /\ job \in [Jobs -> Row]
  /\ session \in [Agents -> {Idle} \cup Polled \cup Loaded]
  /\ held \in [Agents -> SUBSET Jobs]
  /\ report \in [Agents -> {Silent} \cup Report]
  /\ off \in [Agents -> SUBSET Jobs]
  /\ tried \in [Jobs -> Nat]
  /\ printed \subseteq Jobs /\ skipped \subseteq Jobs
  /\ faults \in 0..MaxFaults

(* A till's printers are off until somebody switches them on.              *)
Init ==
  /\ job = [j \in Jobs |-> NoJob]
  /\ session = [a \in Agents |-> Idle]
  /\ held = [a \in Agents |-> {}]
  /\ report = [a \in Agents |-> Silent]
  /\ off = [a \in Agents |-> IF a \in Tills THEN Jobs ELSE {}]
  /\ tried = [j \in Jobs |-> 0]
  /\ printed = {} /\ skipped = {}
  /\ faults = 0

Open == {"printing", "pending"}

---------------------------------------------------------------------------
(* The queue.                                                              *)

Create(j) ==
  /\ job[j].status = "none"
  /\ job' = [job EXCEPT ![j].status = "pending"]
  /\ UNCHANGED <<session, held, report, paper, faults>>

(* Five minutes pass.  It is a fault if an agent is still at the job.      *)
Lapse(j) ==
  /\ job[j].claim = "fresh" /\ job[j].status \in Open
  /\ job' = [job EXCEPT ![j].claim = "stale"]
  /\ IF \E a \in Agents : j \in held[a]
     THEN faults < MaxFaults /\ faults' = faults + 1
     ELSE UNCHANGED faults
  /\ UNCHANGED <<session, held, report, paper>>

(* Mutant: claims never lapse.                                             *)
PollReadTrusting(a) ==
  /\ held[a] = {} /\ session[a] = Idle /\ Serves(a) # {}
  /\ session' = [session EXCEPT ![a] =
       [kind |-> "poll", claims |-> {}, lapsed |-> {}, spent |-> {}]]
  /\ UNCHANGED <<job, held, report, paper, faults>>

(* poll_pending_jobs, the rows it reads.  Lapsed claims of every role are  *)
(* looked at; an agent with no printer does not poll.                      *)
PollRead(a) ==
  LET claims == {j \in Jobs : job[j].status = "printing" /\ job[j].claim # "null"}
      lapsed == {j \in claims : job[j].claim = "stale"}
  IN  /\ held[a] = {} /\ session[a] = Idle /\ Serves(a) # {}
      /\ session' = [session EXCEPT ![a] =
           [kind |-> "poll", claims |-> claims, lapsed |-> lapsed,
            spent |-> {j \in lapsed : job[j].retries >= MaxRetries}]]
      /\ UNCHANGED <<job, held, report, paper, faults>>

(* A row whose claim had lapsed goes back to the queue, or is given up,    *)
(* whatever has become of it since.                                        *)
Requeued(poll, j) ==
  CASE j \in poll.spent  -> [job[j] EXCEPT !.status = "failed"]
    [] j \in poll.lapsed \ poll.spent ->
         [job[j] EXCEPT !.status = "pending", !.claim = "null"]
    [] OTHER -> job[j]

(* A row that was read as printing, and is not requeued, keeps the status  *)
(* it has in the database: the session sees no change to write.            *)
Claimed(poll, row, j) ==
  [row EXCEPT !.status = IF j \in poll.claims \ poll.lapsed THEN @ ELSE "printing",
              !.claim = "fresh"]

(* The pending rows are locked and claimed.  Without one nothing is        *)
(* committed, the requeued rows included.                                  *)
PollCommit(a) ==
  LET poll == session[a]
      requeued == [j \in Jobs |-> Requeued(poll, j)]
      mine == {j \in Serves(a) : requeued[j].status = "pending"}
  IN  /\ poll.kind = "poll"
      /\ session' = [session EXCEPT ![a] = Idle]
      /\ job' = IF mine = {} THEN job
                ELSE [j \in Jobs |-> IF j \in mine THEN Claimed(poll, requeued[j], j)
                                     ELSE requeued[j]]
      /\ \/ held' = [held EXCEPT ![a] = mine] /\ UNCHANGED faults
         \/ /\ mine # {} /\ faults < MaxFaults
            /\ faults' = faults + 1
            /\ UNCHANGED held
      /\ UNCHANGED <<report, paper>>

---------------------------------------------------------------------------
(* The agent, which goes through the jobs one by one.                      *)

(* Staff switch the printer of job j on or off, in the settings of a till. *)
Switch(a, j) ==
  /\ a \in Tills
  /\ off' = [off EXCEPT ![a] = IF j \in @ THEN @ \ {j} ELSE @ \cup {j}]
  /\ UNCHANGED <<job, session, held, report, tried, printed, skipped, faults>>

(* Mutant: a job is reported as done whether or not it came out.           *)
DispatchUnchecked(a) ==
  \E j \in held[a] :
    /\ report[a] = Silent
    /\ tried' = [tried EXCEPT ![j] = @ + 1]
    /\ report' = [report EXCEPT ![a] = [says |-> "complete", job |-> j]]
    /\ IF j \in off[a] THEN printed' = printed /\ skipped' = skipped \cup {j}
       ELSE printed' \in {printed, printed \cup {j}} /\ skipped' = skipped
    /\ UNCHANGED <<job, session, held, off, faults>>

(* A printer that is off is no error: the job is reported as if it came    *)
(* out.  A job that cannot be read fails either way.                       *)
Dispatch(a) ==
  \E j \in held[a] :
    /\ report[a] = Silent
    /\ tried' = [tried EXCEPT ![j] = @ + 1]
    /\ \/ /\ j \in off[a]
          /\ skipped' = skipped \cup {j}
          /\ report' = [report EXCEPT ![a] = [says |-> "complete", job |-> j]]
          /\ UNCHANGED printed
       \/ /\ j \notin off[a]
          /\ printed' = printed \cup {j}
          /\ report' = [report EXCEPT ![a] = [says |-> "complete", job |-> j]]
          /\ UNCHANGED skipped
       \/ /\ report' = [report EXCEPT ![a] = [says |-> "fail", job |-> j]]
          /\ UNCHANGED <<printed, skipped>>
    /\ UNCHANGED <<job, session, held, off, faults>>

(* After a good answer the agent goes on to the next job.  A report of     *)
(* completion that meets an error is followed by one of failure; when that *)
(* one fails, a browser goes on and a till forgets the jobs it holds.      *)
Succeeds(a) ==
  /\ report' = [report EXCEPT ![a] = Silent]
  /\ held' = [held EXCEPT ![a] = @ \ {report[a].job}]

Errs(a) ==
  \/ /\ report[a].says = "complete"
     /\ report' = [report EXCEPT ![a].says = "fail"]
     /\ UNCHANGED held
  \/ /\ report[a].says = "fail"
     /\ report' = [report EXCEPT ![a] = Silent]
     /\ held' \in {[held EXCEPT ![a] = @ \ {report[a].job}], [held EXCEPT ![a] = {}]}

(* complete_print_job and fail_print_job: 409 unless the job is open.      *)
ReportRead(a) ==
  LET row == job[report[a].job] IN
  /\ report[a] # Silent /\ session[a] = Idle
  /\ \/ /\ row.status \in Open
        /\ session' = [session EXCEPT ![a] = [kind |-> "report", row |-> row]]
        /\ UNCHANGED <<held, report>>
     \/ row.status \notin Open /\ Errs(a) /\ UNCHANGED session
  /\ UNCHANGED <<job, paper, faults>>

Completed(row, read) == [row EXCEPT !.status = "done"]

(* Mutant: the retries are counted down to a limit of one less.            *)
FailedEarly(row, read) ==
  [status  |-> IF read.retries + 2 >= MaxRetries THEN "failed"
               ELSE IF read.status = "pending" THEN row.status ELSE "pending",
   retries |-> read.retries + 1,
   claim   |-> IF read.claim = "null" \/ read.retries + 2 >= MaxRetries
               THEN row.claim ELSE "null"]

Failed(row, read) ==
  LET givenUp == read.retries + 1 >= MaxRetries IN
  [status  |-> IF givenUp THEN "failed"
               ELSE IF read.status = "pending" THEN row.status ELSE "pending",
   retries |-> read.retries + 1,
   claim   |-> IF givenUp \/ read.claim = "null" THEN row.claim ELSE "null"]

ReportCommit(a) ==
  LET j == report[a].job
      read == session[a].row
  IN  /\ session[a].kind = "report"
      /\ session' = [session EXCEPT ![a] = Idle]
      /\ job' = [job EXCEPT ![j] = IF report[a].says = "complete"
                                   THEN Completed(@, read) ELSE Failed(@, read)]
      /\ \/ Succeeds(a) /\ UNCHANGED faults
         \/ faults < MaxFaults /\ faults' = faults + 1 /\ Errs(a)
      /\ UNCHANGED paper

(* The report does not reach the server.                                   *)
ReportLost(a) ==
  /\ report[a] # Silent /\ session[a] = Idle
  /\ faults < MaxFaults
  /\ faults' = faults + 1
  /\ Errs(a)
  /\ UNCHANGED <<job, session, paper>>

Restart(a) ==
  /\ session[a] = Idle
  /\ faults < MaxFaults
  /\ faults' = faults + 1
  /\ held' = [held EXCEPT ![a] = {}]
  /\ report' = [report EXCEPT ![a] = Silent]
  /\ UNCHANGED <<job, session, paper>>

---------------------------------------------------------------------------
Work(a) == Dispatch(a) \/ ReportRead(a) \/ ReportCommit(a)
Poll(a) == PollRead(a) \/ PollCommit(a)

Next ==
  \/ \E j \in Jobs : Create(j) \/ Lapse(j)
  \/ \E a \in Agents : Poll(a) \/ Work(a) \/ ReportLost(a) \/ Restart(a)
  \/ \E a \in Agents, j \in Jobs : Switch(a, j)

Spec == Init /\ [][Next]_vars

(* Time passes, the agents poll every few seconds and work off what they   *)
(* are given.                                                              *)
Fairness ==
  /\ \A j \in Jobs : WF_vars(Lapse(j))
  /\ \A a \in Agents : WF_vars(Poll(a)) /\ WF_vars(Work(a))

FairSpec == Spec /\ Fairness

---------------------------------------------------------------------------
(* Properties.                                                             *)

(* A job counts as done only if it came out of a printer, whichever of the *)
(* agents that held it reported last, or if a till took it up while its    *)
(* printer there was off: the one way for paper to go missing unnoticed.   *)
DoneWasPrinted ==
  \A j \in Jobs : job[j].status = "done" => j \in printed \cup skipped

(* A job is given up only after an agent took it up MaxRetries times:      *)
(* claims that lapse, reports that are lost and failures told twice do not *)
(* use the retries up.                                                     *)
GivenUpAfterTries ==
  \A j \in Jobs : job[j].status = "failed" => tried[j] >= MaxRetries

(* Whatever is lost and however often the agent stops, a job that was      *)
(* created is some day done or given up.  True of a store with one agent:  *)
(* with two, what a poll requeues or gives up on a stale read may undo     *)
(* what the other has done since.                                          *)
JobIsSettled ==
  \A j \in Jobs :
    job[j].status # "none" ~> job[j].status \in {"done", "failed"}

---------------------------------------------------------------------------
(* What a comment says and the code does not do.                           *)

(* The backend claims jobs atomically: while no claim has lapsed and no    *)
(* message was lost, two agents never hold the same job.                   *)
ClaimIsExclusive ==
  \A a, b \in Agents : a # b /\ faults = 0 => held[a] \cap held[b] = {}

=============================================================================
