--------------------------------- MODULE Service ---------------------------------
(***************************************************************************)
(* The HTTP service around the engine (api.py, db.py): requests that       *)
(* create runs, the background jobs that execute them, requests that       *)
(* verify one person or read a run, all on one small pool of database      *)
(* connections, in a process that may stop and start again.                *)
(*                                                                         *)
(* A session takes a connection with its first statement and gives it back *)
(* with its commit, rollback or end; who finds none waits, and fails when  *)
(* the pool's timeout is over.  Statements that end before the next vendor *)
(* call are one step with the connection they need; domains and single     *)
(* verifications keep theirs over the calls.  What a domain finds out is   *)
(* DomainTask's and FinderRun's; here it settles some of its rows.         *)
(***************************************************************************)
EXTENDS Integers, FiniteSets, Ingest

CONSTANTS
  Runs,      \* the runs that POST /runs, its upload and the MCP tools may create
  BodyOf,    \* run -> the records of its request
  Checks,    \* POST /verify requests
  NoRun,
  PoolSize,  \* DB_POOL_SIZE, without overflow
  Slots,     \* settings.max_concurrency, the semaphore of a run
  MaxStops   \* bound: how often the process stops or fails to start

Migrations == 4   \* attempts of init_db
Up == Migrations + 1

ASSUME ServiceAssumption ==
  /\ PoolSize \in Nat \ {0} /\ Slots \in Nat \ {0} /\ MaxStops \in Nat
  /\ \A r \in Runs : /\ BodyOf[r] \in Seq(ToSet(BodyOf[r]))
                     /\ \A record \in ToSet(BodyOf[r]) : record.written \in DOMAIN NameOf
  /\ Runs \cap Checks = {} /\ NoRun \notin Runs

VARIABLES
  boot,     \* 0 before create_all, then the attempt of init_db to migrate, or Up
  post,     \* run -> where its request is
  job,      \* run -> where execute_run is
  task,     \* <<run, domain>> -> where process_domain is
  halted,   \* run -> CostTracker.stopped
  check,    \* verify request -> where it is
  reading,  \* GET /runs/{id}: the run, the status it has read, the rows it shows
  status,   \* runs.status, or Absent
  open,     \* the rows that are `pending`
  report,   \* run -> the pending rows in runs.stats, or NoReport
  stops     \* how often the process has stopped or failed to start

memory == <<post, job, task, halted, check, reading>>
database == <<status, open, report>>
vars == <<boot, memory, database, stops>>

Absent == "absent"
NoReport == {NoRun}
NoReading == [run |-> NoRun, status |-> Absent, left |-> NoReport]

(* The rows of a run, and those create_run makes `pending`. *)
Created == [r \in Runs |-> Ingested(BodyOf[r])]
RowsOf(r) == {r} \X DOMAIN Created[r]
RecordOf(row) == Created[row[1]][row[2]]
Fresh == [r \in Runs |-> {row \in RowsOf(r) : CreatedAs(RecordOf(row)) = Pending}]
Left(r) == open \cap Fresh[r]

Domains == {RecordOf(row).domain : row \in UNION {Fresh[r] : r \in Runs}}
Tasks == Runs \X Domains
TasksOf(r) == {r} \X Domains
RowsIn(t) == {row \in Left(t[1]) : RecordOf(row).domain = t[2]}

(* A request, a run and a domain's task are not each other. *)
ASSUME NamesApart == (Runs \cup Checks) \cap Tasks = {}

(* Who has a connection between two steps. *)
Busy_FailuresKeep == {t \in Tasks : task[t] \in {"work", "error"}}
                     \cup {c \in Checks : check[c] = "work"}
                     \cup {r \in {reading.run} : r # NoRun /\ reading.left = NoReport}
Busy == {t \in Tasks : task[t] = "work"}
        \cup {c \in Checks : check[c] = "work"}
        \cup {r \in {reading.run} : r # NoRun /\ reading.left = NoReport}
Free_OneMore == Cardinality(Busy) <= PoolSize
Free == Cardinality(Busy) < PoolSize

-------------------------------------------------------------------------------
Init ==
  /\ boot = 0
  /\ post = [r \in Runs |-> "none"] /\ job = [r \in Runs |-> "none"]
  /\ task = [t \in Tasks |-> "none"] /\ halted = [r \in Runs |-> FALSE]
  /\ check = [c \in Checks |-> "none"] /\ reading = NoReading
  /\ status = [r \in Runs \cup Checks |-> Absent]
  /\ open = {} /\ report = [r \in Runs |-> NoReport]
  /\ stops = 0

(* lifespan: init_db creates the tables, tries to migrate, and starts the service
   whatever becomes of that. *)
Start ==
  /\ \/ boot = 0 /\ boot' = 1
     \/ boot \in 1 .. Migrations /\ boot' \in {boot + 1, Up}
  /\ UNCHANGED <<memory, database, stops>>

(* create_all fails outside every try: the process ends, to be started again. *)
StartFails ==
  /\ boot = 0 /\ stops < MaxStops
  /\ boot' = 0 /\ stops' = stops + 1
  /\ UNCHANGED <<memory, database>>

(* The process is stopped or dies: its tasks are cancelled and its memory and
   open transactions are gone; nothing looks for them at the next start. *)
Stop ==
  LET cut(state, over) == IF state \in over THEN state ELSE "gone" IN
  /\ boot = Up /\ stops < MaxStops
  /\ boot' = 0 /\ stops' = stops + 1
  /\ post' = [r \in Runs |-> cut(post[r], {"none", "answered", "failed", "gone"})]
  /\ job' = [r \in Runs |-> cut(job[r], {"none", "over", "gone"})]
  /\ task' = [t \in Tasks |-> "none"]
  /\ halted' = [r \in Runs |-> FALSE]
  /\ check' = [c \in Checks |-> cut(check[c], {"none", "answered", "failed", "gone"})]
  /\ reading' = NoReading
  /\ UNCHANGED <<database>>

-------------------------------------------------------------------------------
(* start_run and start_run_upload: the run and its rows are committed, then read
   again with another connection, and only then the job is spawned. *)

Posted(r) ==
  /\ boot = Up /\ post[r] = "none"
  /\ post' = [post EXCEPT ![r] = "posted"]
  /\ UNCHANGED <<boot, job, task, halted, check, reading, database, stops>>

CreateRun(r) ==
  /\ post[r] = "posted" /\ Free
  /\ post' = [post EXCEPT ![r] = "created"]
  /\ status' = [status EXCEPT ![r] = "pending"]
  /\ open' = open \cup Fresh[r]
  /\ UNCHANGED <<boot, job, task, halted, check, reading, report, stops>>

Spawn(r) ==
  /\ post[r] = "created" /\ Free
  /\ post' = [post EXCEPT ![r] = "answered"]
  /\ job' = [job EXCEPT ![r] = "spawned"]
  /\ UNCHANGED <<boot, task, halted, check, reading, database, stops>>

PostTimesOut(r) ==
  /\ post[r] \in {"posted", "created"} /\ ~Free
  /\ post' = [post EXCEPT ![r] = "failed"]
  /\ UNCHANGED <<boot, job, task, halted, check, reading, database, stops>>

-------------------------------------------------------------------------------
(* _job and execute_run *)

MarkRunning(r) ==
  /\ job[r] = "spawned" /\ Free
  /\ job' = [job EXCEPT ![r] = "marked"]
  /\ status' = [status EXCEPT ![r] = "running"]
  /\ UNCHANGED <<boot, post, task, halted, check, reading, open, report, stops>>

(* The commit gave the connection back; the rows are read with another one. *)
Group(r) ==
  /\ job[r] = "marked" /\ Free
  /\ job' = [job EXCEPT ![r] = "gather"]
  /\ task' = [t \in Tasks |-> IF t \in TasksOf(r) /\ RowsIn(t) # {} THEN "queued" ELSE task[t]]
  /\ UNCHANGED <<boot, post, halted, check, reading, database, stops>>

TaskEnds == {"none", "done", "ceiling", "error"}
Gathered_WithoutFailures(r) ==
  job[r] = "gather" /\ \A t \in TasksOf(r) : task[t] \in TaskEnds \ {"error"}
Gathered(r) == job[r] = "gather" /\ \A t \in TasksOf(r) : task[t] \in TaskEnds

Outcome_FailuresAside(r) ==
  IF halted[r] \/ \E t \in TasksOf(r) : task[t] = "ceiling" THEN "stopped" ELSE "completed"
Outcome(r) ==
  IF Left(r) # {} /\ \E t \in TasksOf(r) : task[t] = "error" THEN "failed"
  ELSE IF halted[r] \/ Left(r) # {} \/ \E t \in TasksOf(r) : task[t] = "ceiling" THEN "stopped"
  ELSE "completed"

Reported_AtStart(r) == Fresh[r]
Reported(r) == Left(r)

End(r) ==
  /\ Gathered(r) /\ Free
  /\ job' = [job EXCEPT ![r] = "over"]
  /\ status' = [status EXCEPT ![r] = Outcome(r)]
  /\ report' = [report EXCEPT ![r] = Reported(r)]
  /\ task' = [t \in Tasks |-> IF t \in TasksOf(r) THEN "none" ELSE task[t]]
  /\ UNCHANGED <<boot, post, halted, check, reading, open, stops>>

(* Outside the domains' tasks nothing catches it but _job, which logs it. *)
JobTimesOut(r) ==
  /\ job[r] \in {"spawned", "marked"} \/ Gathered(r)
  /\ ~Free
  /\ job' = [job EXCEPT ![r] = "over"]
  /\ task' = [t \in Tasks |-> IF t \in TasksOf(r) THEN "none" ELSE task[t]]
  /\ UNCHANGED <<boot, post, halted, check, reading, database, stops>>

-------------------------------------------------------------------------------
(* process_domain *)

(* `async with sem` *)
SlotFree(r) == Cardinality({t \in TasksOf(r) : task[t] \in {"slot", "work"}}) < Slots

Become(t, state) == task' = [task EXCEPT ![t] = state]

Enter(t) ==
  /\ task[t] = "queued" /\ SlotFree(t[1])
  /\ Become(t, IF halted[t[1]] THEN "done" ELSE "slot")
  /\ UNCHANGED <<boot, post, job, halted, check, reading, database, stops>>

Connect(t) ==
  /\ task[t] = "slot" /\ Free
  /\ Become(t, "work")
  /\ UNCHANGED <<boot, post, job, halted, check, reading, database, stops>>

(* The session waits for its connection in vain, or fails over its work, which
   rolls it back and ends it. *)
Fail(t) ==
  /\ (task[t] = "slot" /\ ~Free) \/ task[t] = "work"
  /\ Become(t, "error")
  /\ UNCHANGED <<boot, post, job, halted, check, reading, database, stops>>

(* CostTracker.stopped: a charge has reached the ceiling, or allow() refuses. *)
Halt(t) ==
  /\ task[t] = "work" /\ ~halted[t[1]]
  /\ halted' = [halted EXCEPT ![t[1]] = TRUE]
  /\ UNCHANGED <<boot, post, job, task, check, reading, database, stops>>

(* All its rows have their outcome, unless the tracker has stopped: then the loop
   leaves the others, or CostCeilingReached is raised over one of them and goes on
   to the job after the commit. *)
Commit(t) ==
  /\ task[t] = "work"
  /\ \E settled \in SUBSET RowsIn(t), raised \in BOOLEAN :
       /\ settled # RowsIn(t) => halted[t[1]]
       /\ raised => settled # RowsIn(t)
       /\ open' = open \ settled
       /\ Become(t, IF raised THEN "ceiling" ELSE "done")
  /\ UNCHANGED <<boot, post, job, halted, check, reading, status, report, stops>>

-------------------------------------------------------------------------------
(* verify_one: a run for it is committed and stays `pending`; then one session for
   the domain and the person, who is stored together with the outcome. *)

CheckMoves(c, from, to) ==
  /\ check[c] = from /\ check' = [check EXCEPT ![c] = to]
  /\ UNCHANGED <<boot, post, job, task, halted, reading, open, report, stops>>

CheckPosted(c) == boot = Up /\ CheckMoves(c, "none", "posted") /\ UNCHANGED status
CheckRun(c) ==
  Free /\ CheckMoves(c, "posted", "created") /\ status' = [status EXCEPT ![c] = "pending"]
CheckConnects(c) == Free /\ CheckMoves(c, "created", "work") /\ UNCHANGED status
CheckAnswers(c) ==
  \E end \in {"answered", "failed"} : CheckMoves(c, "work", end) /\ UNCHANGED status
CheckTimesOut(c) ==
  /\ ~Free /\ \E from \in {"posted", "created"} : CheckMoves(c, from, "failed")
  /\ UNCHANGED status

-------------------------------------------------------------------------------
(* get_run: the run's row, and unless that has statistics, the rows, with a second
   statement that may see later commits. *)

Read(r) ==
  /\ boot = Up /\ Free /\ status[r] # Absent
  /\ reading.run = NoRun \/ reading.left # NoReport
  /\ reading' = [run |-> r, status |-> status[r], left |-> report[r]]
  /\ UNCHANGED <<boot, post, job, task, halted, check, database, stops>>

Count ==
  /\ reading.run # NoRun /\ reading.left = NoReport
  /\ reading' = [reading EXCEPT !.left = Left(reading.run)]
  /\ UNCHANGED <<boot, post, job, task, halted, check, database, stops>>

-------------------------------------------------------------------------------
RunStep(r) == CreateRun(r) \/ Spawn(r) \/ MarkRunning(r) \/ Group(r) \/ End(r)
TaskStep(t) == Enter(t) \/ Connect(t) \/ Halt(t) \/ Commit(t) \/ Fail(t)
CheckStep(c) == CheckRun(c) \/ CheckConnects(c) \/ CheckAnswers(c)

Next ==
  \/ Start \/ StartFails \/ Stop
  \/ \E r \in Runs : Posted(r) \/ RunStep(r) \/ PostTimesOut(r) \/ JobTimesOut(r) \/ Read(r)
  \/ \E t \in Tasks : TaskStep(t)
  \/ \E c \in Checks : CheckPosted(c) \/ CheckStep(c) \/ CheckTimesOut(c)
  \/ Count

Spec == Init /\ [][Next]_vars

(* Fairness: the process is started again; the event loop runs what can run, the
   vendors answer or fail; and the pool serves those who wait in their order, so
   that nobody finds it free again and again without a turn. *)
Fairness ==
  /\ WF_vars(Start) /\ WF_vars(Count)
  /\ \A r \in Runs : SF_vars(RunStep(r) \/ \E t \in TasksOf(r) : TaskStep(t))
  /\ \A c \in Checks : SF_vars(CheckStep(c))

FairSpec == Spec /\ Fairness

-------------------------------------------------------------------------------
TypeOK ==
  /\ boot \in 0 .. Up
  /\ post \in [Runs -> {"none", "posted", "created", "answered", "failed", "gone"}]
  /\ job \in [Runs -> {"none", "spawned", "marked", "gather", "over", "gone"}]
  /\ task \in [Tasks -> TaskEnds \cup {"queued", "slot", "work"}]
  /\ halted \in [Runs -> BOOLEAN]
  /\ check \in [Checks -> {"none", "posted", "created", "work", "answered", "failed", "gone"}]
  /\ reading.run \in Runs \cup {NoRun} /\ reading.status \in RunStatuses \cup {Absent}
  /\ status \in [Runs \cup Checks -> RunStatuses \cup {Absent}]
  /\ open \subseteq UNION {Fresh[r] : r \in Runs}
  /\ \A r \in Runs : report[r] = NoReport \/ report[r] \subseteq Fresh[r]
  /\ stops \in 0 .. MaxStops
  /\ Cardinality(Busy) <= PoolSize

(* A job ends without writing how only when others have taken the connections: by
   then its own domains, the failed ones too, have given theirs back. *)
StarvedByOthersOnly ==
  [][\A r \in Runs :
       job[r] # "over" /\ job'[r] = "over" /\ status'[r] \notin RunEnds =>
         Cardinality(Busy \ TasksOf(r)) = PoolSize]_vars

(* What GET /runs/{id} shows of an ended run is how it ended, though the status and
   the rows are read apart and the rows may come from the stored statistics. *)
ReportsAgree ==
  reading.status \in RunEnds /\ reading.left # NoReport =>
    reading.left = Left(reading.run)

(* ingest.py:1 "domain-level dedupe": every person with a usable name and a domain
   has exactly one row of the run, however often and in whatever spelling the
   request names the person, also with the same name at another domain. *)
EveryoneOnce ==
  \A r \in Runs : status[r] # Absent =>
    \A record \in ToSet(BodyOf[r]) :
      record.domain # NoDomain /\ NameOf[record.written] # Nameless =>
        Cardinality({row \in RowsOf(r) : /\ RecordOf(row).domain = record.domain
                                        /\ NameOf[RecordOf(row).written] = NameOf[record.written]}) = 1

(* The runs of the service live as RunLifecycle says, over failing domains,
   waits that time out, stops of the process and restarts. *)
Lifecycle == INSTANCE RunLifecycle
  WITH status <- [r \in Runs |-> IF status[r] = Absent THEN "pending" ELSE status[r]],
       open <- [r \in Runs |-> IF status[r] = Absent THEN Fresh[r] ELSE Left(r)]
KeepsLifecycle == Lifecycle!Spec

(* Every request and every job comes to its end, with more domains at work than
   there are connections, each keeping its own over the calls. *)
Served ==
  /\ \A r \in Runs : post[r] \notin {"posted", "created"} /\ job[r] \notin {"spawned", "marked", "gather"}
  /\ \A c \in Checks : check[c] \notin {"posted", "created", "work"}
RequestsEnd == []<>Served

(* README.md:166-167: "Interrupted runs resume pending rows." *)
InterruptedRunsResume ==
  \A r \in Runs : job[r] = "gone" /\ status[r] = "running" ~> status[r] \in RunEnds
================================================================================
