------------------------------ MODULE ServiceProofs -----------------------------
(* The runs of the service, for every pool, every set of requests and every way
   the engine settles the rows. *)
EXTENDS Service, FoldLemmas

USE DEF Pending, RunEnds, Absent

(* Where a run's request and its job are, against what the database says of it:
   RunLifecycle needs to know that a run is executed once and before it has ended,
   and ReportsAgree that an ended run is left alone. *)
InStep ==
  /\ status \in [Runs \cup Checks -> RunStatuses \cup {Absent}]
  /\ post \in [Runs -> {"none", "posted", "created", "answered", "failed", "gone"}]
  /\ job \in [Runs -> {"none", "spawned", "marked", "gather", "over", "gone"}]
  /\ task \in [Tasks -> TaskEnds \cup {"queued", "slot", "work"}]
  /\ report \in [Runs -> (SUBSET UNION {Fresh[r] : r \in Runs}) \cup {NoReport}]
  /\ \A r \in Runs :
       /\ post[r] \in {"none", "posted"} => status[r] = Absent
       /\ post[r] = "created" => status[r] = "pending" /\ job[r] = "none"
       /\ status[r] = Absent => job[r] = "none" /\ Left(r) = {}
       /\ job[r] = "spawned" => status[r] = "pending"
       /\ job[r] \in {"marked", "gather"} => status[r] = "running"
       /\ status[r] \in RunEnds => report[r] = Left(r)
  /\ \A t \in Tasks : task[t] # "none" => job[t[1]] = "gather"

ReadEnds ==
  reading.status \in RunEnds =>
    /\ reading.run \in Runs /\ status[reading.run] = reading.status
    /\ reading.left # NoReport => reading.left = Left(reading.run)

(* The rows of different runs are different rows. *)
LEMMA FreshApart ==
  ASSUME NEW r \in Runs, NEW s \in Runs, r # s PROVE Fresh[r] \cap Fresh[s] = {}
BY DEF Fresh, RowsOf

LEMMA ServiceInit == Init => InStep
<1> SUFFICES ASSUME Init PROVE InStep
  OBVIOUS
<1>1. \A r \in Runs : Left(r) = {}
  BY DEF Init, Left
<1>2. QED
  BY <1>1 DEF Init, InStep, TaskEnds

(***************************************************************************)
(* The invariant                                                           *)
(***************************************************************************)

(* Requests, jobs and tasks move on, with nothing written. *)
LEMMA QuietStep ==
  ASSUME InStep, UNCHANGED database,
         post' \in [Runs -> {"none", "posted", "created", "answered", "failed", "gone"}],
         job' \in [Runs -> {"none", "spawned", "marked", "gather", "over", "gone"}],
         task' \in [Tasks -> TaskEnds \cup {"queued", "slot", "work"}],
         \A r \in Runs :
           /\ post'[r] \in {"none", "posted"} => post[r] \in {"none", "posted"}
           /\ post'[r] = "created" => post[r] = "created" /\ job'[r] = job[r]
           /\ job'[r] # job[r] =>
                \/ job'[r] \in {"over", "gone"} /\ job[r] # "none"
                \/ job'[r] = "spawned" /\ post[r] = "created"
                \/ job'[r] = "gather" /\ job[r] = "marked",
         \A t \in Tasks : task'[t] # "none" => job'[t[1]] = "gather"
  PROVE  InStep'
<1>1. \A r \in Runs : Left(r)' = Left(r)
  BY DEF Left, database
<1>2. QED BY <1>1 DEF InStep, database

LEMMA PostedStep == ASSUME InStep, NEW r \in Runs, Posted(r) PROVE InStep'
BY QuietStep DEF Posted, InStep

LEMMA CreateRunStep == ASSUME InStep, NEW r \in Runs, CreateRun(r) PROVE InStep'
<1>1. /\ post[r] = "posted" /\ post' = [post EXCEPT ![r] = "created"]
      /\ status' = [status EXCEPT ![r] = "pending"] /\ open' = open \cup Fresh[r]
      /\ status[r] = Absent /\ job[r] = "none"
      /\ UNCHANGED <<job, task, report>>
  BY DEF CreateRun, InStep
<1>2. \A s \in Runs \ {r} : Left(s)' = Left(s)
  BY <1>1, FreshApart DEF Left
<1>3. /\ status'[r] = "pending" /\ post'[r] = "created"
      /\ \A s \in Runs \ {r} : status'[s] = status[s] /\ post'[s] = post[s]
  BY <1>1 DEF InStep
<1>4. /\ status' \in [Runs \cup Checks -> RunStatuses \cup {Absent}]
      /\ post' \in [Runs -> {"none", "posted", "created", "answered", "failed", "gone"}]
  BY <1>1 DEF InStep, RunStatuses
<1>5. QED BY <1>1, <1>2, <1>3, <1>4 DEF InStep

LEMMA MarkRunningStep == ASSUME InStep, NEW r \in Runs, MarkRunning(r) PROVE InStep'
<1>1. /\ job[r] = "spawned" /\ job' = [job EXCEPT ![r] = "marked"]
      /\ status' = [status EXCEPT ![r] = "running"]
      /\ UNCHANGED <<post, task, open, report>>
  BY DEF MarkRunning
<1>2. \A s \in Runs : Left(s)' = Left(s)
  BY <1>1 DEF Left
<1>3. /\ status' \in [Runs \cup Checks -> RunStatuses \cup {Absent}]
      /\ job' \in [Runs -> {"none", "spawned", "marked", "gather", "over", "gone"}]
      /\ status'[r] = "running" /\ job'[r] = "marked"
      /\ \A s \in Runs \ {r} : status'[s] = status[s] /\ job'[s] = job[s]
  BY <1>1 DEF InStep, RunStatuses
<1>4. post[r] \notin {"none", "posted", "created"}
  BY <1>1 DEF InStep
<1>5. \A t \in Tasks : t[1] \in Runs /\ (task[t] # "none" => t[1] # r)
  BY <1>1 DEF InStep, Tasks
<1>6. QED BY <1>1, <1>2, <1>3, <1>4, <1>5 DEF InStep

LEMMA EndStep == ASSUME InStep, NEW r \in Runs, End(r) PROVE InStep'
<1>1. /\ job[r] = "gather" /\ job' = [job EXCEPT ![r] = "over"]
      /\ status' = [status EXCEPT ![r] = Outcome(r)]
      /\ report' = [report EXCEPT ![r] = Left(r)]
      /\ task' = [t \in Tasks |-> IF t \in TasksOf(r) THEN "none" ELSE task[t]]
      /\ UNCHANGED <<post, open>>
  BY DEF End, Gathered, Reported
<1>2. Outcome(r) \in RunEnds /\ RunEnds \subseteq RunStatuses /\ Absent \notin RunEnds
  BY DEF Outcome, RunStatuses
<1>3. \A s \in Runs : Left(s)' = Left(s)
  BY <1>1 DEF Left
<1>4. /\ status' \in [Runs \cup Checks -> RunStatuses \cup {Absent}]
      /\ job' \in [Runs -> {"none", "spawned", "marked", "gather", "over", "gone"}]
      /\ status'[r] = Outcome(r) /\ job'[r] = "over"
      /\ \A s \in Runs \ {r} : status'[s] = status[s] /\ job'[s] = job[s]
  BY <1>1, <1>2 DEF InStep
<1>5. /\ report' \in [Runs -> (SUBSET UNION {Fresh[s] : s \in Runs}) \cup {NoReport}]
      /\ report'[r] = Left(r) /\ \A s \in Runs \ {r} : report'[s] = report[s]
  <2>1. Left(r) \in SUBSET UNION {Fresh[s] : s \in Runs}
    BY DEF Left
  <2>2. QED BY <1>1, <2>1 DEF InStep
<1>6. post[r] \notin {"none", "posted", "created"}
  BY <1>1 DEF InStep
<1>7. /\ task' \in [Tasks -> TaskEnds \cup {"queued", "slot", "work"}]
      /\ \A t \in Tasks : task'[t] # "none" => t[1] \in Runs \ {r} /\ task[t] # "none"
  BY <1>1 DEF InStep, TaskEnds, Tasks, TasksOf
<1>8. QED BY <1>1, <1>2, <1>3, <1>4, <1>5, <1>6, <1>7 DEF InStep

(* A domain settles rows of its own run, which is `running`. *)
LEMMA CommitStep ==
  ASSUME InStep, NEW t \in Tasks, Commit(t)
  PROVE  /\ InStep' /\ status[t[1]] = "running" /\ UNCHANGED status
         /\ \A s \in Runs \ {t[1]} : Left(s)' = Left(s)
         /\ Left(t[1])' \subseteq Left(t[1])
<1>1. PICK settled \in SUBSET RowsIn(t), state \in {"done", "ceiling"} :
        open' = open \ settled /\ task' = [task EXCEPT ![t] = state]
  BY DEF Commit, Become
<1>2. /\ task[t] = "work" /\ UNCHANGED <<post, job, status, report>>
      /\ t[1] \in Runs /\ job[t[1]] = "gather" /\ status[t[1]] = "running"
  BY DEF Commit, InStep, Tasks
<1>3. settled \subseteq Fresh[t[1]]
  BY DEF RowsIn, Left
<1>4. /\ \A s \in Runs \ {t[1]} : Left(s)' = Left(s)
      /\ Left(t[1])' \subseteq Left(t[1])
  BY <1>1, <1>2, <1>3, FreshApart DEF Left
<1>5. /\ task' \in [Tasks -> TaskEnds \cup {"queued", "slot", "work"}]
      /\ \A u \in Tasks : task'[u] # "none" => task[u] # "none"
  BY <1>1, <1>2 DEF InStep, TaskEnds
<1>6. InStep'
  BY <1>2, <1>4, <1>5 DEF InStep
<1>7. QED BY <1>2, <1>4, <1>6

(* A domain's other steps. *)
LEMMA TaskMoves ==
  ASSUME InStep, NEW t \in Tasks, Enter(t) \/ Connect(t) \/ Halt(t) \/ Fail(t) PROVE InStep'
<1>1. task' = task \/ \E state \in {"done", "slot", "work", "error"} : task' = [task EXCEPT ![t] = state]
  BY DEF Enter, Connect, Halt, Fail, Become
<1>2. task[t] # "none" /\ UNCHANGED <<post, job, database>>
  BY DEF Enter, Connect, Halt, Fail, database
<1>3. /\ task' \in [Tasks -> TaskEnds \cup {"queued", "slot", "work"}]
      /\ \A u \in Tasks : task'[u] # "none" => task[u] # "none"
  BY <1>1, <1>2 DEF InStep, TaskEnds
<1>4. QED BY <1>2, <1>3, QuietStep DEF InStep

LEMMA SpawnStep == ASSUME InStep, NEW r \in Runs, Spawn(r) PROVE InStep'
<1>1. /\ post[r] = "created" /\ job[r] = "none"
      /\ post' = [post EXCEPT ![r] = "answered"] /\ job' = [job EXCEPT ![r] = "spawned"]
      /\ UNCHANGED <<task, database>>
  BY DEF Spawn, database, InStep
<1>2. \A t \in Tasks : task[t] # "none" => t[1] \in Runs /\ t[1] # r
  BY <1>1 DEF InStep, Tasks
<1>3. QED BY <1>1, <1>2, QuietStep DEF InStep

LEMMA GroupStep == ASSUME InStep, NEW r \in Runs, Group(r) PROVE InStep'
<1>1. /\ job[r] = "marked" /\ job' = [job EXCEPT ![r] = "gather"]
      /\ task' = [t \in Tasks |->
                    IF t \in TasksOf(r) /\ RowsIn(t) # {} THEN "queued" ELSE task[t]]
      /\ UNCHANGED <<post, database>>
  BY DEF Group, database
<1>2. post[r] # "created"
  BY <1>1 DEF InStep
<1>3. /\ task' \in [Tasks -> TaskEnds \cup {"queued", "slot", "work"}]
      /\ \A t \in Tasks : task'[t] # "none" => t[1] = r \/ task[t] # "none"
  BY <1>1 DEF InStep, TasksOf
<1>4. \A t \in Tasks : t[1] \in Runs
  BY DEF Tasks
<1>5. QED BY <1>1, <1>2, <1>3, <1>4, QuietStep DEF InStep

LEMMA JobTimesOutStep == ASSUME InStep, NEW r \in Runs, JobTimesOut(r) PROVE InStep'
<1>1. /\ job[r] \in {"spawned", "marked", "gather"} /\ job' = [job EXCEPT ![r] = "over"]
      /\ task' = [t \in Tasks |-> IF t \in TasksOf(r) THEN "none" ELSE task[t]]
      /\ UNCHANGED <<post, database>>
  BY DEF JobTimesOut, Gathered, database
<1>2. post[r] # "created"
  BY <1>1 DEF InStep
<1>3. /\ task' \in [Tasks -> TaskEnds \cup {"queued", "slot", "work"}]
      /\ \A t \in Tasks : task'[t] # "none" => t[1] \in Runs \ {r} /\ task[t] # "none"
  BY <1>1 DEF InStep, TaskEnds, Tasks, TasksOf
<1>4. QED BY <1>1, <1>2, <1>3, QuietStep DEF InStep

LEMMA StopStep == ASSUME InStep, Stop PROVE InStep'
<1>1. \A r \in Runs :
        /\ post'[r] = IF post[r] \in {"none", "answered", "failed", "gone"}
                      THEN post[r] ELSE "gone"
        /\ job'[r] = IF job[r] \in {"none", "over", "gone"} THEN job[r] ELSE "gone"
  BY DEF Stop
<1>2. /\ post' \in [Runs -> {"none", "posted", "created", "answered", "failed", "gone"}]
      /\ job' \in [Runs -> {"none", "spawned", "marked", "gather", "over", "gone"}]
      /\ task' = [t \in Tasks |-> "none"] /\ UNCHANGED database
  BY DEF Stop, InStep
<1>3. task' \in [Tasks -> TaskEnds \cup {"queued", "slot", "work"}]
  BY <1>2 DEF TaskEnds
<1>4. QED BY <1>1, <1>2, <1>3, QuietStep

(* A single verification writes no row of a run's. *)
LEMMA CheckMovesStep ==
  ASSUME InStep, NEW c \in Checks,
         \/ CheckPosted(c) \/ CheckStep(c) \/ CheckTimesOut(c)
  PROVE  /\ InStep' /\ UNCHANGED <<open, reading>>
         /\ \A r \in Runs : status'[r] = status[r]
<1>1. /\ UNCHANGED <<post, job, task, open, report, reading>>
      /\ status' = status \/ status' = [status EXCEPT ![c] = "pending"]
  BY DEF CheckPosted, CheckStep, CheckTimesOut, CheckRun, CheckConnects, CheckAnswers, CheckMoves
<1>2. c \notin Runs
  BY ServiceAssumption
<1>3. /\ status' \in [Runs \cup Checks -> RunStatuses \cup {Absent}]
      /\ \A r \in Runs : status'[r] = status[r]
  BY <1>1, <1>2 DEF InStep, RunStatuses
<1>4. \A r \in Runs : Left(r)' = Left(r)
  BY <1>1 DEF Left
<1>5. QED BY <1>1, <1>3, <1>4 DEF InStep

(* What is left of Next. *)
Aside ==
  \/ Start \/ StartFails \/ Count
  \/ \E r \in Runs : Read(r) \/ PostTimesOut(r)

LEMMA AsideStep == ASSUME InStep, Aside PROVE InStep' /\ UNCHANGED database
<1>1. UNCHANGED <<job, task, database>>
  BY DEF Aside, Start, StartFails, Count, Read, PostTimesOut, memory, database
<1>2. CASE post' = post
  BY <1>1, <1>2, QuietStep DEF InStep
<1>3. ASSUME NEW r \in Runs, PostTimesOut(r) PROVE InStep'
  BY <1>1, <1>3, QuietStep DEF PostTimesOut, InStep
<1>4. QED
  BY <1>1, <1>2, <1>3 DEF Aside, Start, StartFails, Count, Read, memory

Moves ==
  \/ Stop \/ Aside
  \/ \E r \in Runs : Posted(r) \/ Spawn(r) \/ Group(r) \/ JobTimesOut(r)
  \/ \E t \in Tasks : Enter(t) \/ Connect(t) \/ Halt(t) \/ Fail(t)

(* Every step is one of these; only the second half writes to the database. *)
LEMMA Steps ==
  ASSUME Next
  PROVE  \/ Moves
         \/ \E r \in Runs : CreateRun(r) \/ MarkRunning(r) \/ End(r)
         \/ \E t \in Tasks : Commit(t)
         \/ \E c \in Checks : CheckPosted(c) \/ CheckStep(c) \/ CheckTimesOut(c)
BY DEF Next, Moves, Aside, RunStep, TaskStep

LEMMA MovesStep == ASSUME InStep, Moves PROVE InStep' /\ UNCHANGED database
<1>1. InStep'
  BY StopStep, AsideStep, PostedStep, SpawnStep, GroupStep, JobTimesOutStep, TaskMoves DEF Moves
<1>2. UNCHANGED database
  BY AsideStep DEF Moves, Stop, Posted, Spawn, Group, JobTimesOut, Enter, Connect, Halt, Fail, database
<1>3. QED BY <1>1, <1>2

LEMMA ServiceNext == ASSUME InStep, [Next]_vars PROVE InStep'
<1>1. CASE UNCHANGED vars
  <2>1. UNCHANGED <<post, job, task, database>>
    BY <1>1 DEF vars, memory, database
  <2>2. QED BY <2>1, QuietStep DEF InStep
<1>2. CASE Next
  BY <1>2, Steps, MovesStep, CreateRunStep, MarkRunningStep, EndStep, CommitStep, CheckMovesStep
<1>3. QED BY <1>1, <1>2

(***************************************************************************)
(* The life of a run                                                       *)
(***************************************************************************)

(* What RunLifecycle sees of the service. *)
Shown == [r \in Runs |-> IF status[r] = Absent THEN "pending" ELSE status[r]]
Open == [r \in Runs |-> IF status[r] = Absent THEN Fresh[r] ELSE Left(r)]
LifeStep == [Lifecycle!Next]_<<Shown, Open>>

(* Its creation shows nothing new of a run. *)
LEMMA UnseenSteps ==
  ASSUME InStep,
         \A r \in Runs :
           \/ status'[r] = status[r] /\ Left(r)' = Left(r)
           \/ status[r] = Absent /\ status'[r] = "pending" /\ Left(r)' = Fresh[r]
  PROVE  LifeStep
<1>1. Shown' = Shown
  BY DEF Shown
<1>2. Open' = Open
  BY DEF Open
<1>3. QED BY <1>1, <1>2 DEF LifeStep

LEMMA CreateRunLife == ASSUME InStep, NEW r \in Runs, CreateRun(r) PROVE LifeStep
<1>1. /\ status[r] = Absent /\ status' = [status EXCEPT ![r] = "pending"]
      /\ open' = open \cup Fresh[r]
  BY DEF CreateRun, InStep
<1>2. Left(r)' = Fresh[r] /\ \A s \in Runs \ {r} : Left(s)' = Left(s)
  BY <1>1, FreshApart DEF Left
<1>3. status'[r] = "pending" /\ \A s \in Runs \ {r} : status'[s] = status[s]
  BY <1>1 DEF InStep
<1>4. QED BY <1>1, <1>2, <1>3, UnseenSteps

LEMMA MarkRunningLife == ASSUME InStep, NEW r \in Runs, MarkRunning(r) PROVE LifeStep
<1>1. /\ status[r] = "pending" /\ status' = [status EXCEPT ![r] = "running"] /\ open' = open
  BY DEF MarkRunning, InStep
<1>2. status'[r] = "running" /\ \A s \in Runs \ {r} : status'[s] = status[s]
  BY <1>1 DEF InStep
<1>3. \A s \in Runs : Left(s)' = Left(s)
  BY <1>1 DEF Left
<1>4. Open' = Open
  BY <1>1, <1>2, <1>3 DEF Open
<1>5. Shown[r] = "pending" /\ Shown' = [Shown EXCEPT ![r] = "running"]
  BY <1>1, <1>2 DEF Shown
<1>6. Lifecycle!Execute(r)
  BY <1>4, <1>5 DEF Lifecycle!Execute, Shown, Open
<1>7. QED BY <1>6 DEF LifeStep, Lifecycle!Next

LEMMA EndLife == ASSUME InStep, NEW r \in Runs, End(r) PROVE LifeStep
<1>1. /\ status[r] = "running" /\ status' = [status EXCEPT ![r] = Outcome(r)] /\ open' = open
  BY DEF End, Gathered, InStep
<1>2. /\ Outcome(r) \in RunEnds
      /\ Outcome(r) = "completed" => Left(r) = {}
      /\ Outcome(r) = "failed" => Left(r) # {}
  BY DEF Outcome
<1>3. status'[r] = Outcome(r) /\ \A s \in Runs \ {r} : status'[s] = status[s]
  BY <1>1 DEF InStep
<1>4. \A s \in Runs : Left(s)' = Left(s)
  BY <1>1 DEF Left
<1>5. Open' = Open /\ Open[r] = Left(r)
  BY <1>1, <1>2, <1>3, <1>4 DEF Open
<1>6. Shown[r] = "running" /\ Shown' = [Shown EXCEPT ![r] = Outcome(r)]
  BY <1>1, <1>2, <1>3 DEF Shown
<1>7. Lifecycle!Finish(r)
  BY <1>2, <1>5, <1>6 DEF Lifecycle!Finish, Lifecycle!RunEnds, Shown, Open
<1>8. QED BY <1>7 DEF LifeStep, Lifecycle!Next

LEMMA CommitLife == ASSUME InStep, NEW t \in Tasks, Commit(t) PROVE LifeStep
<1>1. PICK r \in Runs : r = t[1]
  BY DEF Tasks
<1>2. /\ status[r] = "running" /\ status' = status /\ Left(r)' \subseteq Left(r)
      /\ \A s \in Runs \ {r} : Left(s)' = Left(s)
  BY <1>1, CommitStep
<1>3. Shown' = Shown /\ Shown[r] = "running"
  BY <1>2 DEF Shown
<1>4. Open' = [Open EXCEPT ![r] = Open'[r]] /\ Open'[r] \subseteq Open[r]
  BY <1>2 DEF Open
<1>5. Lifecycle!Settle(r)
  BY <1>3, <1>4 DEF Lifecycle!Settle, Shown, Open
<1>6. QED BY <1>5 DEF LifeStep, Lifecycle!Next

LEMMA ServiceLife == ASSUME InStep, [Next]_vars PROVE LifeStep
<1>1. CASE UNCHANGED database
  <2>1. status' = status /\ \A r \in Runs : Left(r)' = Left(r)
    BY <1>1 DEF database, Left
  <2>2. QED BY <2>1, UnseenSteps
<1>2. ASSUME NEW c \in Checks, CheckPosted(c) \/ CheckStep(c) \/ CheckTimesOut(c) PROVE LifeStep
  <2>1. (\A r \in Runs : status'[r] = status[r]) /\ open' = open
    BY <1>2, CheckMovesStep
  <2>2. QED BY <2>1, UnseenSteps DEF Left
<1>3. CASE UNCHANGED vars
  BY <1>1, <1>3 DEF vars
<1>4. QED
  BY <1>1, <1>2, <1>3, Steps, MovesStep, CreateRunLife, MarkRunningLife, EndLife, CommitLife

(* Over requests that fail half way, waits for a connection that time out, failing
   domains, stops of the process and restarts (api.py 47-62, 122-173, engine.py
   947-1057), the runs of the service live as RunLifecycle says. *)
THEOREM ServiceKeepsLifecycle == Spec => KeepsLifecycle
<1>1. Init => Lifecycle!Init
  BY DEF Init, Lifecycle!Init
<1>2. InStep /\ [Next]_vars =>
        [Lifecycle!Next]_<<[r \in Runs |-> IF status[r] = Absent THEN "pending" ELSE status[r]],
                           [r \in Runs |-> IF status[r] = Absent THEN Fresh[r] ELSE Left(r)]>>
  BY ServiceLife DEF LifeStep, Shown, Open
<1>3. QED
  BY ServiceInit, ServiceNext, <1>1, <1>2, PTL DEF Spec, KeepsLifecycle, Lifecycle!Spec

(***************************************************************************)
(* What a reader of the run sees                                           *)
(***************************************************************************)

(* What has ended stays as it is. *)
LEMMA EndedStays ==
  ASSUME InStep, Next, NEW r \in Runs, status[r] \in RunEnds
  PROVE  status'[r] = status[r] /\ Left(r)' = Left(r)
<1>1. job[r] \notin {"spawned", "gather"} /\ post[r] # "posted"
  BY DEF InStep
<1>2. CASE UNCHANGED database
  BY <1>2 DEF database, Left
<1>3. ASSUME NEW s \in Runs, CreateRun(s) \/ MarkRunning(s) \/ End(s)
      PROVE  status'[r] = status[r] /\ Left(r)' = Left(r)
  <2>1. s # r
    BY <1>1, <1>3 DEF CreateRun, MarkRunning, End, Gathered
  <2>2. \/ open' = open \/ open' = open \cup Fresh[s]
    BY <1>3 DEF CreateRun, MarkRunning, End
  <2>3. Left(r)' = Left(r)
    BY <2>1, <2>2, FreshApart DEF Left
  <2>4. \E state : status' = [status EXCEPT ![s] = state]
    BY <1>3 DEF CreateRun, MarkRunning, End
  <2>5. QED BY <2>1, <2>3, <2>4 DEF InStep
<1>4. ASSUME NEW t \in Tasks, Commit(t) PROVE status'[r] = status[r] /\ Left(r)' = Left(r)
  BY <1>4, CommitStep
<1>5. ASSUME NEW c \in Checks, CheckPosted(c) \/ CheckStep(c) \/ CheckTimesOut(c)
      PROVE  status'[r] = status[r] /\ Left(r)' = Left(r)
  BY <1>5, CheckMovesStep DEF Left
<1>6. QED BY <1>2, <1>3, <1>4, <1>5, Steps, MovesStep

LEMMA ReadingStep == ASSUME InStep, ReadEnds, [Next]_vars PROVE ReadEnds'
<1>1. CASE reading' = reading /\ Next
  BY <1>1, EndedStays DEF ReadEnds
<1>2. ASSUME NEW r \in Runs, Read(r) PROVE ReadEnds'
  <2>1. /\ reading' = [run |-> r, status |-> status[r], left |-> report[r]]
        /\ UNCHANGED <<status, open>>
    BY <1>2 DEF Read, database
  <2>2. QED BY <2>1 DEF ReadEnds, InStep, Left
<1>3. CASE Count
  <2>1. /\ reading' = [reading EXCEPT !.left = Left(reading.run)]
        /\ UNCHANGED <<status, open>>
    BY <1>3 DEF Count, database
  <2>2. QED BY <2>1 DEF ReadEnds, Left
<1>4. CASE Stop
  BY <1>4 DEF Stop, NoReading, ReadEnds
<1>5. CASE UNCHANGED vars
  BY <1>5 DEF vars, memory, database, ReadEnds, Left
<1>6. Next => \/ reading' = reading \/ Stop \/ Count \/ \E r \in Runs : Read(r)
  BY CheckMovesStep DEF Next, RunStep, TaskStep, Start, StartFails, Posted, CreateRun, Spawn, MarkRunning,
     Group, End, PostTimesOut, JobTimesOut, Enter, Connect, Halt, Commit, Fail, memory
<1>7. QED BY <1>1, <1>2, <1>3, <1>4, <1>5, <1>6

(* GET /runs/{id} (api.py 194-205): an ended run is shown with the rows it was left
   with, though its status and its rows are read apart, or the rows come from the
   statistics it has stored. *)
THEOREM ReadersAgree == Spec => []ReportsAgree
<1>1. Init => ReadEnds
  BY DEF Init, NoReading, ReadEnds
<1>2. ReadEnds => ReportsAgree
  BY DEF ReadEnds, ReportsAgree
<1>3. QED BY ServiceInit, ServiceNext, ReadingStep, <1>1, <1>2, PTL DEF Spec

(***************************************************************************)
(* The pool                                                                *)
(***************************************************************************)

(* The parts of the types that InStep leaves out. *)
Rest ==
  /\ boot \in 0 .. Up /\ stops \in 0 .. MaxStops
  /\ halted \in [Runs -> BOOLEAN]
  /\ check \in [Checks -> {"none", "posted", "created", "work", "answered", "failed", "gone"}]
  /\ reading = [run |-> reading.run, status |-> reading.status, left |-> reading.left]
  /\ reading.run \in Runs \cup {NoRun} /\ reading.status \in RunStatuses \cup {Absent}
  /\ open \subseteq UNION {Fresh[r] : r \in Runs}
  /\ \A r \in Runs : report[r] = NoReport \/ report[r] \subseteq Fresh[r]

Pooled == IsFiniteSet(Busy) /\ Cardinality(Busy) <= PoolSize

(* Who has a connection kept it, or one took a free one. *)
OneMore == Busy' \subseteq Busy \/ (Free /\ \E x : Busy' \subseteq Busy \cup {x})

LEMMA PooledStep == ASSUME Pooled, OneMore PROVE Pooled'
<1>1. CASE Busy' \subseteq Busy
  <2>1. IsFiniteSet(Busy') /\ Cardinality(Busy') <= Cardinality(Busy)
    BY <1>1, FS_Subset DEF Pooled
  <2>2. Cardinality(Busy') \in Nat /\ Cardinality(Busy) \in Nat
    BY <2>1, FS_CardinalityType DEF Pooled
  <2>3. QED BY <2>1, <2>2, ServiceAssumption DEF Pooled
<1>2. ASSUME Free, NEW x, Busy' \subseteq Busy \cup {x} PROVE Pooled'
  <2>1. /\ IsFiniteSet(Busy \cup {x})
        /\ Cardinality(Busy \cup {x}) = IF x \in Busy THEN Cardinality(Busy) ELSE Cardinality(Busy) + 1
    BY FS_AddElement DEF Pooled
  <2>2. IsFiniteSet(Busy') /\ Cardinality(Busy') <= Cardinality(Busy \cup {x})
    BY <1>2, <2>1, FS_Subset
  <2>3. Cardinality(Busy') \in Nat /\ Cardinality(Busy) \in Nat
    BY <2>2, FS_CardinalityType DEF Pooled
  <2>4. QED BY <1>2, <2>1, <2>2, <2>3, ServiceAssumption DEF Pooled, Free
<1>3. QED BY <1>1, <1>2 DEF OneMore

LEMMA RestInit == Init => Rest /\ Pooled
<1> SUFFICES ASSUME Init PROVE Rest /\ Pooled
  OBVIOUS
<1>1. Rest
  BY ServiceAssumption DEF Init, Rest, NoReading, Up, Migrations
<1>2. Busy = {}
  BY DEF Init, Busy, NoReading
<1>3. QED BY <1>1, <1>2, FS_EmptySet, ServiceAssumption DEF Pooled

(* Nobody gets to work who was not, and nobody begins to read. *)
LEMMA NobodyMore ==
  ASSUME \A t \in Tasks : task'[t] = "work" => task[t] = "work",
         \A c \in Checks : check'[c] = "work" => check[c] = "work",
         reading' = reading
  PROVE  OneMore
BY DEF OneMore, Busy

LEMMA RestBusy ==
  ASSUME InStep, Rest, [Next]_vars
  PROVE  Rest' /\ OneMore
<1>1. CASE UNCHANGED vars
  <2>1. UNCHANGED <<task, check, reading, boot, stops, halted, open, report, status>>
    BY <1>1 DEF vars, memory, database
  <2>2. QED BY <2>1, NobodyMore DEF Rest
<1>2. CASE Start \/ StartFails
  <2>1. UNCHANGED <<task, check, reading, halted, open, report>>
    BY <1>2 DEF Start, StartFails, memory, database
  <2>2. boot' \in 0 .. Up /\ stops' \in 0 .. MaxStops
    BY <1>2, ServiceAssumption DEF Start, StartFails, Rest, Up, Migrations
  <2>3. QED BY <2>1, <2>2, NobodyMore DEF Rest
<1>3. CASE Stop
  <2>1. /\ boot' = 0 /\ stops < MaxStops /\ stops' = stops + 1
        /\ halted' = [r \in Runs |-> FALSE] /\ reading' = NoReading
        /\ task' = [t \in Tasks |-> "none"]
        /\ open' = open /\ report' = report
    BY <1>3 DEF Stop, database
  <2>2. /\ check' \in [Checks -> {"none", "posted", "created", "work", "answered", "failed", "gone"}]
        /\ \A c \in Checks : check'[c] # "work"
    <3>1. check' = [c \in Checks |-> IF check[c] \in {"none", "answered", "failed", "gone"} THEN check[c] ELSE "gone"]
      BY <1>3 DEF Stop
    <3>2. QED BY <3>1 DEF Rest
  <2>3. Busy' = {}
    BY <2>1, <2>2 DEF Busy, NoReading
  <2>4. Rest'
    BY <2>1, <2>2, ServiceAssumption DEF Rest, NoReading, Up, Migrations
  <2>5. QED BY <2>3, <2>4 DEF OneMore
<1>4. ASSUME NEW r \in Runs, Posted(r) \/ Spawn(r) \/ PostTimesOut(r) \/ MarkRunning(r)
      PROVE  Rest' /\ OneMore
  <2>1. UNCHANGED <<task, check, reading, boot, stops, halted, open, report>>
    BY <1>4 DEF Posted, Spawn, PostTimesOut, MarkRunning, database
  <2>2. QED BY <2>1, NobodyMore DEF Rest
<1>5. ASSUME NEW r \in Runs, CreateRun(r) PROVE Rest' /\ OneMore
  <2>1. UNCHANGED <<task, check, reading, boot, stops, halted, report>> /\ open' = open \cup Fresh[r]
    BY <1>5 DEF CreateRun
  <2>2. QED BY <2>1, NobodyMore DEF Rest
<1>6. ASSUME NEW r \in Runs, Group(r) \/ JobTimesOut(r) PROVE Rest' /\ OneMore
  <2>1. UNCHANGED <<check, reading, boot, stops, halted, open, report>>
    BY <1>6 DEF Group, JobTimesOut, database
  <2>2. \A t \in Tasks : task'[t] = "work" => task[t] = "work"
    BY <1>6 DEF Group, JobTimesOut
  <2>3. QED BY <2>1, <2>2, NobodyMore DEF Rest
<1>7. ASSUME NEW r \in Runs, End(r) PROVE Rest' /\ OneMore
  <2>1. /\ UNCHANGED <<check, reading, boot, stops, halted, open>>
        /\ report' = [report EXCEPT ![r] = Left(r)]
    BY <1>7 DEF End, Reported
  <2>2. \A t \in Tasks : task'[t] = "work" => task[t] = "work"
    BY <1>7 DEF End
  <2>3. \A s \in Runs : report'[s] = NoReport \/ report'[s] \subseteq Fresh[s]
    BY <2>1 DEF Rest, InStep, Left
  <2>4. QED BY <2>1, <2>2, <2>3, NobodyMore DEF Rest
<1>8. ASSUME NEW t \in Tasks, Enter(t) \/ Halt(t) \/ Fail(t) PROVE Rest' /\ OneMore
  <2>1. UNCHANGED <<check, reading, boot, stops, open, report>>
    BY <1>8 DEF Enter, Halt, Fail, database
  <2>2. \A u \in Tasks : task'[u] = "work" => task[u] = "work"
    BY <1>8 DEF Enter, Halt, Fail, Become, InStep
  <2>3. halted' \in [Runs -> BOOLEAN]
    BY <1>8 DEF Enter, Halt, Fail, Rest
  <2>4. QED BY <2>1, <2>2, <2>3, NobodyMore DEF Rest
<1>9. ASSUME NEW t \in Tasks, Connect(t) PROVE Rest' /\ OneMore
  <2>1. /\ UNCHANGED <<check, reading, boot, stops, halted, open, report>>
        /\ Free /\ task' = [task EXCEPT ![t] = "work"]
    BY <1>9 DEF Connect, Become, database
  <2>2. Busy' \subseteq Busy \cup {t}
    BY <2>1 DEF Busy, InStep
  <2>3. QED BY <2>1, <2>2 DEF OneMore, Rest
<1>10. ASSUME NEW t \in Tasks, Commit(t) PROVE Rest' /\ OneMore
  <2>1. UNCHANGED <<check, reading, boot, stops, halted, report>> /\ open' \subseteq open
    BY <1>10 DEF Commit
  <2>2. \A u \in Tasks : task'[u] = "work" => task[u] = "work"
    BY <1>10 DEF Commit, Become, InStep
  <2>3. QED BY <2>1, <2>2, NobodyMore DEF Rest
<1>11. ASSUME NEW c \in Checks, CheckPosted(c) \/ CheckRun(c) \/ CheckAnswers(c) \/ CheckTimesOut(c)
       PROVE  Rest' /\ OneMore
  <2>1. /\ UNCHANGED <<task, reading, boot, stops, halted, open, report>>
        /\ \E to \in {"posted", "created", "answered", "failed"} : check' = [check EXCEPT ![c] = to]
    BY <1>11 DEF CheckPosted, CheckRun, CheckAnswers, CheckTimesOut, CheckMoves
  <2>2. \A d \in Checks : check'[d] = "work" => check[d] = "work"
    BY <2>1 DEF Rest
  <2>3. QED BY <2>1, <2>2, NobodyMore DEF Rest
<1>12. ASSUME NEW c \in Checks, CheckConnects(c) PROVE Rest' /\ OneMore
  <2>1. /\ UNCHANGED <<task, reading, boot, stops, halted, open, report>>
        /\ Free /\ check' = [check EXCEPT ![c] = "work"]
    BY <1>12 DEF CheckConnects, CheckMoves
  <2>2. Busy' \subseteq Busy \cup {c}
    BY <2>1 DEF Busy, Rest
  <2>3. QED BY <2>1, <2>2 DEF OneMore, Rest
<1>13. ASSUME NEW r \in Runs, Read(r) PROVE Rest' /\ OneMore
  <2>1. /\ UNCHANGED <<task, check, boot, stops, halted, open, report>>
        /\ Free /\ reading' = [run |-> r, status |-> status[r], left |-> report[r]]
    BY <1>13 DEF Read, database
  <2>2. Busy' \subseteq Busy \cup {r}
    BY <2>1 DEF Busy
  <2>3. QED BY <2>1, <2>2 DEF OneMore, Rest, InStep
<1>14. CASE Count
  <2>1. /\ UNCHANGED <<task, check, boot, stops, halted, open, report>>
        /\ reading.run # NoRun /\ reading.left = NoReport
        /\ reading' = [reading EXCEPT !.left = Left(reading.run)]
    BY <1>14 DEF Count, database
  <2>2. reading'.run \in {reading.run} /\ reading'.status \in {reading.status}
    BY <2>1 DEF Rest
  <2>3. Busy' \subseteq Busy
    BY <2>1, <2>2 DEF Busy
  <2>4. QED BY <2>1, <2>2, <2>3 DEF OneMore, Rest
<1>15. QED
  BY <1>1, <1>2, <1>3, <1>4, <1>5, <1>6, <1>7, <1>8, <1>9, <1>10, <1>11, <1>12, <1>13, <1>14
  DEF Next, RunStep, TaskStep, CheckStep

(* TypeOK has the bound of the pool: with their steps of one transaction and those
   over which they keep a connection, requests, jobs and domains never hold more
   than DB_POOL_SIZE at once (db.py 21-43, engine.py 776-841, api.py 226-314). *)
THEOREM TypeCorrect == Spec => []TypeOK
<1>1. InStep /\ Rest /\ Pooled => TypeOK
  BY DEF InStep, Rest, Pooled, TypeOK
<1>2. InStep /\ Rest /\ Pooled /\ [Next]_vars => Rest' /\ Pooled'
  BY RestBusy, PooledStep
<1>3. QED BY ServiceInit, ServiceNext, RestInit, <1>1, <1>2, PTL DEF Spec

(* Before it has spawned its domains, and once all of them have ended, a run has no
   connection. *)
LEMMA NoneItsOwn ==
  ASSUME InStep, Rest, NEW r \in Runs, job[r] \in {"spawned", "marked"} \/ Gathered(r)
  PROVE  Busy \ TasksOf(r) = Busy
<1>1. TasksOf(r) \subseteq Tasks /\ \A t \in TasksOf(r) : t \in Tasks /\ t[1] = r
  BY DEF TasksOf, Tasks
<1>2. \A t \in TasksOf(r) : task[t] # "work"
  <2>1. CASE job[r] \in {"spawned", "marked"}
    BY <1>1, <2>1 DEF InStep
  <2>2. CASE Gathered(r)
    BY <2>2 DEF Gathered, TaskEnds
  <2>3. QED BY <2>1, <2>2
<1>3. Checks \cap TasksOf(r) = {} /\ Runs \cap TasksOf(r) = {}
  BY <1>1, NamesApart
<1>4. {s \in {reading.run} : s # NoRun /\ reading.left = NoReport} \cap TasksOf(r) = {}
  BY <1>3 DEF Rest
<1>5. QED
  BY <1>2, <1>3, <1>4 DEF Busy

(* A job that ends without writing how (engine.py 954-981, 1023-1046: no connection in
   DB_POOL_TIMEOUT) found all of them with others: its own domains hold none. *)
THEOREM JobsStarveByOthersOnly == Spec => StarvedByOthersOnly
<1>1. ASSUME InStep, Rest, Pooled, Next, NEW r \in Runs,
             job[r] # "over", job'[r] = "over", status'[r] \notin RunEnds
      PROVE  Cardinality(Busy \ TasksOf(r)) = PoolSize
  <2>1. JobTimesOut(r)
    <3>1. ASSUME NEW s \in Runs, s # r, JobTimesOut(s) \/ End(s) \/ Spawn(s) \/ MarkRunning(s) \/ Group(s)
          PROVE  job'[r] = job[r]
      BY <1>1, <3>1 DEF JobTimesOut, End, Spawn, MarkRunning, Group, InStep
    <3>2. ~Spawn(r) /\ ~MarkRunning(r) /\ ~Group(r)
      BY <1>1 DEF Spawn, MarkRunning, Group, InStep
    <3>3. ~End(r)
      <4>1. Outcome(r) \in RunEnds
        BY DEF Outcome
      <4>2. End(r) => status'[r] = Outcome(r)
        BY <1>1 DEF End, InStep
      <4>3. QED BY <1>1, <4>1, <4>2
    <3>4. ~Stop
      BY <1>1 DEF Stop
    <3>5. \/ job' = job \/ Stop
          \/ \E s \in Runs : JobTimesOut(s) \/ End(s) \/ Spawn(s) \/ MarkRunning(s) \/ Group(s)
      BY <1>1, CheckMovesStep DEF Next, RunStep, TaskStep, CheckStep, Start, StartFails, Count, Posted, CreateRun,
         PostTimesOut, Read, Enter, Connect, Halt, Commit, Fail, CheckPosted, CheckRun, CheckConnects,
         CheckAnswers, CheckTimesOut, CheckMoves, memory
    <3>6. QED BY <1>1, <3>1, <3>2, <3>3, <3>4, <3>5
  <2>2. ~Free /\ (job[r] \in {"spawned", "marked"} \/ Gathered(r))
    BY <2>1 DEF JobTimesOut
  <2>3. Busy \ TasksOf(r) = Busy
    BY <1>1, <2>2, NoneItsOwn
  <2>4. Cardinality(Busy) \in Nat
    BY <1>1, FS_CardinalityType DEF Pooled
  <2>5. Cardinality(Busy) = PoolSize
    <3>1. Cardinality(Busy) <= PoolSize /\ ~(Cardinality(Busy) < PoolSize)
      BY <1>1, <2>2 DEF Pooled, Free
    <3>2. PoolSize \in Nat
      BY ServiceAssumption
    <3>3. QED BY <2>4, <3>1, <3>2
  <2>6. QED BY <2>3, <2>5
<1>2. InStep /\ Rest /\ Pooled /\ [Next]_vars =>
        [\A r \in Runs :
           job[r] # "over" /\ job'[r] = "over" /\ status'[r] \notin RunEnds =>
             Cardinality(Busy \ TasksOf(r)) = PoolSize]_vars
  BY <1>1
<1>3. InStep /\ Rest /\ Pooled /\ [Next]_vars => Rest' /\ Pooled'
  BY RestBusy, PooledStep
<1>4. QED BY ServiceInit, ServiceNext, RestInit, <1>2, <1>3, PTL DEF Spec, StarvedByOthersOnly

(***************************************************************************)
(* The people of a request                                                 *)
(***************************************************************************)

(* One round of ingest_records. *)
Keep(rows, record) ==
  IF record.domain = NoDomain \/ \E row \in ToSet(rows) : Key(row) = Key(record)
  THEN rows ELSE Append(rows, record)

(* The fold goes through the rounds. *)
LEMMA IngestRounds ==
  ASSUME NEW D, NEW records \in Seq(D)
  PROVE  \E v \in [0 .. Len(records) -> Seq(D)] :
           /\ v[0] = << >>
           /\ \A k \in 1 .. Len(records) : v[k] = Keep(v[k - 1], records[k])
           /\ Ingested(records) = v[Len(records)]
<1> DEFINE n == Len(records)
           A == Seq(D)
           F == [p \in (1 .. n) \X A |-> Keep(p[2], records[p[1]])]
           E(g) == [s \in SUBSET (1 .. n) |->
                     IF s = {} THEN << >> ELSE Keep(g[s \ {Max(s)}], records[Max(s)])]
           G == CHOOSE g : g = E(g)
<1>1. PICK base \in A : base = << >>
  <2>1. << >> \in A
    OBVIOUS
  <2>2. QED BY <2>1
<1>2. n \in Nat /\ DOMAIN records = 1 .. n /\ \A k \in 1 .. n : records[k] \in D
  OBVIOUS
<1>3. F \in [(1 .. n) \X A -> A]
  <2>1. ASSUME NEW k \in 1 .. n, NEW a \in A PROVE Keep(a, records[k]) \in A
    BY <1>2 DEF Keep
  <2>2. QED BY <2>1
<1>4. \A k \in 1 .. n, a \in A : F[<<k, a>>] = Keep(a, records[k])
  OBVIOUS
<1>5. \A s \in SUBSET (1 .. n) : s # {} => Max(s) \in 1 .. n
  BY <1>2, MaxOfPrefix
<1> HIDE DEF F, A, n
<1>6. \E g : g = E(g)
  <2>1. PICK g \in [SUBSET (1 .. n) -> A] : LeftTabled(g, n, base, F)
    BY <1>1, <1>2, <1>3, LeftTable
  <2>2. ASSUME NEW s \in SUBSET (1 .. n) PROVE g[s] = E(g)[s]
    <3>1. CASE s = {}
      BY <1>1, <2>1, <3>1 DEF LeftTabled
    <3>2. CASE s # {}
      BY <1>4, <1>5, <2>1, <3>2 DEF LeftTabled
    <3>3. QED BY <3>1, <3>2
  <2>3. QED BY <2>2
<1>7. G = E(G)
  BY <1>6
<1>8. Ingested(records) = G[1 .. n]
  BY <1>2 DEF Ingested, FoldLeft, MapThenFoldSet, Keep
<1> HIDE DEF G
<1>9. FoldsLike(G, n, A, base, F)
  BY <1>1, <1>4, <1>5, <1>7 DEF FoldsLike
<1>10. PICK v \in [0 .. n -> A] : GoesThrough(v, n, base, F) /\ G[1 .. n] = v[n]
  <2>1. LeftEnds(G, n, A, base, F)
    BY <1>1, <1>2, <1>3, <1>9, LeftValues
  <2>2. QED BY <2>1 DEF LeftEnds
<1>11. ASSUME NEW k \in 1 .. n PROVE v[k] = Keep(v[k - 1], records[k])
  <2>1. k - 1 \in 0 .. n
    BY <1>2
  <2>2. v[k - 1] \in A
    BY <1>10, <2>1
  <2>3. QED BY <1>4, <1>10, <2>2 DEF GoesThrough
<1>12. QED BY <1>1, <1>8, <1>10, <1>11 DEF GoesThrough, n, A

(* ingest_records: every name at a domain has exactly one place in the result. *)
LEMMA IngestedOnce ==
  ASSUME NEW D, NEW records \in Seq(D), NEW record \in ToSet(records), record.domain # NoDomain
  PROVE  /\ \E i \in DOMAIN Ingested(records) : Key(Ingested(records)[i]) = Key(record)
         /\ \A i, j \in DOMAIN Ingested(records) :
              Key(Ingested(records)[i]) = Key(Ingested(records)[j]) => i = j
<1> DEFINE n == Len(records)
<1>1. PICK v \in [0 .. n -> Seq(D)] :
        /\ v[0] = << >>
        /\ \A k \in 1 .. n : v[k] = Keep(v[k - 1], records[k])
        /\ Ingested(records) = v[n]
  BY IngestRounds
<1>2. n \in Nat /\ DOMAIN records = 1 .. n
  OBVIOUS
<1>3. PICK m \in 1 .. n : record = records[m]
  BY DEF ToSet
<1> DEFINE Good(k) ==
             /\ \A i, j \in DOMAIN v[k] : Key(v[k][i]) = Key(v[k][j]) => i = j
             /\ m <= k => \E i \in DOMAIN v[k] : Key(v[k][i]) = Key(record)
           T == {k \in 0 .. n : Good(k)}
<1> HIDE DEF n
<1>4. 0 \in T
  BY <1>1, <1>2, <1>3
<1>5. ASSUME NEW k \in 1 .. n, k - 1 \in T PROVE k \in T
  <2>1. v[k] = Keep(v[k - 1], records[k]) /\ v[k - 1] \in Seq(D) /\ v[k] \in Seq(D) /\ k \in 0 .. n
    BY <1>1, <1>2
  <2>2. m <= k => m <= k - 1 \/ m = k
    BY <1>2, <1>3
  <2>3. PICK a, b : a = v[k - 1] /\ b = v[k]
    OBVIOUS
  <2>4. a \in Seq(D) /\ ToSet(a) = {a[i] : i \in DOMAIN a}
    BY <2>1, <2>3 DEF ToSet
  <2>5. /\ \A i, j \in DOMAIN a : Key(a[i]) = Key(a[j]) => i = j
        /\ m <= k - 1 => \E i \in DOMAIN a : Key(a[i]) = Key(record)
    BY <1>5, <2>3
  <2>6. CASE records[k].domain = NoDomain \/ \E row \in ToSet(a) : Key(row) = Key(records[k])
    <3>1. b = a
      BY <2>1, <2>3, <2>6 DEF Keep
    <3>2. m = k => \E i \in DOMAIN a : Key(a[i]) = Key(record)
      BY <1>3, <2>4, <2>6
    <3>3. QED BY <2>1, <2>2, <2>3, <2>5, <3>1, <3>2
  <2>7. CASE records[k].domain # NoDomain /\ ~\E row \in ToSet(a) : Key(row) = Key(records[k])
    <3>1. b = Append(a, records[k])
      BY <2>1, <2>3, <2>7 DEF Keep
    <3>2. /\ Len(a) \in Nat /\ DOMAIN a = 1 .. Len(a) /\ DOMAIN b = 1 .. (Len(a) + 1)
          /\ b[Len(a) + 1] = records[k] /\ \A i \in 1 .. Len(a) : b[i] = a[i]
      BY <2>4, <3>1
    <3>3. \A i \in DOMAIN a : Key(a[i]) # Key(records[k])
      BY <2>4, <2>7
    <3>4. \A i, j \in DOMAIN b : Key(b[i]) = Key(b[j]) => i = j
      <4>1. \A i \in DOMAIN b : i \in DOMAIN a \/ i = Len(a) + 1
        BY <3>2
      <4>2. QED BY <2>5, <3>2, <3>3, <4>1
    <3>5. m <= k => \E i \in DOMAIN b : Key(b[i]) = Key(record)
      <4>1. Len(a) + 1 \in DOMAIN b /\ \A i \in DOMAIN a : i \in DOMAIN b
        BY <3>2
      <4>2. QED BY <1>3, <2>2, <2>5, <3>2, <4>1
    <3>6. QED BY <2>1, <2>3, <3>4, <3>5
  <2>8. QED BY <2>6, <2>7
<1>6. T \in SUBSET (0 .. n)
  OBVIOUS
<1> HIDE DEF T
<1>7. n \in T
  BY <1>2, <1>4, <1>5, <1>6, LeftInduction
<1>8. m <= n
  BY <1>2, <1>3
<1>9. QED BY <1>1, <1>7, <1>8 DEF T

(* ingest_records and create_run (ingest.py 85-155, engine.py 879-928): however
   often and in whatever spelling a request names a person, the person has exactly
   one row of the run for every domain. *)
THEOREM PeopleHaveOneRow == Spec => []EveryoneOnce
<1>1. ASSUME NEW r \in Runs, NEW record \in ToSet(BodyOf[r]), record.domain # NoDomain
      PROVE  Cardinality({row \in RowsOf(r) : /\ RecordOf(row).domain = record.domain
                                             /\ NameOf[RecordOf(row).written] = NameOf[record.written]}) = 1
  <2> DEFINE rows == Ingested(BodyOf[r])
             Same(row) == /\ RecordOf(row).domain = record.domain
                          /\ NameOf[RecordOf(row).written] = NameOf[record.written]
  <2>1. /\ \E i \in DOMAIN rows : Key(rows[i]) = Key(record)
        /\ \A i, j \in DOMAIN rows : Key(rows[i]) = Key(rows[j]) => i = j
    BY <1>1, ServiceAssumption, IngestedOnce
  <2>2. \A i \in DOMAIN rows : Same(<<r, i>>) <=> Key(rows[i]) = Key(record)
    BY DEF RecordOf, Created, Key
  <2>3. RowsOf(r) = {<<r, i>> : i \in DOMAIN rows}
    BY DEF RowsOf, Created
  <2> HIDE DEF rows, Same
  <2>4. PICK i \in DOMAIN rows : Key(rows[i]) = Key(record)
    BY <2>1
  <2>5. {row \in RowsOf(r) : Same(row)} = {<<r, i>>}
    BY <2>1, <2>2, <2>3, <2>4
  <2>6. Cardinality({row \in RowsOf(r) : Same(row)}) = 1
    BY <2>5, FS_Singleton
  <2>7. QED BY <2>6 DEF Same
<1>2. EveryoneOnce
  BY <1>1 DEF EveryoneOnce
<1>3. QED BY <1>2, PTL

=================================================================================
