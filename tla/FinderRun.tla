------------------------------- MODULE FinderRun -------------------------------
(***************************************************************************)
(* A bulk run (src/src/finder/engine.py): execute_run splits the pending    *)
(* people of a run into one task per domain, process_domain works through  *)
(* a domain inside ONE database transaction that commits only at its end,  *)
(* and verify_email answers from the `verifications` table or buys the     *)
(* verdict under the run's CostTracker.                                    *)
(*                                                                         *)
(* Kept here: every await at which another task, another run or a crash    *)
(* can come between two steps; what is committed, what is only written in  *)
(* a task's transaction and what is only in memory; the ceiling.  The      *)
(* database is the Postgres of the deployment (READ COMMITTED; a second    *)
(* insert of the same key and a second update of the same row of `runs`    *)
(* wait for the first one's transaction).                                  *)
(*                                                                         *)
(* Abstracted: what process_person does with a verdict.  A person is a set *)
(* of addresses; the task may ask for them in any order, and stop with any *)
(* status the code can give after the last verdict (LeadsTo).  Patterns,   *)
(* Hunter and names are not in this module.  Money is counted in the unit  *)
(* of the cheapest verification.                                           *)
(***************************************************************************)
EXTENDS Integers, FiniteSets, FinderTypes

CONSTANTS
  Runs, Tasks, People, Emails,
  RunOf,          \* task -> its run
  PeopleOf,       \* task -> the rows of that run at that domain
  Domainless,     \* the tasks of the rows without a domain
  ProbeOf,        \* task -> the catch-all probe address of its domain
  EmailsOf,       \* person -> the addresses the lookup may verify
  Created,        \* people -> the status create_run gave the row
  Replies,        \* what verifier.verify may return: records [status, cost]
  MaxUnit,        \* the dearest verification
  Ceiling,        \* run -> cost_ceiling, or NoCeiling
  NoCeiling,
  MaxConcurrency, \* settings.max_concurrency, the run's semaphore
  MaxExecutions,  \* bound: how often one run is executed
  MaxFailures,    \* bound: how often the database fails a task
  NoPerson, Probe, NoEmail

Costs == 0 .. MaxUnit

ASSUME RunAssumption ==
  /\ RunOf \in [Tasks -> Runs]
  /\ PeopleOf \in [Tasks -> SUBSET People]
  /\ \A t, u \in Tasks : t # u => PeopleOf[t] \cap PeopleOf[u] = {}
  /\ Domainless \subseteq Tasks
  /\ ProbeOf \in [Tasks -> Emails]
  /\ EmailsOf \in [People -> SUBSET Emails]
  /\ Created \in [People -> {Pending, "insufficient_name", "personal_domain"}]
  /\ MaxUnit \in Nat \ {0}
  /\ Replies \subseteq [status : Verdicts, cost : Costs]
  /\ \A reply \in Replies : reply.status = "error" => reply.cost = 0
  /\ NoCeiling \notin Nat
  /\ Ceiling \in [Runs -> Nat \cup {NoCeiling}]
  /\ MaxConcurrency \in Nat \ {0}
  /\ MaxExecutions \in Nat /\ MaxFailures \in Nat
  /\ {NoPerson, Probe} \cap People = {} /\ NoPerson # Probe
  /\ NoEmail \notin Emails
  /\ IsFiniteSet(Tasks)

VARIABLES
  \* the database
  people,     \* people.status
  verdict,    \* verifications: email -> verdict, or NoVerdict
  runStatus,  \* runs.status
  runCost,    \* runs.cost_usd
  \* execute_run, in memory
  live,       \* run -> execute_run is at its gather
  spent,      \* CostTracker.spent
  stopped,    \* CostTracker.stopped
  \* process_domain, in memory and in its open transaction
  pc,         \* task -> where it is
  cur,        \* task -> the person it looks up, Probe or NoPerson
  email,      \* task -> the address in hand
  answer,     \* task -> the verdict in hand
  rows,       \* people.status as the task's session sees it
  tried,      \* person -> the addresses that got a verdict in this lookup
  written,    \* task -> verdicts inserted, not committed
  holds,      \* task -> its transaction has updated the run's row
  exit,       \* task -> how it ends when its commit succeeds
  snap,       \* task -> the CostTracker.snapshot() it is about to commit
  \* history and bounds
  billed,     \* run -> what the vendor has charged for it, ever
  bought,     \* email -> how many times its verdict was paid for
  crashed,    \* the process has died at least once
  unbooked,   \* runs of which an execution ended without its last statement
  executions, failures

db == <<people, verdict, runStatus, runCost>>
tracker == <<live, spent, stopped>>
session == <<pc, cur, email, answer, rows, tried, written, holds, exit, snap>>
history == <<billed, bought, crashed, unbooked, executions, failures>>
vars == <<db, tracker, session, history>>

TasksOf(r) == {t \in Tasks : RunOf[t] = r}
InDomain == {"open", "touch", "gate", "call", "store", "insert", "commit"}
TaskEnds == {"done", "ceiling", "error"}
PCs == InDomain \cup TaskEnds \cup {"idle", "queued"}
InFlight(r) == {t \in TasksOf(r) : pc[t] = "call"}
Active(r) == {t \in TasksOf(r) : pc[t] \in InDomain}
Unfinished(t) == {p \in PeopleOf[t] : people[p] \notin Terminal}
AtCeiling(r, amount) == Ceiling[r] # NoCeiling /\ amount >= Ceiling[r]

(* session.get(Verification, email): committed, or written by this task. *)
Seen(t, e) == IF written[t][e] # NoVerdict THEN written[t][e] ELSE verdict[e]
Nothing == [e \in Emails |-> NoVerdict]

-------------------------------------------------------------------------------
Init ==
  /\ people = Created
  /\ verdict = Nothing
  /\ runStatus = [r \in Runs |-> "pending"]
  /\ runCost = [r \in Runs |-> 0]
  /\ live = [r \in Runs |-> FALSE]
  /\ spent = [r \in Runs |-> 0]
  /\ stopped = [r \in Runs |-> FALSE]
  /\ pc = [t \in Tasks |-> "idle"]
  /\ cur = [t \in Tasks |-> NoPerson]
  /\ email = [t \in Tasks |-> NoEmail]
  /\ answer = [t \in Tasks |-> NoVerdict]
  /\ rows = Created
  /\ tried = [p \in People |-> {}]
  /\ written = [t \in Tasks |-> Nothing]
  /\ holds = [t \in Tasks |-> FALSE]
  /\ exit = [t \in Tasks |-> "done"]
  /\ snap = [t \in Tasks |-> 0]
  /\ billed = [r \in Runs |-> 0]
  /\ bought = [e \in Emails |-> 0]
  /\ crashed = FALSE
  /\ unbooked = {}
  /\ executions = [r \in Runs |-> 0]
  /\ failures = 0

(***************************************************************************)
(* execute_run                                                             *)
(***************************************************************************)

(* groups: a domain gets a task when one of its rows is not terminal. *)
Grouped(t) == Unfinished(t) # {}

(* CostTracker(ceiling, spent=already): the cost the run row was last given. *)
OpeningCost(r) == runCost[r]

(* Up to the gather: `running` is committed and the tasks are created. *)
Execute(r) ==
  /\ ~live[r]
  /\ runStatus[r] # "completed"
  /\ executions[r] < MaxExecutions
  /\ executions' = [executions EXCEPT ![r] = @ + 1]
  /\ runStatus' = [runStatus EXCEPT ![r] = "running"]
  /\ live' = [live EXCEPT ![r] = TRUE]
  /\ spent' = [spent EXCEPT ![r] = OpeningCost(r)]
  /\ stopped' = [stopped EXCEPT ![r] = FALSE]
  /\ pc' = [t \in Tasks |-> IF RunOf[t] # r THEN pc[t]
                            ELSE IF Grouped(t) THEN "queued" ELSE "idle"]
  /\ UNCHANGED <<people, verdict, runCost, cur, email, answer, rows, tried,
                 written, holds, exit, snap, billed, bought, crashed, unbooked, failures>>

(* _one for the rows without a domain: no semaphore, a session of its own. *)
MissingDomain(t) ==
  /\ pc[t] = "queued" /\ t \in Domainless
  /\ pc' = [pc EXCEPT ![t] = "done"]
  /\ people' = [p \in People |-> IF p \in Unfinished(t) THEN "error" ELSE people[p]]
  /\ UNCHANGED <<verdict, runStatus, runCost, tracker, cur, email, answer, rows,
                 tried, written, holds, exit, snap, history>>

(* `async with sem`, the run's semaphore. *)
SlotFree(r) == Cardinality(Active(r)) < MaxConcurrency

(* _one: nothing to do once the tracker has stopped, else process_domain opens
   its session and loads the rows. *)
Enter(t) ==
  /\ pc[t] = "queued" /\ t \notin Domainless
  /\ SlotFree(RunOf[t])
  /\ IF stopped[RunOf[t]]
     THEN /\ pc' = [pc EXCEPT ![t] = "done"]
          /\ UNCHANGED <<cur, rows, tried>>
     ELSE /\ pc' = [pc EXCEPT ![t] = "open"]
          /\ cur' = [cur EXCEPT ![t] = Probe]
          /\ rows' = [p \in People |-> IF p \in PeopleOf[t] THEN people[p] ELSE rows[p]]
          /\ tried' = [p \in People |-> IF p \in Unfinished(t) THEN {} ELSE tried[p]]
  /\ UNCHANGED <<db, tracker, email, answer, written, holds, exit, snap, history>>

(***************************************************************************)
(* process_domain, prepare_domain, process_person                          *)
(***************************************************************************)

(* The session is over: committed, or rolled back by the database or close(). *)
CloseSession(t, end) ==
  /\ pc' = [pc EXCEPT ![t] = end]
  /\ cur' = [cur EXCEPT ![t] = NoPerson]
  /\ email' = [email EXCEPT ![t] = NoEmail]
  /\ answer' = [answer EXCEPT ![t] = NoVerdict]
  /\ written' = [written EXCEPT ![t] = Nothing]
  /\ holds' = [holds EXCEPT ![t] = FALSE]
  /\ exit' = [exit EXCEPT ![t] = "done"]
  /\ snap' = [snap EXCEPT ![t] = 0]

(* `except Exception: await session.rollback(); raise`. *)
Rollback(t) ==
  /\ CloseSession(t, "error")
  /\ rows' = [p \in People |-> IF p \in PeopleOf[t] THEN people[p] ELSE rows[p]]
  /\ tried' = [p \in People |-> IF p \in Unfinished(t) THEN {} ELSE tried[p]]

(* The domain is prepared: _persist_hunter_calls changes the run's row unless
   it already shows that number of Hunter calls. *)
Prepared(t) == \E next \in {"touch", "open"} : pc' = [pc EXCEPT ![t] = next]

(* A verdict on the address in hand: the probe's ends prepare_domain, a
   person's goes to its lookup. *)
Got(t, e, v) ==
  /\ email' = [email EXCEPT ![t] = NoEmail]
  /\ IF cur[t] = Probe
     THEN /\ Prepared(t)
          /\ cur' = [cur EXCEPT ![t] = NoPerson]
          /\ answer' = [answer EXCEPT ![t] = NoVerdict]
          /\ tried' = tried
     ELSE /\ pc' = [pc EXCEPT ![t] = "open"]
          /\ cur' = cur
          /\ answer' = [answer EXCEPT ![t] = v]
          /\ tried' = IF v = "error" THEN tried
                      ELSE [tried EXCEPT ![cur[t]] = @ \cup {e}]

(* probe_catchall, answered from run_cache or a fresh domain_patterns row. *)
SkipProbe(t) ==
  /\ pc[t] = "open" /\ cur[t] = Probe
  /\ Prepared(t)
  /\ cur' = [cur EXCEPT ![t] = NoPerson]
  /\ UNCHANGED <<db, tracker, email, answer, rows, tried, written, holds, exit, snap, history>>

(* pending = [p for p in people if p.status not in TERMINAL] *)
Todo_AllButValid(t) == {p \in PeopleOf[t] : rows[p] # "valid"}
Todo(t) == {p \in PeopleOf[t] : rows[p] \notin Terminal}

(* The next pending person, unless the tracker has stopped meanwhile. *)
Pick(t, p) ==
  /\ pc[t] = "open" /\ cur[t] = NoPerson
  /\ ~stopped[RunOf[t]]
  /\ p \in Todo(t)
  /\ cur' = [cur EXCEPT ![t] = p]
  /\ answer' = [answer EXCEPT ![t] = NoVerdict]
  /\ UNCHANGED <<db, tracker, pc, email, rows, tried, written, holds, exit, snap, history>>

Asks(t) ==
  IF cur[t] = Probe THEN {ProbeOf[t]}
  ELSE IF cur[t] \in People /\ GoesOn(answer[t]) THEN EmailsOf[cur[t]] \ tried[cur[t]]
  ELSE {}

(* verify_email up to cached_verdict: a stored verdict costs nothing. *)
Lookup(t, e) ==
  /\ pc[t] = "open" /\ e \in Asks(t)
  /\ IF Seen(t, e) # NoVerdict
     THEN Got(t, e, Seen(t, e))
     ELSE /\ pc' = [pc EXCEPT ![t] = "gate"]
          /\ email' = [email EXCEPT ![t] = e]
          /\ UNCHANGED <<cur, answer, tried>>
  /\ UNCHANGED <<db, tracker, rows, written, holds, exit, snap, history>>

(* CostTracker.allow *)
Allowed_NeverChecked(r) == TRUE
Allowed_StoppedOnly(r) == ~stopped[r]
Allowed(r) == ~stopped[r] /\ ~AtCeiling(r, spent[r])

(* `if not await cost.allow(): raise CostCeilingReached()`: process_domain
   catches it, takes the snapshot and commits what the session has so far. *)
Gate(t) ==
  LET r == RunOf[t] IN
  /\ pc[t] = "gate"
  /\ IF Allowed(r)
     THEN /\ pc' = [pc EXCEPT ![t] = "call"]
          /\ UNCHANGED <<stopped, exit, snap>>
     ELSE /\ stopped' = [stopped EXCEPT ![r] = TRUE]
          /\ pc' = [pc EXCEPT ![t] = "commit"]
          /\ exit' = [exit EXCEPT ![t] = "ceiling"]
          /\ snap' = [snap EXCEPT ![t] = spent[r]]
  /\ UNCHANGED <<db, live, spent, cur, email, answer, rows, tried, written, holds, history>>

(* verifier.verify returns and CostTracker.charge books its cost at once. *)
Kept_ErrorsToo(reply) == TRUE
Kept(reply) == reply.status # "error"

Answer(t, reply) ==
  LET r == RunOf[t]
      total == spent[r] + reply.cost IN
  /\ pc[t] = "call"
  /\ spent' = [spent EXCEPT ![r] = total]
  /\ stopped' = [stopped EXCEPT ![r] = @ \/ AtCeiling(r, total)]
  /\ billed' = [billed EXCEPT ![r] = @ + reply.cost]
  /\ bought' = IF reply.cost > 0 THEN [bought EXCEPT ![email[t]] = @ + 1] ELSE bought
  /\ IF Kept(reply)
     THEN /\ pc' = [pc EXCEPT ![t] = "store"]
          /\ answer' = [answer EXCEPT ![t] = reply.status]
          /\ UNCHANGED <<cur, email, tried>>
     ELSE Got(t, email[t], reply.status)
  /\ UNCHANGED <<db, live, rows, written, holds, exit, snap, crashed, unbooked, executions,
                 failures>>

(* store_verdict: nothing when the row has appeared meanwhile, else
   session.add; the INSERT goes out with the session's next statement. *)
Store_Never(t) ==
  /\ pc[t] = "store"
  /\ Got(t, email[t], answer[t])
  /\ UNCHANGED <<db, tracker, rows, written, holds, exit, snap, history>>

Store(t) ==
  /\ pc[t] = "store"
  /\ IF Seen(t, email[t]) # NoVerdict
     THEN Got(t, email[t], answer[t])
     ELSE /\ pc' = [pc EXCEPT ![t] = "insert"]
          /\ UNCHANGED <<cur, email, answer, tried>>
  /\ UNCHANGED <<db, tracker, rows, written, holds, exit, snap, history>>

(* A statement waits for the transaction that inserted the same key or updated
   the same run's row. *)
WaitsFor(t, u) ==
  /\ u # t
  /\ \/ pc[t] = "insert" /\ written[u][email[t]] # NoVerdict
     \/ pc[t] \in {"touch", "commit"} /\ RunOf[u] = RunOf[t] /\ holds[u]

(* The UPDATE of the run's row goes out with the next statement; the row is
   this transaction's until the domain commits. *)
Touch(t) ==
  /\ pc[t] = "touch"
  /\ \A u \in Tasks : ~WaitsFor(t, u)
  /\ pc' = [pc EXCEPT ![t] = "open"]
  /\ holds' = [holds EXCEPT ![t] = TRUE]
  /\ UNCHANGED <<db, tracker, cur, email, answer, rows, tried, written, exit, snap, history>>

(* Once the transaction it waited for has committed, the INSERT fails on the
   primary key and the whole domain rolls back. *)

KeyTaken_Ignored(e) == FALSE
KeyTaken(e) == verdict[e] # NoVerdict

Insert(t) ==
  /\ pc[t] = "insert"
  /\ \A u \in Tasks : ~WaitsFor(t, u)
  /\ IF KeyTaken(email[t])
     THEN Rollback(t)
     ELSE /\ written' = [written EXCEPT ![t][email[t]] = answer[t]]
          /\ Got(t, email[t], answer[t])
          /\ UNCHANGED <<rows, holds, exit, snap>>
  /\ UNCHANGED <<db, tracker, history>>

(* Transactions that wait in a cycle: the database aborts one of them. *)
Deadlocked_Undetected(t) == FALSE
Deadlocked(t) ==
  \E C \in SUBSET Tasks :
    /\ t \in C
    /\ \A a \in C : \E b \in C : WaitsFor(a, b)
    /\ \A b \in C : \E a \in C : WaitsFor(a, b)

Victim(t) ==
  /\ Deadlocked(t)
  /\ Rollback(t)
  /\ UNCHANGED <<db, tracker, history>>

Resolve(t, s) ==
  /\ pc[t] = "open" /\ cur[t] \in People
  /\ s \in LeadsTo(answer[t])
  /\ rows' = [rows EXCEPT ![cur[t]] = s]
  /\ cur' = [cur EXCEPT ![t] = NoPerson]
  /\ answer' = [answer EXCEPT ![t] = NoVerdict]
  /\ UNCHANGED <<db, tracker, pc, email, tried, written, holds, exit, snap, history>>

(* The loop is over: run.cost_usd is read off the tracker, then committed. *)
Finish(t) ==
  /\ pc[t] = "open" /\ cur[t] = NoPerson
  /\ stopped[RunOf[t]] \/ Todo(t) = {}
  /\ pc' = [pc EXCEPT ![t] = "commit"]
  /\ snap' = [snap EXCEPT ![t] = spent[RunOf[t]]]
  /\ UNCHANGED <<db, tracker, cur, email, answer, rows, tried, written, holds, exit, history>>

(* What the commit makes of the verifications table and of the rows. *)
Merged_DropsVerdicts(t) == verdict
Merged(t) == [e \in Emails |-> Seen(t, e)]
RowsAfter(t) == [p \in People |-> IF p \in PeopleOf[t] THEN rows[p] ELSE people[p]]

Commit(t) ==
  /\ pc[t] = "commit"
  /\ \A u \in Tasks : ~WaitsFor(t, u)
  /\ people' = RowsAfter(t)
  /\ verdict' = Merged(t)
  /\ runCost' = [runCost EXCEPT ![RunOf[t]] = snap[t]]
  /\ CloseSession(t, exit[t])
  /\ UNCHANGED <<runStatus, tracker, rows, tried, history>>

(* A statement fails: no connection within the pool's timeout, a lost
   connection, a failing commit.  The domain rolls back. *)
Fail(t) ==
  /\ failures < MaxFailures
  /\ pc[t] \in {"open", "touch", "store", "insert", "commit"}
  /\ failures' = failures + 1
  /\ Rollback(t)
  /\ UNCHANGED <<db, tracker, billed, bought, crashed, unbooked, executions>>

(***************************************************************************)
(* The end of execute_run, and of the process                              *)
(***************************************************************************)

Remaining(r) == {p \in UNION {PeopleOf[t] : t \in TasksOf(r)} : people[p] = Pending}

Outcome_TrustsTasks(r) ==
  IF \E t \in TasksOf(r) : pc[t] = "ceiling" THEN "stopped" ELSE "completed"

Outcome(r) ==
  IF Remaining(r) # {} /\ \E t \in TasksOf(r) : pc[t] = "error" THEN "failed"
  ELSE IF stopped[r] \/ Remaining(r) # {} \/ \E t \in TasksOf(r) : pc[t] = "ceiling"
  THEN "stopped"
  ELSE "completed"

(* run.cost_usd = cost.snapshot(), once more after the gather. *)
FinalCost_AsCommitted(r) == runCost[r]
FinalCost(r) == spent[r]

(* gather has returned. *)
Gathered(r) ==
  /\ live[r]
  /\ \A t \in TasksOf(r) : pc[t] \in TaskEnds \cup {"idle"}

Leave(r) ==
  /\ live' = [live EXCEPT ![r] = FALSE]
  /\ pc' = [t \in Tasks |-> IF RunOf[t] = r THEN "idle" ELSE pc[t]]
  /\ UNCHANGED <<people, verdict, spent, stopped, cur, email, answer, rows, tried,
                 written, holds, exit, snap, billed, bought, crashed, executions, failures>>

(* Cost, statistics and the run's status are committed, in a session of its own. *)
End(r) ==
  /\ Gathered(r)
  /\ runStatus' = [runStatus EXCEPT ![r] = Outcome(r)]
  /\ runCost' = [runCost EXCEPT ![r] = FinalCost(r)]
  /\ Leave(r)
  /\ UNCHANGED unbooked

(* That session gets no connection in time, or its commit fails: _job logs it, and
   the tracker is gone. *)
EndFails(r) ==
  /\ Gathered(r)
  /\ unbooked' = unbooked \cup {r}
  /\ Leave(r)
  /\ UNCHANGED <<runStatus, runCost>>

(* The container dies or is stopped (lifespan cancels the tasks; a
   CancelledError is no Exception): open transactions and memory are gone. *)
Crash ==
  /\ \E r \in Runs : live[r]
  /\ crashed' = TRUE
  /\ live' = [r \in Runs |-> FALSE]
  /\ pc' = [t \in Tasks |-> "idle"]
  /\ cur' = [t \in Tasks |-> NoPerson]
  /\ email' = [t \in Tasks |-> NoEmail]
  /\ answer' = [t \in Tasks |-> NoVerdict]
  /\ rows' = people
  /\ tried' = [p \in People |-> IF people[p] \in Terminal THEN tried[p] ELSE {}]
  /\ written' = [t \in Tasks |-> Nothing]
  /\ holds' = [t \in Tasks |-> FALSE]
  /\ exit' = [t \in Tasks |-> "done"]
  /\ snap' = [t \in Tasks |-> 0]
  /\ UNCHANGED <<db, spent, stopped, billed, bought, unbooked, executions, failures>>

TaskStep(t) ==
  \/ MissingDomain(t)
  \/ Enter(t)
  \/ SkipProbe(t)
  \/ \E p \in People : Pick(t, p)
  \/ \E e \in Emails : Lookup(t, e)
  \/ Gate(t)
  \/ \E reply \in Replies : Answer(t, reply)
  \/ Store(t)
  \/ Insert(t)
  \/ Touch(t)
  \/ Victim(t)
  \/ \E s \in RowStatuses : Resolve(t, s)
  \/ Finish(t)
  \/ Commit(t)

Next ==
  \/ \E r \in Runs : Execute(r) \/ End(r) \/ EndFails(r)
  \/ \E t \in Tasks : TaskStep(t) \/ Fail(t)
  \/ Crash

(* Fairness: the event loop runs every task that can take a step, a vendor
   call returns (its client has a timeout) and the database answers. *)
Fairness ==
  /\ \A t \in Tasks : WF_vars(TaskStep(t))
  /\ \A r \in Runs : WF_vars(End(r) \/ EndFails(r))

Spec == Init /\ [][Next]_vars
FairSpec == Spec /\ Fairness

-------------------------------------------------------------------------------
TypeOK ==
  /\ people \in [People -> RowStatuses]
  /\ verdict \in [Emails -> Storable \cup {NoVerdict}]
  /\ runStatus \in [Runs -> RunStatuses]
  /\ runCost \in [Runs -> Nat]
  /\ live \in [Runs -> BOOLEAN]
  /\ spent \in [Runs -> Nat]
  /\ stopped \in [Runs -> BOOLEAN]
  /\ pc \in [Tasks -> PCs]
  /\ cur \in [Tasks -> People \cup {Probe, NoPerson}]
  /\ email \in [Tasks -> Emails \cup {NoEmail}]
  /\ answer \in [Tasks -> Verdicts \cup {NoVerdict}]
  /\ rows \in [People -> RowStatuses]
  /\ tried \in [People -> SUBSET Emails]
  /\ written \in [Tasks -> [Emails -> Storable \cup {NoVerdict}]]
  /\ holds \in [Tasks -> BOOLEAN]
  /\ exit \in [Tasks -> {"done", "ceiling"}]
  /\ snap \in [Tasks -> Nat]
  /\ billed \in [Runs -> Nat]
  /\ bought \in [Emails -> Nat]
  /\ crashed \in BOOLEAN
  /\ unbooked \subseteq Runs
  /\ executions \in [Runs -> Nat]
  /\ failures \in Nat

(* The overshoot of the ceiling is bounded: allow() and charge() are two
   steps with the vendor call between them, so every domain that passed
   allow() may still add its cost; the run's semaphore bounds how many. *)
OvershootBounded ==
  \A r \in Runs :
    live[r] /\ Ceiling[r] # NoCeiling =>
      spent[r] + MaxUnit * Cardinality(InFlight(r)) <= Ceiling[r] - 1 + MaxUnit * MaxConcurrency

(* The same bound holds of the cost the run's row shows, whatever mixture of
   task commits, restarts and ends wrote it. *)
StoredCostBounded ==
  \A r \in Runs :
    Ceiling[r] # NoCeiling => runCost[r] <= Ceiling[r] - 1 + MaxUnit * MaxConcurrency

(* Unless the process died or an execution's last statement failed, every unit the
   vendor charged is on the run, also what a domain spent before its transaction
   rolled back.  Where that statement failed, the run shows what the last domain to
   commit had read off the tracker, and a second execution goes on from there; the
   run never shows more than was charged. *)
EveryChargeBooked ==
  \A r \in Runs :
    /\ runCost[r] <= billed[r]
    /\ ~crashed /\ r \notin unbooked => billed[r] = IF live[r] THEN spent[r] ELSE runCost[r]

(* A row and the verdicts that decided it become durable together: no
   committed outcome rests on a verdict that a rollback, a conflict with
   another run or a crash took away. *)
RowsBackedByVerdicts ==
  \A p \in People :
    people[p] \in Terminal => \A e \in tried[p] : verdict[e] # NoVerdict

(* The primary key of `verifications`: a verdict is in at most one open
   transaction, and in none once it is committed. *)
OneWriterPerVerdict ==
  \A t \in Tasks, e \in Emails :
    written[t][e] # NoVerdict =>
      verdict[e] = NoVerdict /\ \A u \in Tasks \ {t} : written[u][e] = NoVerdict

(* The domains of one run share no address: the addresses of each are at the domain. *)
Reach(t) == {ProbeOf[t]} \cup UNION {EmailsOf[p] : p \in PeopleOf[t]}
DomainsApart == \A t, u \in Tasks \ Domainless : t # u => Reach(t) \cap Reach(u) = {}

(* Within one run that does not lose a transaction, no address is paid for
   twice, however many people, executions and ceiling stops ask for it. *)
BoughtOnce ==
  DomainsApart /\ ~crashed /\ failures = 0 => \A e \in Emails : bought[e] <= 1

(* No step changes a row that has its outcome: not a second execution, not a
   session that loaded the row before, not a rollback. *)
OutcomesKept ==
  [][\A p \in People : people[p] \in Terminal => people'[p] = people[p]]_vars

(* A stored verdict is never overwritten, also not by another run that bought
   a different answer at the same time. *)
VerdictsKept ==
  [][\A e \in Emails : verdict[e] # NoVerdict => verdict'[e] = verdict[e]]_vars

(* Every execution comes to its end, through waits on the semaphore, on other
   transactions' keys and deadlocks between them. *)
ExecutionsEnd == \A r \in Runs : live[r] ~> ~live[r]

(* The runs live as RunLifecycle says: whatever mixture of domain commits,
   rollbacks, ceiling stops, crashes and second executions a run goes through, its
   rows are only ever settled while it is `running`, and its end tells the truth
   about those that are left. *)
Lifecycle == INSTANCE RunLifecycle
  WITH status <- runStatus, open <- [r \in Runs |-> Remaining(r)]
KeepsLifecycle == Lifecycle!Spec
===============================================================================
