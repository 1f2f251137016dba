# Verification of the email finder

This directory holds TLA+ models of the program in `src/src/finder/` (paths below are
relative to that directory unless they begin with `src/`), the TLC configurations that check them on small
instances, and TLAPS proofs of what matters most for instances of any
size. `PROJECT.json` maps every definition to the lines it stands for.

    tlc -workers 2 -config run_solo.cfg MCFinderRun     # any row of the table of runs
    tlapm FinderRunProofs.tla                           # any *Proofs module

## 1. The system

The program turns a list of people (first name, last name, domain) into email addresses. A *run*
is a row in `runs` with one row per person in `people`; it is executed by an asyncio task in the
API process, one *domain* of the run at a time under a semaphore, each domain in one database
transaction. For a person it makes a list of candidate addresses and buys verdicts on them from
verification vendors until one is valid. It learns each domain's name format on the way.

| Component | State | Operations | Modelled in |
|---|---|---|---|
| HTTP API and run lifecycle (`api.py`, `db.py`) | the running jobs, the connection pool, `runs` and `people` as readers see them | `lifespan`, `init_db`, `start_run`, `start_run_upload`, `_spawn`, `get_run`, `verify_one` | `Service` |
| Ingest (`ingest.py`, `create_run`) | none | dropping of duplicates and of rows without a domain, the first status of a row | `Ingest`, used by `Service` |
| Run engine (`engine.py`) | `runs`, `people`, `verifications`; CostTracker, one session per domain in memory | `execute_run`, `process_domain`, `probe_catchall`, `verify_email` | `FinderRun` |
| A domain's task (`engine.py`, `verifiers/`) | what is known of the domain, the ladder, the people's rows | `prepare_domain`, `process_domain`'s loop, `process_person`, `_confirm_on_catchall`, `_try_email_finder`, the waterfall | `DomainTask` |
| Candidates (`permute.py`, `hunter.py`) | none | `generate_candidates`, `infer_pattern`, `build_ranked_candidates` | `Candidates`, used by `DomainTask` |
| Naming conventions (`patterns.py`) | none | `convention_votes`, `conventions_to_try`, `agreeing_pattern` | `Conventions`, used by `DomainTask` |
| Pattern memory (`patterns.py`) | `domain_patterns`: pattern, confidence, catch-all flag and its date | `record_hit`, `upsert_catchall`, `remember_deduced_pattern`, `trusted_pattern`, `seed_from_known` | `PatternRow` (the row), `PatternMemory` (the sessions on it), `DomainTask` (one task's use) |
| Hunter cache and budget (`hunter_cache.py`, `hunter.py`) | `domain_email_patterns`, the Supabase table, HunterBudget | `resolve_hunter_pattern`, `get_local`, `put_local`, `get_supabase`, `put_supabase`, `consume` | `HunterCache` |
| Vendor gate (`limits.py`) | one semaphore per vendor and event loop | `configure_vendor_limits`, `vendor_slot`, `request_with_backoff` | `VendorGate` |
| MCP, OAuth, CLI (`mcp_http.py`, `oauth_open.py`, `cli.py`), export, evaluation, configuration | none a run depends on | adapters, formatting, reports | not modelled |

How they interact: a request commits a run and its rows and spawns a job; the job's `execute_run`
starts a task per domain; the task calls `prepare_domain`
(pattern memory, conventions, Hunter cache), then one lookup per person; each lookup calls `verify_email`, which
reads `verifications`, asks the CostTracker, calls the vendors through the gate, charges the
tracker, and stores the verdict in the session. The session commits once, at the domain's end.
Runs share the pool, `verifications`, `domain_patterns`, `domain_email_patterns`, the Supabase table and the
vendor semaphores.

What is hard: every `await` lets another domain, another run or an API request in; transactions
stay open over vendor calls, hold a connection all the while, and collide on primary keys and on the run's row; the objects a
session holds may be older than the row it updates; charges live in memory while verdicts wait for
a commit; a process may end at any time; semaphores are replaced while requests hold them; cached
answers have different ages in different stores; what one person's lookup finds out changes the next
one's. The `hazards` of `PROJECT.json` list these with their lines.

What makes each component correct:

* Service: everybody named in a request has one row; a run ends as its rows say; a reader sees no end that
  is not true; whoever waits for a connection is served although domains keep theirs over vendor calls.
* Run engine: the ceiling may be passed by a bounded amount only; a charge ends up on the run although its domain
  rolls back; rows become durable with their verdicts; an outcome never changes; an execution ends.
* Domain's task: `valid` is vouched for; no address is billed twice; nothing is verified once the task
  has learnt that the domain accepts everything; likely addresses come first, the email finder last; a suggested format is
  one that enough people share; the outcome follows from the last verdict.
* Gate: permits are neither lost nor minted, the line is exact, the vendor's limit holds.
* Pattern memory: trust needs confirmations, is not overwritten, and follows from what was observed.
* Hunter cache: no request goes out without a claim of the budget, nothing stale or foreign is handed out, an answer
  is paid for once.

## 2. Modules

`FinderTypes` has the words all share: verdicts, row and run statuses, and the relation between a
lookup's last verdict and its outcome (`GoesOn`, `LeadsTo`).

The models are layered by two abstract specifications.

* **`LookupPromise`**: what a lookup is to the engine, over `last` (its last verdict) and `status` alone:
  verdicts one after the other while they are misses, then an outcome the last one allows. `DomainTask`
  implements it (`KeepsPromise`), and `FinderRun` is built on it: its `Answer` and `Resolve` are these steps,
  with any address and any outcome that `LeadsTo` allows.
* **`RunLifecycle`**: what a run is to its reader, over `runs.status` and the set of pending rows: rows are
  settled only while the run is `running`, `completed` means none is left and is final, `failed` means some
  are. `FinderRun` implements it with `open` as its committed pending rows, and so does `Service`
  with its tables (`KeepsLifecycle` in both).

**`FinderRun`.** State in three layers, as in the code: committed tables (`people`, `verdict`,
`runStatus`, `runCost`), the CostTracker of a live execution (`spent`, `stopped`), and each domain task's
session (`rows`, `written`, `holds`, `snap`, and its place `pc`). `Execute` is `execute_run` up to the
gather, `Enter`..`Commit` are `process_domain` with a step between any two awaits, `Lookup`,
`Gate`, `Answer`, `Store` and `Insert` are `verify_email` and `store_verdict`, `End` is the end of
`execute_run`, and `EndFails` that end when its own session gets no connection or cannot commit, which `_job` only logs;
`unbooked` remembers it. `WaitsFor` is Postgres: an INSERT of a key, or an UPDATE of the run's row, that another
transaction wrote waits for it; `Victim` is its deadlock detection. `Fail` rolls one domain back,
`Crash` ends the process. A person is a set of addresses the task may ask for in any order.

**`DomainTask`.** One task from the known people to its last person. `LoadKnown`, `Probe` and `AskHunter`
are `prepare_domain`; `NextPerson` is the loop of `process_domain`, which looks at what the last person found out
about the domain; `Climb`/`Judge`, `Confirm`, `Finder`, `Offer` and `Nothing` are `process_person` and its
helpers; `Verified` and `Replies` are `verify_email` over the waterfall, with what each vendor bills; `Stop` is
the ceiling. An address is a model value; a name is the function that gives, for each format, the addresses it
makes of the name's variants, and two formats or two people may have one in common. The database and the
other tasks are `start`, what the task finds. `shown` is history: who has told the task that the domain accepts all
mail, whether or not it listens.

**`Candidates`** and **`Conventions`** are the pure parts as functions of sequences: generation
without repetitions, the ranking with its cut-off, the format an address is filed under; the votes of
people and addresses, the order `Counter.most_common` gives, the formats to try, the majority. `SharedBy` is the
reference definition of a majority, without an order: `HintIsShared` compares the two.

**`PatternRow`** has the row of `domain_patterns` and its three writers (`WithHit`, `WithHint`, `WithCatchall`)
as functions of a row. **`PatternMemory`** has the copies that sessions hold and the row lock.
`Updated` is what an UPDATE of SQLAlchemy does: it writes the columns that differ from the loaded
copy, so two sessions may mix. `quiet` is a history variable: no overlap and no hint has
disturbed the row.

**`HunterCache`.** Two stores of answers with their day, a session's copy, the budget of each run,
and the failures of Supabase. A session writes through the same column-wise UPDATE and lock as above. `Claims` takes one of the
budget for a call, `Send` is each request of that call (the first, and one for every retry), `Answered`,
`Unanswered` and `FinderReturned` end it. `PutLocal` and `Posted` file an answer under the domain it names, `into`, which
`Named` lets differ from the one asked for; a session may therefore have rows of two domains locked. `Copied` is
`dict_to_pattern`, which dates a row without a date now. Days pass at any moment (`Tomorrow`), also while a session has a row in
hand. SQLAlchemy keeps an unchanged object only while somebody refers to it, so the stale row `get_local` has read may be there again for
`put_local` or not (`LocalMiss`). `replies` and `last` are history: what Hunter said of a domain or asked about it, and a
session's last answer under the name it asked for.

**`VendorGate`.** Semaphores are generations (`Sems`): `Configure` forgets the loop's semaphore, the next
request makes a new one, and the requests that hold or wait for the old one keep it. `Release`
follows `asyncio.Semaphore`: the permit goes to the first in line. `Cancel` is the shutdown of the API.

**`Service`.** Requests (`post`, `check`, `reading`), jobs (`job`), domain tasks (`task`) and the tables, over
one pool. `Busy` is who keeps a connection between two steps: a domain's task and a `/verify` over their vendor
calls, a reader between its two statements. Whoever needs one takes its step when one is free (`Free`) or,
after the pool's timeout, fails: a request with an error, a domain as a failed task, a job silently
(`JobTimesOut`: `_job` only logs). `Halt` is CostTracker.stopped, which is set at a charge or at a refusal and not with the commit that
may follow. `Stop` is a shutdown or crash; `Start` is `lifespan` with `create_all` and the attempts of
`init_db` to migrate, and `StartFails` is a failing `create_all`, after which the platform starts the process again
(`src/railway.toml`). **`Ingest`** gives the rows a request creates.

The `MC*` modules give the constants their values; the `*Proofs` modules extend a model with its theorems.

## 3. Runs

| Run | Instance | Shows |
|---|---|---|
| `run_solo` | one run, two domains and a row without one, five people, addresses in common, ceiling 2, replies of cost 0, 1, 2; two executions, each of which may end without its last statement; a crash at any time | `OvershootBounded`, `StoredCostBounded`, `BoughtOnce`, `OutcomesKept`, and that the engine implements `RunLifecycle` |
| `run_pair` | two runs over one domain that want the same two addresses and the same probe; one failure; crashes; last statements that fail; fair | `EveryChargeBooked`, `RowsBackedByVerdicts`, `OneWriterPerVerdict`, `VerdictsKept`, `ExecutionsEnd`, under rollbacks, key conflicts and deadlocks |
| `lookup` | two people with an address in common, six addresses, two formats and one that only Hunter gives; four rows of the pattern table, four lists of known people that agree, disagree or repeat, six answers of Hunter, cached verdicts (an earlier `catchall` among them); every reply of both vendors and of the finder | `ValidIsVouched`, `OneVendorBills`, `LikelyFirst`, `CatchallNotBought`, `FinderIsLast`, `HintIsShared`, and that a lookup implements `LookupPromise` |
| `gate` | three requests of one vendor and one of another, limits 0, 1 and 3 under a cap of 2, one retry, one reconfiguration | `PermitsConserved`, `NoIdlePermit`, `LineIsExact`, `EveryRequestEnds` |
| `pattern` | two sessions at once, three in all, two people each, two formats, threshold 2, hints, seeds, one expiry of the catch-all verdict | `TrustEarnedInQuiet`, `ConfidenceBacked`, `TrustNotOverwritten`, `WaitersServed` |
| `hunter` | three tasks of two runs over two domains, two sessions with two people each, budget 2, one retry, answers that live one day and may name the other domain, empty tables or old rows without a date in Supabase; one change of the day, one failure of Supabase; fair | `BudgetHeld`, `ServedIsFresh`, `AnsweredOnce`, `LookupsEnd` |
| `service` | two runs over two domains and a personal one, a name written in two ways, a person without a last name, a row without a domain, one `/verify`; one connection for two slots, one stop and restart or one failed start; fair | `ReportsAgree`, `EveryoneOnce`, `StarvedByOthersOnly`, `RequestsEnd`, and that the service implements `RunLifecycle` |

Each has its `TypeOK` too (`run_pair` excepted, which shares that of `run_solo`). The largest are `lookup` (2.8 million distinct states),
`run_solo` (2.6 million), `hunter` (0.8 million, the slowest for its liveness), `service` and `run_pair` (0.4 million each).

Why the bounds are enough. The races of the run engine take two tasks and one shared key or one
shared `runs` row; the third task of `run_solo` holds no transaction and is there because a row without a
domain ends a run in another way. With a ceiling of 2 and costs up to 2 both slots of the
semaphore can be past `allow()` at once, which is the worst overshoot. Deadlock takes two addresses
inserted in opposite orders. A task needs two people for what one finds out to matter to the other, an address
they share for a cached verdict, and a first person with two variants for the ladder's order; two of the known
people who share a person or an address are the cases in which a vote is not counted, and three are the
configured majority. `max_candidates` is 2, so that the ladder is cut. A lost or doubled permit shows with a cap of 2, a holder, and one in line;
a semaphore that is replaced once already has two generations. The threshold of pattern memory is
the configured one, 2; stale copies take two sessions, and a third sees what they left. Age takes a
day on which an answer is fresh and one on which it is not, with the change between any two steps; a row with columns
of two answers takes answers of more kinds than the instance's one, and is left to the proofs. One retry tells requests from
claims, a budget of 2 runs out within a run, and an answer that names the other domain lets two sessions lock two rows in opposite
orders, the deadlock of the cache. With a single connection
every wait of the service can meet every holder, and two slots let a run's own domains compete for it.

Each property is also run against a mutant of the definition it depends on (the operators with an
underscore, such as `Merged_DropsVerdicts`, next to their originals; `PROJECT.json` pairs them).

### Where the code and its documents disagree

Five runs check one sentence of the documentation, and TLC finds a behaviour of the code that violates it.

* `gate_over_limit`: `limits.py:65`. A second run's `configure_from_settings` drops the semaphores that
  the first run's requests hold, so more requests are in flight than `src/README.md:69-70` says can be.
* `pattern_hint`: `patterns.py:335`. A deduced format inherits the confidence of the one it
  replaces and is trusted after one confirmation; `src/README.md:33-34` says two.
* `hunter_conflict`: `hunter_cache.py:111`. `put_local` only adds the row to the session; the key
  conflict surfaces at a later flush, outside its `try`, and rolls the domain back;
  `hunter_cache.py:5-6` says cache writes never raise into the run.
* `sighted_format`: `hunter.py:425`. An address that was found at the domain and that no format makes is filed
  under the word `sighted`; when it turns out valid the word becomes the domain's format, and the next person's
  ladder begins with an address made of it. `src/README.md:18-21` says candidates come from the pattern list.
* `service_resume`: `api.py:57`. Nothing executes a `running` run again after a restart;
  `src/README.md:166-167` says interrupted runs resume.

Seen while modelling, without a run of their own:

* `HunterBudget` calls itself an "HTTP counter" that is claimed "immediately before a Hunter HTTP call" (`hunter.py:92`, `:101`), but one claim
  is one call of the client, which sends up to `max_retries` + 1 requests (`limits.py:131-159`); the repository's own
  `src/tests/test_hunter.py:164-178` counts 4 of them for one search. `BudgetHeld` bounds both.
* A row of Supabase without a usable `fetched_at` counts as fetched now (`hunter_cache.py:61-70`), so an answer of any age
  is used and copied with today's date. `ServedIsFresh` excepts these rows (`Undated`) and no others.
* Hunter's answer is filed under the domain it names (`hunter.py:166`), not the one asked for: where they differ the next
  lookup finds nothing and each person of a catch-all domain may pay again. `AnsweredOnce` is about answers under the name asked for.
* When the email finder says `accept_all`, only the person's row is flagged (`engine.py:573-588`); the next person's addresses
  are bought, although `src/README.md:26-29` says that verification proves nothing there. `CatchallNotBought` names the exception.
* The end of `execute_run` needs a connection and a commit of its own (`engine.py:1023-1046`). When that fails `_job` only logs
  (`api.py:125-128`): the run stays `running`, and charges of rolled-back domains, which only the tracker had, are on no row
  (`EndFails`; the premise `unbooked` of `EveryChargeBooked`).
* A failing `create_all` ends the start (`db.py:77-78`), while a failing migration is survived (`db.py:90-91`).
* `src/README.md:35-36` says that once a pattern is trusted only one address is generated; it is one for each variant of the
  name (`hunter.py:489-494`). `LikelyFirst` is about these.
* One commit per domain (`engine.py:830`): after a restart the verdicts a domain had bought and not committed
  are bought again, while `src/README.md:165-166` says a restart does not re-bill. (`Crash` in `FinderRun`;
  `BoughtOnce` and `EveryChargeBooked` say `~crashed`.)
* A catch-all row gets status `valid` with `domain_is_catchall` set, while `src/README.md:26-29` and `:43` say such rows
  are never merged into valid; and an address found at such a domain becomes `valid` even if
  `verifications` holds it as invalid (`engine.py:441`). `ValidIsVouched` states what the code keeps of the promise.
* After the 30 days of `src/README.md:29-30` the catch-all probe is answered from `verifications`, which never
  expires, so the row counts as checked though nobody asked (`engine.py:171`).
* Two sessions with stale copies can trust a pattern that was confirmed by
  one hit each of two formats, which is why trust is stated for a `quiet` row.
* `max_candidates` is called a hard cap in `src/config/finder.yaml:15`, but leading formats, conventions and
  sightings come on top of it (`Filled`).
* With equal counts the order of the known people decides which convention is tried first, and which of two addresses
  of a person is counted (`MostCommon`, `Voted`).
* A job that waits in vain for a connection is only logged: its run stays `pending` or `running`
  (`JobTimesOut`). `StarvedByOthersOnly` states that its own domains are never the reason.
* Each `/verify` leaves a run that stays `pending` with cost 0 (`api.py:243`).
* All people of a domain whose names cannot be used have one key, so only the first of them gets a row
  (`Key` in `Ingest`; `EveryoneOnce` speaks of usable names).
* `cli.py` does not parse at this commit (lines 232-233).

## 4. Fairness

`FairSpec` is used only where a liveness property is checked.

* `FinderRun`: weak fairness of every
  task and of the end of an execution, which may fail (`End \/ EndFails`), because the event loop runs whatever can run, a vendor call ends by its
  timeout, and the database answers; nothing makes a run start, fail or crash.
* `VendorGate`: a call that
  was sent comes back and a sleep ends; nothing makes a request start, a run reconfigure or a process
  shut down.
* `PatternMemory` and `HunterCache`: a session that can take a step does, and a deadlock of the database is broken; days and outages
  need not happen.
* `Service`: weak fairness of the start and of the reader's second statement; strong fairness of each run's
  steps and of each `/verify`, because the pool is a queue: a waiter sees it free again and again and is served
  in its turn. Nothing makes a request come, a wait time out or a process stop.
* `DomainTask` has none; its refinement is of safety only.

CHECK_DEADLOCK is FALSE wherever the system may stop: runs end, requests end, sessions close.

## 5. Proofs

Every theorem holds for all values of the constants under the named assumptions of its module (types of the
constants, finitely many tasks, requests, formats or slots, an error costs nothing, and so on), which TLC evaluates in
the runs that extend the module. None of the invariants below is inductive as it stands; what is added, and why:

**`FinderRunProofs`.** `TypeCorrect` (`[]TypeOK`), `OneWriter`, `VerdictsStay`, `OutcomesStay`, `RowsBacked`. `Insert` writes
`answer[t]` under `email[t]`, so one needs that at `store` and `insert` both are there and the verdict is
no error: `InHand`, in `TypeInv`. An INSERT waits for every transaction that wrote the key and fails if it is
taken, so a commit publishes keys no one else holds. `RowsInv`: a session which is at work has the committed
outcome of every row of its domain that has one, and no one else works on those rows. `RowsBacked`: `BackedInv`
follows the addresses a lookup has tried, which a session either has written or found committed, and which leave
memory with the row when the session rolls back.

**`FinderCostProofs`.** `Overshoot`, `StoredCost`. `CostInv` adds that the active tasks of a run fit the semaphore, so the calls in flight do
(`SlotsHeld`); that a task at work belongs to a live run (`TasksLive`); that a snapshot on its way to the database is bounded
too (`SnapBounded`: it may be committed long after it was taken, and after later ones). Neither bound is inductive
without the other: `Execute` starts the tracker from the stored cost, and `Commit` stores a snapshot.

In the same module, over the same state: `ChargesBooked`: the run never shows more than was billed; and unless the process died or one of the run's
executions ended without its last statement, what was billed is what the tracker has while the run is live and what
the row has otherwise. `BooksInv` adds that neither the tracker nor a snapshot on its way exceeds it. `PaidForOnce` (`[]BoughtOnce`): a
task asks the vendors only for addresses of its own domain of which nothing is known (`AsksOwn`), and what was paid for is
stored, written in an open transaction, or on its way there (`BillsAccounted`). The premise `DomainsApart` of the
property says that the domains of a run share no address, which is so because each address is at its domain; it is also what makes a
deadlock impossible within one run (`NoDeadlock`: with keys apart a task can wait for the run's row only, whose holder waits for no one), and without
it a victim's rollback would lose a verdict that was paid for. `RunsKeepLifecycle`: the engine implements
`RunLifecycle`. `LifeInv` says that a task with an open session belongs to
a live run, that a live run is `running`, and that a session never has a row as pending that is settled;
then `Commit` is `Settle`, `End` is `Finish`, `Execute` is itself and all else, `Crash` included, is a stutter.

**`FoldLemmas`.** What the proofs about sequences rest on. The library's induction theorems take an operator, which the
provers cannot instantiate; here induction is stated over a *set*, that of the values which have the property
(`NaturalInduction`, `SubsetInduction`, from `LeastNatural`, which the library's `WFMin` gives). `LeftValues`
says of a fold from the left, as the community modules define it, that it goes through one value for each prefix, each made from the one
before: a property of the result is then an invariant of the rounds (`LeftInduction`). `SumAdd` and `SumOneMore` are the same for
`SumFunction`.

**`DomainTaskProofs`.** All eight properties of the run `lookup`.
* The pure part comes first, for any sequences: `Distinct`, `Only`, `Filled` and `FlattenSeq` round by round (each address once,
  none lost, what was there stays in its place), then `generate_candidates` and `infer_pattern`, `build_ranked_candidates`, and
  `convention_votes` (every vote is for a format that makes the pair's address; no person and no address has two). That
  `most_common` gives an order at all, which `MostCommon` picks with CHOOSE, is proved (`SetsHaveOrder`: a strict
  order puts a finite set in a row).
* `TypeCorrect`. `Ready` is `TypeOK` with three facts: the ladder has candidates of this person only; once the probe is over the domain has a
  row (`RowIsThere`, on which later reads of it rely); and `context` is what Hunter said at the start or nothing yet (`AnswerIsHunters`).
  `Sure` is `Ready`, `OfferIsThere` (an offered address is there to be verified) and `InLookup`; the next five proofs rest on it.
* `CatchallIsFree`: the property is about what the task was told (`shown`), the code looks at its flag and at the domain's row. `Careful`
  relates them: `Heeded`, whoever but the finder has spoken, one of the two says so; `NotAll`, on the ladder and while an offered address
  waits, neither does; `AskedWhenAccepting`, an address is confirmed only where one does. `Silent`: nobody has spoken before the probe.
* `ValidAddressesAreVouched`: inductive with `Sure`; the vouching verdict stays because no verdict is overwritten, and the finding because Hunter's
  answer does not change within a task.
* `FinderComesLast`: `RestMissed` says that whatever is no longer on the ladder was verified and missed, though the ranking is made again
  from what the task knows by now; `NobodyConfirms` is its counterpart at a catch-all domain.
* `LikelyComeFirst`: `WholeLadder` says that a lookup without a verdict yet has the whole ranking, and the rest is the lemmas about
  `Ranked`. The premise `FewVariants` of the property is the code's own cut: a single format gives at most 4 addresses, a trusted
  one `max_candidates`.
* `HintsAreShared`: the majority that `agreeing_pattern` counts is one of different people with different addresses (`SharedBy`).
* `LookupsKeepPromise`: the task implements `LookupPromise`; `InLookup` relates the place in
  `process_person` to the last verdict (on the ladder it was a miss, before a confirmation a catch-all or none).
* `AddressesBilledOnce`: `OneBill` says that whoever was paid for an address left a verdict on it; it needs
  that the first vendor bills neither catch-alls, unknowns nor errors (`TaskAssumption`, from `millionverifier.py`).

The assumptions: a name gives as many addresses under each format, because every format is made of the same variants of the
name, and at least one for the people of the task (`NamesAssumption`); what the task finds is rows of the table and lists of known
people (`StartsAssumption`).

**`PatternMemoryProofs`.** All four safety properties of `pattern`. The invariant has three parts, for the row, its uncommitted version and the two
copies of every session. `Linked`: what a session's copy knows it keeps, the lock's holder has written, and
before its first person a session has confirmed nothing. `Backed`: the confidence of each version is at most the confirmations its
reader can know of, the committed ones and its own (`ConfidenceIsBacked`); an UPDATE that names
the confidence and not the pattern keeps it, because the bound does not depend on the pattern, which is why it is about
the sum over all formats. `Quietly`: in a quiet run only one session is open and its copies are of the row as it is, so
the bound holds format by format (`TrustIsEarned`), and a copy whose format is not the row's owes its confidence to this session alone
(`TrustIsKept`).

**`ServiceProofs`.** `ServiceKeepsLifecycle`: the service implements `RunLifecycle`; a task that may settle rows
belongs to a job at its gather, whose run is `running` (`InStep`). `ReadersAgree`: the reader has seen a status and
not yet the rows, or both; an ended run's rows do not change, because its job is over and no other begins.
`TypeCorrect`: `Pooled` says that nobody gets a connection when none is free. `JobsStarveByOthersOnly`: at the three places where a job waits, none
of its tasks is at work (`NoneItsOwn`), so whoever has the connections is someone else; it needs that the names of runs, requests and
tasks are different (`NamesApart`). `PeopleHaveOneRow`: `ingest_records` round by round, as above.

**`VendorGateProofs`.** `GateTypes`, `PermitsAreConserved`, `NobodyWaitsForNothing`, `LinesAreExact`. `GateInv` is their
conjunction and `Placed`: whoever waits or holds has a semaphore that was created, so a new one has
neither holder nor line. They need each other: a hand-over keeps the permits because the first in line waits at
this very semaphore, and a cancelled waiter can leave `free` alone because a line means that nothing is free.

**`HunterCacheProofs`.** `CacheTypes` rests on `Rooted`: a session that may UPDATE has a row to
update, its own or a committed one, and an INSERT names every column. `BudgetIsHeld`: `ClaimsApart` says that a session is within a call exactly
while it has a claim, that no two of an execution have the same one, and that no call has sent too much. `ServedFresh`: `AllSaid` has
each column of each row in any store or copy said by Hunter, of the domain the row is filed under or asked about it, which a column-wise UPDATE keeps and a
whole row would not; that it is fresh when it is handed over is the check of the very step, whatever passes afterwards.
`SearchesPaidOnce`: `AtHand` says that while a session's last answer is fresh the session is about to write it, or finds it under its own lock
and so gets no further than its local lookup; no other session can take the row from under that lock.

Every safety and action property of the passing runs is a theorem, and so are the refinements. Only model-checked are the
five liveness properties (`EveryRequestEnds`, `ExecutionsEnd`, `WaitersServed`, `LookupsEnd`, `RequestsEnd`): fairness and
ENABLED are out of the prover's reach. A theorem about a step says nothing of the steps being taken; that is what these five are for.

## 6. Not modelled

* String work: how names and headers are cleaned, how a template makes an address, how files and tables are
  parsed. Its results are functions given by the instance.
* HTTP payloads and their parsing, statistics and log columns, `export.py`, `eval.py`, `config.py` (values become
  constants).
* `mcp_http.py` and `oauth_open.py`: adapters that call the API's functions; no state of theirs matters to a run.
* `cli.py`: calls `create_run` and `execute_run` as the API does.
* SQLite, which the tests use, shares one connection among all sessions; the models take the Postgres of the
  deployment.
* Errors of the database at a job's own statements, the pool's timeout excepted, are not in `Service`, so that `StarvedByOthersOnly` speaks of
  waits only; `FinderRun` has any such error, as `Fail` and `EndFails`.
* Overlapping sessions of two runs and the catch-all flag: `DomainTask` is one task, and what other tasks know reaches it when it starts.
* `FinderRun` has the pool only as a failure (`Fail`, `EndFails`), `Service` has what a domain does only as rows that are settled:
  `RunLifecycle` is what both share.

## 7. Plan

Done: `FinderRun`, `VendorGate`, `PatternMemory`, `HunterCache`, `Service`, `DomainTask` with `Candidates` and
`Conventions`, the two abstract specifications and their three refinements, and the proofs of section 5.

Left: the Hunter budget over several executions of one run, once a document says what its cap means.
