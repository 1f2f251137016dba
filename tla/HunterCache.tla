------------------------------ MODULE HunterCache ------------------------------
(***************************************************************************)
(* What Hunter said about a domain, and where the finder keeps it          *)
(* (src/src/finder/hunter_cache.py, hunter.py): a row of the local table   *)
(* domain_email_patterns, which commits or rolls back with the domain      *)
(* task's transaction, and a row in Supabase, which is written at once.    *)
(* Calls of Hunter are limited by the budget of the run (HunterBudget),    *)
(* which all domain tasks of one execution share.                          *)
(*                                                                         *)
(* A session is one domain task (or one /verify request).  It asks for the *)
(* domain while it is still finding, and again for each person of a        *)
(* catch-all domain as long as it has no answer; the email finder spends   *)
(* the same budget.  One claim of the budget is one call of the client,    *)
(* which sends its request again while Hunter refuses it.  An answer may   *)
(* name another domain than the one asked for, and is filed under it.      *)
(*                                                                         *)
(* Time is counted in days, which pass at any moment; a row is fresh for   *)
(* Ttl days.  Two answers of one day still differ in their time.           *)
(***************************************************************************)
EXTENDS Integers

CONSTANTS
  Sessions, Domains,
  DomainOf,    \* session -> its domain
  Named,       \* domain -> the domains Hunter's answers for it may name
  Runs,        \* executions, each with a budget of its own
  RunOf,       \* session -> the execution it belongs to
  MaxCalls,    \* max_hunter_calls
  MaxRetries,  \* max_retries of the client
  Answers,     \* what Hunter may say: [pattern, acceptAll : BOOLEAN]
  Stored,      \* what the two tables may hold at first, by domain
  Ttl,         \* hunter_cache_ttl_days
  NoRow, NoSession,
  Undated,     \* fetched_at is missing, or no date
  MaxPeople,   \* bound: people of one session that come to Hunter
  MaxSessions, \* bound: sessions opened
  LastDay,     \* bound: days explored
  MaxOutages   \* bound: Supabase requests that fail

(* HunterPattern: source, organization, the sighted emails and Hunter's own
   confidence are data nothing here depends on.  fetched_at of the local table
   is NOT NULL; the table in Supabase is not the service's own. *)
Columns == {"pattern", "acceptAll", "fetched"}
RowsDated(days) == [pattern : BOOLEAN, acceptAll : BOOLEAN, fetched : days]
Rows == RowsDated(0 .. LastDay)
MaybeRow == Rows \cup {NoRow}
RemoteRows == RowsDated((0 .. LastDay) \cup {Undated})

ASSUME HunterAssumption ==
  /\ DomainOf \in [Sessions -> Domains]
  /\ Named \in [Domains -> SUBSET Domains]
  /\ RunOf \in [Sessions -> Runs]
  /\ Answers \subseteq [pattern : BOOLEAN, acceptAll : BOOLEAN]
  /\ Stored \subseteq [Domains -> [local : RowsDated({0}) \cup {NoRow},
                                   remote : RowsDated({0, Undated}) \cup {NoRow}]]
  /\ NoSession \notin Sessions
  /\ {MaxCalls, MaxRetries, MaxPeople, MaxSessions, LastDay, MaxOutages} \subseteq Nat
  /\ Ttl \in Nat \ {0}
  /\ Undated \notin 0 .. LastDay

ASSUME NoHunterRow == NoRow \notin RemoteRows

VARIABLES
  today,
  local,       \* domain -> the committed row of domain_email_patterns
  uncommitted, \* domain -> the row as the holder of its lock has written it
  holder,      \* domain -> the session that wrote the row and is still open
  remote,      \* domain -> the row in Supabase
  used,        \* run -> HunterBudget.used
  claim,       \* session -> the claim its call was made under
  tries,       \* session -> requests its call has sent
  pc,          \* session -> where it is
  back,        \* session -> where it goes after its lookup
  into,        \* session -> the domain its row is filed under
  view,        \* session -> its object of that row
  dirty,       \* session -> the columns its pending statement names
  ctx,         \* session -> the row of hunter_ctx
  own,         \* session -> the row a person of a catch-all domain looked up
  people,      \* session -> people done (bound)
  replies,     \* history: domain -> rows Hunter answered with, for it or under it
  last,        \* history: session -> its last answer under the name asked for
  opened, outages

stores == <<local, uncommitted, holder, remote>>
call == <<used, claim, tries>>
copies == <<into, view, dirty>>
served == <<ctx, own>>
bounds == <<opened, outages>>
vars == <<today, stores, call, pc, back, copies, served, people, replies, last, bounds>>

PCs == {"idle", "lookup", "remote", "ask", "searching", "posting", "flush", "people",
        "finder", "finding", "rollback"}

Dom(s) == DomainOf[s]

(* is_fresh *)
Fresh_OneDayMore(row) == row # NoRow /\ today - row.fetched <= Ttl
Fresh(row) == row # NoRow /\ today - row.fetched < Ttl

(* What a SELECT of the session finds: its own write, or what is committed. *)
Got_Committed(s, d) == local[d]
Got(s, d) == IF holder[d] = s THEN uncommitted[d] ELSE local[d]

HunterRow(a, day) == [pattern |-> a.pattern, acceptAll |-> a.acceptAll, fetched |-> day]

Init ==
  /\ today = 0
  /\ \E start \in Stored :
       /\ local = [d \in Domains |-> start[d].local]
       /\ remote = [d \in Domains |-> start[d].remote]
       /\ replies = [d \in Domains |-> {start[d].local, start[d].remote} \ {NoRow}]
  /\ uncommitted = [d \in Domains |-> NoRow]
  /\ holder = [d \in Domains |-> NoSession]
  /\ used = [r \in Runs |-> 0]
  /\ claim = [s \in Sessions |-> 0]
  /\ tries = [s \in Sessions |-> 0]
  /\ pc = [s \in Sessions |-> "idle"]
  /\ back = [s \in Sessions |-> "idle"]
  /\ into = [s \in Sessions |-> Dom(s)]
  /\ view = [s \in Sessions |-> NoRow]
  /\ dirty = [s \in Sessions |-> {}]
  /\ ctx = [s \in Sessions |-> NoRow]
  /\ own = [s \in Sessions |-> NoRow]
  /\ people = [s \in Sessions |-> 0]
  /\ last = [s \in Sessions |-> NoRow]
  /\ opened = 0 /\ outages = 0

-------------------------------------------------------------------------------
(* prepare_domain: while it is still finding it resolves the domain, else it
   goes to its people without an answer. *)
Begin(s) ==
  /\ pc[s] = "idle" /\ opened < MaxSessions
  /\ opened' = opened + 1
  /\ \E first \in {"lookup", "people"} : pc' = [pc EXCEPT ![s] = first]
  /\ back' = [back EXCEPT ![s] = "people"]
  /\ UNCHANGED <<today, stores, call, copies, served, people, replies, last, outages>>

(* resolve_hunter_pattern returns: prepare_domain keeps the answer for the whole
   session, _confirm_on_catchall for its one person. *)
Served(s, row) ==
  IF back[s] = "people"
  THEN ctx' = [ctx EXCEPT ![s] = row] /\ own' = own
  ELSE own' = [own EXCEPT ![s] = row] /\ ctx' = ctx

GoTo(s, place) == pc' = [pc EXCEPT ![s] = place]

Forget(s) ==
  /\ into' = [into EXCEPT ![s] = Dom(s)]
  /\ view' = [view EXCEPT ![s] = NoRow]
  /\ dirty' = [dirty EXCEPT ![s] = {}]

(* get_local *)
LocalHit(s) ==
  /\ pc[s] = "lookup" /\ Fresh(Got(s, Dom(s)))
  /\ Served(s, Got(s, Dom(s))) /\ GoTo(s, back[s])
  /\ UNCHANGED <<today, stores, call, back, copies, people, replies, last, bounds>>

(* The session refers to an unchanged object weakly: the stale row that was read
   may still be there when put_local asks for it, or be gone. *)
LocalMiss(s) ==
  /\ pc[s] = "lookup" /\ ~Fresh(Got(s, Dom(s)))
  /\ \E kept \in {Got(s, Dom(s)), NoRow} : view' = [view EXCEPT ![s] = kept]
  /\ GoTo(s, "remote")
  /\ UNCHANGED <<today, stores, call, back, into, dirty, served, people, replies, last, bounds>>

(* put_local finds the session's object or reads the row again, and sets its
   columns, to be flushed by the session's next statement: an INSERT, which names
   the key too, or an UPDATE of what differs.  Another answer has another time;
   where the day is the same, `time` says whether it is another answer. *)
PutLocal(s, d, row, time) ==
  LET found == IF d = Dom(s) /\ view[s] # NoRow THEN view[s] ELSE Got(s, d)
      differ == {f \in Columns : row[f] # found[f]} IN
  /\ dirty' = [dirty EXCEPT ![s] = IF found = NoRow THEN Columns \cup {"domain"}
                                   ELSE IF differ = {} THEN time
                                   ELSE differ \cup {"fetched"}]
  /\ view' = [view EXCEPT ![s] = row]
  /\ into' = [into EXCEPT ![s] = d]

(* dict_to_pattern: a row without a usable date counts as fetched now. *)
Copied_Expiry(row) ==
  IF row = NoRow THEN row ELSE [row EXCEPT !.fetched = IF @ = Undated THEN today ELSE @ + Ttl]
Copied(row) ==
  IF row # NoRow /\ row.fetched = Undated THEN [row EXCEPT !.fetched = today] ELSE row

(* get_supabase, and put_local of what it found. *)
RemoteHit(s) ==
  /\ pc[s] = "remote"
  /\ LET row == Copied(remote[Dom(s)]) IN
     /\ Fresh(row)
     /\ Served(s, row)
     /\ \E time \in SUBSET {"fetched"} : PutLocal(s, Dom(s), row, time)
  /\ GoTo(s, "flush")
  /\ UNCHANGED <<today, stores, call, back, people, replies, last, bounds>>

RemoteMiss(s) ==
  /\ pc[s] = "remote" /\ ~Fresh(Copied(remote[Dom(s)]))
  /\ GoTo(s, "ask")
  /\ UNCHANGED <<today, stores, call, back, copies, served, people, replies, last, bounds>>

(* A transport error, a status of 400 or more, or a body that is not a list. *)
RemoteDown(s) ==
  /\ pc[s] = "remote" /\ outages < MaxOutages
  /\ outages' = outages + 1
  /\ GoTo(s, "ask")
  /\ UNCHANGED <<today, stores, call, back, copies, served, people, replies, last, opened>>

(* HunterBudget.consume, right before the client is called. *)
Claimed_OneMore(r) == used[r] <= MaxCalls /\ used' = [used EXCEPT ![r] = @ + 1]
Claimed(r) == used[r] < MaxCalls /\ used' = [used EXCEPT ![r] = @ + 1]

Claims(s) ==
  /\ Claimed(RunOf[s])
  /\ claim' = [claim EXCEPT ![s] = used'[RunOf[s]]]
  /\ tries' = tries

Returned(s) ==
  /\ claim' = [claim EXCEPT ![s] = 0]
  /\ tries' = [tries EXCEPT ![s] = 0]
  /\ used' = used

Exhausted_Waits(r) == FALSE
Exhausted(r) == used[r] >= MaxCalls

Ask(s) ==
  /\ pc[s] = "ask"
  /\ Claims(s)
  /\ GoTo(s, "searching")
  /\ UNCHANGED <<today, stores, back, copies, served, people, replies, last, bounds>>

CapReached(s) ==
  /\ pc[s] = "ask" /\ Exhausted(RunOf[s])
  /\ Served(s, NoRow) /\ GoTo(s, back[s])
  /\ Forget(s)
  /\ UNCHANGED <<today, stores, call, back, people, replies, last, bounds>>

(* request_with_backoff: the first request of a call, and one more for each that
   met a 429, a 5xx or a transport error, max_retries of them at the most. *)
Send(s) ==
  /\ pc[s] \in {"searching", "finding"}
  /\ tries[s] <= MaxRetries
  /\ tries' = [tries EXCEPT ![s] = @ + 1]
  /\ UNCHANGED <<today, stores, used, claim, pc, back, copies, served, people, replies, last,
                 bounds>>

(* domain_search returned a row: what a 200 says, under the domain it names, or
   an empty row for a 200 of nothing, a 400 or a 404. *)
Answered(s) ==
  /\ pc[s] = "searching" /\ tries[s] # 0
  /\ \E a \in Answers, d \in Named[Dom(s)] :
       LET row == HunterRow(a, today) IN
       /\ Served(s, row)
       /\ PutLocal(s, d, row, {"fetched"})
       /\ replies' = [e \in Domains |-> replies[e] \cup IF e \in {d, Dom(s)} THEN {row} ELSE {}]
       /\ last' = [last EXCEPT ![s] = IF d = Dom(s) THEN row ELSE @]
  /\ Returned(s) /\ GoTo(s, "posting")
  /\ UNCHANGED <<today, stores, back, people, bounds>>

(* Another status, a transport error or an exception: inference goes on. *)
Unanswered(s) ==
  /\ pc[s] = "searching" /\ tries[s] # 0
  /\ Served(s, NoRow) /\ GoTo(s, back[s])
  /\ Returned(s) /\ Forget(s)
  /\ UNCHANGED <<today, stores, back, people, replies, last, bounds>>

(* put_supabase, with resolution=merge-duplicates. *)
Posted(s) == [remote EXCEPT ![into[s]] = view[s]]

Post(s) ==
  /\ pc[s] = "posting"
  /\ \/ remote' = Posted(s) /\ outages' = outages
     \/ remote' = remote /\ outages < MaxOutages /\ outages' = outages + 1
  /\ GoTo(s, "flush")
  /\ UNCHANGED <<today, local, uncommitted, holder, call, back, copies, served, people, replies,
                 last, opened>>

-------------------------------------------------------------------------------
(* The statement over the row as it is now. *)
Written(s) ==
  [f \in Columns |-> IF f \in dirty[s] THEN view[s][f] ELSE Got(s, into[s])[f]]

(* The flush before the next statement waits for a session that wrote the row.
   An INSERT fails when such a session has committed, and a session may hold the
   rows of two domains, so that the database may have to break a deadlock. *)
LockFree(s) == holder[into[s]] \in {NoSession, s}

Conflict(s) == LockFree(s) /\ "domain" \in dirty[s] /\ local[into[s]] # NoRow

WaitsFor(s, z) == pc[s] = "flush" /\ dirty[s] # {} /\ z # s /\ holder[into[s]] = z

Deadlocked(s) ==
  \E C \in SUBSET Sessions :
    /\ s \in C
    /\ \A y \in C : \E z \in C : WaitsFor(y, z)
    /\ \A z \in C : \E y \in C : WaitsFor(y, z)

Flush(s) ==
  /\ pc[s] = "flush"
  /\ IF dirty[s] = {}
     THEN UNCHANGED <<holder, uncommitted>>
     ELSE /\ LockFree(s) /\ ~Conflict(s)
          /\ holder' = [holder EXCEPT ![into[s]] = s]
          /\ uncommitted' = [uncommitted EXCEPT ![into[s]] = Written(s)]
  /\ Forget(s)
  /\ GoTo(s, back[s])
  /\ UNCHANGED <<today, local, remote, call, back, served, people, replies, last, bounds>>

FlushFails(s) ==
  /\ pc[s] = "flush" /\ (Conflict(s) \/ Deadlocked(s))
  /\ GoTo(s, "rollback")
  /\ UNCHANGED <<today, stores, call, back, copies, served, people, replies, last, bounds>>

-------------------------------------------------------------------------------
(* _confirm_on_catchall: a person of a catch-all domain looks the domain up
   again when the session has no answer. *)
Confirm(s) ==
  /\ pc[s] = "people" /\ people[s] < MaxPeople
  /\ people' = [people EXCEPT ![s] = @ + 1]
  /\ own' = [own EXCEPT ![s] = NoRow]
  /\ back' = [back EXCEPT ![s] = "finder"]
  /\ GoTo(s, IF ctx[s] = NoRow THEN "lookup" ELSE "finder")
  /\ UNCHANGED <<today, stores, call, copies, ctx, replies, last, bounds>>

(* process_person: the candidates are used up; the email finder comes last, and
   only where Hunter gave no format. *)
HasFormat(s) == ctx[s] # NoRow /\ ctx[s].pattern

LastResort(s) ==
  /\ pc[s] = "people" /\ people[s] < MaxPeople
  /\ ~HasFormat(s)
  /\ people' = [people EXCEPT ![s] = @ + 1]
  /\ back' = [back EXCEPT ![s] = "finder"]
  /\ GoTo(s, "finder")
  /\ UNCHANGED <<today, stores, call, copies, served, replies, last, bounds>>

NextPerson(s) ==
  /\ back' = [back EXCEPT ![s] = "people"]
  /\ GoTo(s, "people")

(* _try_email_finder: one call more, if the budget allows. *)
AskFinder(s) ==
  /\ pc[s] = "finder"
  /\ Claims(s)
  /\ GoTo(s, "finding")
  /\ UNCHANGED <<today, stores, back, copies, served, people, replies, last, bounds>>

(* The budget is used up, the person has no full name, or the people found at
   the domain have confirmed the address before. *)
SkipFinder(s) ==
  /\ pc[s] = "finder"
  /\ NextPerson(s)
  /\ UNCHANGED <<today, stores, call, copies, served, people, replies, last, bounds>>

FinderReturned(s) ==
  /\ pc[s] = "finding" /\ tries[s] # 0
  /\ NextPerson(s) /\ Returned(s)
  /\ UNCHANGED <<today, stores, copies, served, people, replies, last, bounds>>

-------------------------------------------------------------------------------
Close(s) ==
  /\ pc' = [pc EXCEPT ![s] = "idle"]
  /\ back' = [back EXCEPT ![s] = "idle"]
  /\ Forget(s) /\ Returned(s)
  /\ ctx' = [ctx EXCEPT ![s] = NoRow]
  /\ own' = [own EXCEPT ![s] = NoRow]
  /\ people' = [people EXCEPT ![s] = 0]
  /\ last' = [last EXCEPT ![s] = NoRow]
  /\ holder' = [d \in Domains |-> IF holder[d] = s THEN NoSession ELSE holder[d]]
  /\ uncommitted' = [d \in Domains |-> IF holder[d] = s THEN NoRow ELSE uncommitted[d]]

Commit(s) ==
  /\ pc[s] = "people"
  /\ local' = [d \in Domains |-> Got(s, d)]
  /\ Close(s)
  /\ UNCHANGED <<today, remote, replies, bounds>>

(* The failed flush, another failure of the domain, or the end of the process;
   what Supabase has and what the budget lost stay.  A request to Supabase that
   the end of the process cuts off is one of the outages. *)
Rollback(s) ==
  /\ pc[s] # "idle"
  /\ IF pc[s] = "posting"
     THEN outages < MaxOutages /\ outages' = outages + 1
     ELSE outages' = outages
  /\ Close(s)
  /\ UNCHANGED <<today, local, remote, replies, opened>>

Tomorrow ==
  /\ today < LastDay
  /\ today' = today + 1
  /\ UNCHANGED <<stores, call, pc, back, copies, served, people, replies, last, bounds>>

Resolve(s) ==
  \/ LocalHit(s) \/ LocalMiss(s)
  \/ RemoteHit(s) \/ RemoteMiss(s) \/ RemoteDown(s)
  \/ Ask(s) \/ CapReached(s) \/ Answered(s) \/ Unanswered(s) \/ Post(s)

Work(s) ==
  \/ Resolve(s) \/ Send(s)
  \/ Flush(s) \/ FlushFails(s)
  \/ AskFinder(s) \/ SkipFinder(s) \/ FinderReturned(s)
  \/ Commit(s)
  \/ pc[s] = "rollback" /\ Rollback(s)

Next ==
  \/ \E s \in Sessions :
       Begin(s) \/ Work(s) \/ Confirm(s) \/ LastResort(s) \/ Rollback(s)
  \/ Tomorrow

Spec == Init /\ [][Next]_vars

(* Fairness: the event loop runs a session that can go on; Hunter and Supabase
   answer or time out. *)
FairSpec == Spec /\ \A s \in Sessions : WF_vars(Work(s))

-------------------------------------------------------------------------------
TypeOK ==
  /\ today \in 0 .. LastDay
  /\ local \in [Domains -> MaybeRow] /\ uncommitted \in [Domains -> MaybeRow]
  /\ remote \in [Domains -> RemoteRows \cup {NoRow}]
  /\ holder \in [Domains -> Sessions \cup {NoSession}]
  /\ used \in [Runs -> Nat] /\ claim \in [Sessions -> Nat] /\ tries \in [Sessions -> Nat]
  /\ pc \in [Sessions -> PCs] /\ back \in [Sessions -> {"idle", "people", "finder"}]
  /\ into \in [Sessions -> Domains] /\ view \in [Sessions -> MaybeRow]
  /\ dirty \in [Sessions -> SUBSET (Columns \cup {"domain"})]
  /\ ctx \in [Sessions -> MaybeRow] /\ own \in [Sessions -> MaybeRow]
  /\ people \in [Sessions -> Nat] /\ last \in [Sessions -> MaybeRow]
  /\ replies \in [Domains -> SUBSET RemoteRows]
  /\ opened \in Nat /\ outages \in Nat

(* max_hunter_calls (hunter.py:91-112, limits.py:131-159): whatever request is out,
   of the searches and email finders of all domains of an execution, its call has
   a claim within the limit that no other call has, and has not sent more than
   max_retries + 1.  So an execution sends at the most max_hunter_calls *
   (max_retries + 1) requests; the counter tells the calls, not the requests. *)
BudgetHeld ==
  /\ \A r \in Runs : used[r] <= MaxCalls
  /\ \A s \in Sessions : tries[s] # 0 =>
       /\ claim[s] \in 1 .. used[RunOf[s]]
       /\ tries[s] <= MaxRetries + 1
       /\ \A z \in Sessions \ {s} : RunOf[z] = RunOf[s] => claim[z] # claim[s]

(* is_fresh over two stores and copies between them: when a session is given a
   row, Hunter said so, of this domain or asked about it, less than Ttl days ago; a
   session may keep the row longer.  Of a row that came undated from Supabase
   nobody knows how old it is.  Column by column: two sessions that refresh a
   stale row at once may leave the columns of both. *)
SaidOf(s, row) ==
  \A f \in Columns : \E said \in replies[Dom(s)] :
    said[f] = row[f] \/ (f = "fetched" /\ said.fetched = Undated)

HandsFreshRows ==
  \A s \in Sessions : \A row \in {ctx'[s], own'[s]} \ {ctx[s], own[s], NoRow} :
    (today - row.fetched < Ttl /\ SaidOf(s, row))'

ServedIsFresh == [][HandsFreshRows]_vars

(* A session that Hunter answered under the name it asked for does not pay again
   for the domain while that answer is fresh, though each person of a catch-all
   domain may look it up and other sessions write the same row.  An answer that
   names another domain is filed there, and its session may pay again. *)
AnsweredOnce == [][\A s \in Sessions : Ask(s) => ~Fresh(last[s])]_vars

(* A lookup ends, also when it waits for a session that holds the domain's row. *)
LookupsEnd ==
  \A s \in Sessions : pc[s] = "lookup" ~> pc[s] \in {"people", "finder", "idle"}

(* hunter_cache.py:5-6: "Cache reads and writes never raise into the run." *)
CacheNeverFailsRun == \A s \in Sessions : pc[s] # "rollback"
===============================================================================
