----------------------------- MODULE PatternMemory -----------------------------
(***************************************************************************)
(* What the finder remembers of one domain: its row of domain_patterns     *)
(* (src/src/finder/patterns.py) and the way prepare_domain, process_person *)
(* and seed_from_known read and write it (src/src/finder/engine.py).       *)
(*                                                                         *)
(* A session reads the row once, keeps the object for its whole            *)
(* transaction and works on that copy.  A flush sends an UPDATE of the     *)
(* columns whose value differs from what the session read or last wrote,   *)
(* and takes the row's lock until the session ends; another session's      *)
(* flush waits for it.  A session that found no row INSERTs one, which     *)
(* fails when another session's insert has been committed.                 *)
(*                                                                         *)
(* The row and its writers are in PatternRow; Expire clears `fresh`.       *)
(***************************************************************************)
EXTENDS Integers, FiniteSets, Functions, PatternRow

CONSTANTS
  Sessions,     \* domain tasks, /verify requests and seed imports at once
  NoSession,
  Deduced,      \* formats that known people or conventions may suggest
  ProbeReplies, \* what a bought probe may say: TRUE accepts all, FALSE, Unanswered
  Unanswered,   \* the verifier returned "error"
  MaxSessions,  \* bound: sessions opened
  MaxPeople,    \* bound: hits or catch-all verdicts in one session
  MaxExpiries   \* bound: how often catchall_ttl_days pass

ASSUME PatternAssumption ==
  /\ IsFiniteSet(Patterns)
  /\ NoSession \notin Sessions
  /\ Deduced \subseteq Patterns
  /\ Unanswered \notin BOOLEAN
  /\ ProbeReplies \subseteq BOOLEAN \cup {Unanswered}
  /\ MaxSessions \in Nat /\ MaxPeople \in Nat /\ MaxExpiries \in Nat

VARIABLES
  row,         \* the committed row, or NoRow
  uncommitted, \* the row as the lock's holder has written it
  holder,      \* the session that holds the row's lock
  probe,       \* the committed verdict on the probe address, or Unanswered
  pc,          \* session -> where it is
  after,       \* session -> where it goes after its flush
  view,        \* session -> its copy of the row
  base,        \* session -> the values it read or last wrote
  cached,      \* session -> what prepare_domain had before asking anyone
  newProbe,    \* session -> the probe verdict it bought
  ops,         \* session -> people done (bound)
  hits,        \* history: pattern -> confirmations committed
  myHits,      \* history: session -> pattern -> confirmations not committed
  quiet,       \* history: no two sessions overlapped, no deduced format was written
  sessions, expiries

memory == <<row, uncommitted, holder, probe, hits>>
bounds == <<sessions, expiries, quiet>>
vars == <<memory, pc, after, view, base, cached, newProbe, ops, myHits, bounds>>

PCs == {"idle", "known", "probe", "probing", "found", "people", "seed", "flush", "rollback"}
NoHits == [p \in Patterns |-> 0]

-------------------------------------------------------------------------------
(* sessions *)

Init ==
  /\ row = NoRow /\ uncommitted = NoRow /\ holder = NoSession
  /\ probe = Unanswered
  /\ pc = [s \in Sessions |-> "idle"]
  /\ after = [s \in Sessions |-> "idle"]
  /\ view = [s \in Sessions |-> NoRow]
  /\ base = [s \in Sessions |-> NoRow]
  /\ cached = [s \in Sessions |-> "nothing"]
  /\ newProbe = [s \in Sessions |-> Unanswered]
  /\ ops = [s \in Sessions |-> 0]
  /\ hits = NoHits
  /\ myHits = [s \in Sessions |-> NoHits]
  /\ quiet = TRUE
  /\ sessions = 0 /\ expiries = 0

(* A domain task or a /verify request (at prepare_domain), or a seed import. *)
Begin(s) ==
  /\ pc[s] = "idle" /\ sessions < MaxSessions
  /\ sessions' = sessions + 1
  /\ \E start \in {"known", "seed"} : pc' = [pc EXCEPT ![s] = start]
  /\ quiet' = (quiet /\ \A u \in Sessions : pc[u] = "idle")
  /\ UNCHANGED <<memory, after, view, base, cached, newProbe, ops, myHits, expiries>>

(* session.get(DomainPattern, domain): the copy the session has, or a SELECT
   when it has none. *)
Got(s) == IF view[s] # NoRow THEN view[s] ELSE row
GotBase(s) == IF view[s] # NoRow THEN base[s] ELSE row

(* A change to the copy, to be flushed before the session goes on at pc next. *)
Change(s, changed, next) ==
  /\ base' = [base EXCEPT ![s] = GotBase(s)]
  /\ view' = [view EXCEPT ![s] = changed]
  /\ pc' = [pc EXCEPT ![s] = "flush"]
  /\ after' = [after EXCEPT ![s] = next]

(* Only a read: the copy is taken, or was there. *)
Read(s, next) ==
  /\ base' = [base EXCEPT ![s] = GotBase(s)]
  /\ view' = [view EXCEPT ![s] = Got(s)]
  /\ pc' = [pc EXCEPT ![s] = next]
  /\ after' = after

(* remember_deduced_pattern: a trusted row is left as it is. *)
Remember(s, p, next) ==
  IF Trusted(Got(s)) # NoPattern
  THEN Read(s, next) /\ quiet' = quiet
  ELSE Change(s, WithHint(Got(s), p), next) /\ quiet' = FALSE

(* load_local_domain_pattern: known people agree on a format, or they do not. *)
LoadKnown(s) ==
  /\ pc[s] = "known"
  /\ \/ /\ Read(s, "probe") /\ quiet' = quiet
        /\ cached' = [cached EXCEPT ![s] =
             IF Got(s) = NoRow THEN "nothing"
             ELSE IF Got(s).pattern = NoPattern THEN "nothing" ELSE "pattern"]
     \/ /\ \E p \in Deduced : Remember(s, p, "probe")
        /\ cached' = [cached EXCEPT ![s] = "deduced"]
  /\ UNCHANGED <<memory, newProbe, ops, myHits, sessions, expiries>>

(* probe_catchall, answered from a fresh row. *)
SkipProbe(s) ==
  /\ pc[s] = "probe" /\ CatchallCached(Got(s))
  /\ Read(s, "found")
  /\ UNCHANGED <<memory, cached, newProbe, ops, myHits, bounds>>

(* probe_catchall asks verify_email; `verifications` has no expiry, so the
   probe address is bought at most once. *)
ProbeFromCache(s) ==
  /\ pc[s] = "probe" /\ ~CatchallCached(Got(s)) /\ probe # Unanswered
  /\ Change(s, WithCatchall(Got(s), probe), "found")
  /\ UNCHANGED <<memory, cached, newProbe, ops, myHits, bounds>>

ProbeVendor(s) ==
  /\ pc[s] = "probe" /\ ~CatchallCached(Got(s)) /\ probe = Unanswered
  /\ Read(s, "probing")
  /\ UNCHANGED <<memory, cached, newProbe, ops, myHits, bounds>>

(* The verdict counts as a catch-all only when it is valid or catchall: no
   answer is recorded as "not a catch-all". *)
ProbeAnswered(s) ==
  /\ pc[s] = "probing"
  /\ \E reply \in ProbeReplies :
       /\ Change(s, WithCatchall(Got(s), reply = TRUE), "found")
       /\ newProbe' = [newProbe EXCEPT ![s] = reply]
  /\ UNCHANGED <<memory, cached, ops, myHits, bounds>>

(* prepare_domain: Hunter is asked while the finder is "still finding", and the
   first convention of the people it found is remembered, unless known people
   had already decided. *)
StillFinding(s) == cached[s] = "nothing" \/ view[s].catchall

Conventions(s) ==
  /\ pc[s] = "found"
  /\ \/ Read(s, "people") /\ quiet' = quiet
     \/ StillFinding(s) /\ cached[s] # "deduced" /\ \E p \in Deduced : Remember(s, p, "people")
  /\ UNCHANGED <<memory, cached, newProbe, ops, myHits, sessions, expiries>>

(* process_person: a candidate verified.  On a catch-all domain nothing is
   verified; with a trusted pattern that is the only candidate. *)
Hit(s, p) ==
  /\ pc[s] = "people" /\ ops[s] < MaxPeople
  /\ ~view[s].catchall
  /\ Trusted(view[s]) \in {NoPattern, p}
  /\ ops' = [ops EXCEPT ![s] = @ + 1]
  /\ myHits' = [myHits EXCEPT ![s][p] = @ + 1]
  /\ Change(s, WithHit(Got(s), p), "people")
  /\ UNCHANGED <<memory, cached, newProbe, bounds>>

(* process_person: a candidate came back as catch-all. *)
Observe(s) ==
  /\ pc[s] = "people" /\ ops[s] < MaxPeople
  /\ ~view[s].catchall
  /\ ops' = [ops EXCEPT ![s] = @ + 1]
  /\ Change(s, WithCatchall(Got(s), TRUE), "people")
  /\ UNCHANGED <<memory, cached, newProbe, myHits, bounds>>

(* seed_from_known: a row of known people, whatever the row says. *)
Seed(s, p) ==
  /\ pc[s] = "seed" /\ ops[s] < MaxPeople
  /\ ops' = [ops EXCEPT ![s] = @ + 1]
  /\ myHits' = [myHits EXCEPT ![s][p] = @ + 1]
  /\ Change(s, WithHit(Got(s), p), "seed")
  /\ UNCHANGED <<memory, cached, newProbe, bounds>>

(* The columns an UPDATE names, over the row as it is now. *)
Updated_AddsConfidence(s) ==
  LET now == IF holder = s THEN uncommitted ELSE row IN
  [f \in DOMAIN now |-> IF view[s][f] = base[s][f] THEN now[f]
                        ELSE IF f = "conf" THEN view[s][f] + now[f] ELSE view[s][f]]
Updated(s) ==
  LET now == IF holder = s THEN uncommitted ELSE row IN
  [f \in DOMAIN now |-> IF view[s][f] # base[s][f] THEN view[s][f] ELSE now[f]]

(* session.flush, once no other session holds the row. *)
LockFree(s) == holder \in {NoSession, s}

Flush(s) ==
  /\ pc[s] = "flush" /\ LockFree(s)
  /\ IF base[s] = NoRow /\ row # NoRow
     THEN /\ pc' = [pc EXCEPT ![s] = "rollback"]
          /\ UNCHANGED <<holder, uncommitted, base>>
     ELSE /\ holder' = s
          /\ uncommitted' = IF base[s] = NoRow THEN view[s] ELSE Updated(s)
          /\ base' = [base EXCEPT ![s] = view[s]]
          /\ pc' = [pc EXCEPT ![s] = after[s]]
  /\ UNCHANGED <<row, probe, hits, after, view, cached, newProbe, ops,
                 myHits, bounds>>

HolderAfter_StillHeld(s) == holder
HolderAfter(s) == IF holder = s THEN NoSession ELSE holder

Close(s) ==
  /\ pc' = [pc EXCEPT ![s] = "idle"]
  /\ after' = [after EXCEPT ![s] = "idle"]
  /\ view' = [view EXCEPT ![s] = NoRow]
  /\ base' = [base EXCEPT ![s] = NoRow]
  /\ cached' = [cached EXCEPT ![s] = "nothing"]
  /\ newProbe' = [newProbe EXCEPT ![s] = Unanswered]
  /\ ops' = [ops EXCEPT ![s] = 0]
  /\ myHits' = [myHits EXCEPT ![s] = NoHits]
  /\ holder' = HolderAfter(s)
  /\ uncommitted' = IF HolderAfter(s) = NoSession THEN NoRow ELSE uncommitted

Commit(s) ==
  /\ pc[s] \in {"people", "seed"}
  /\ row' = IF holder = s THEN uncommitted ELSE row
  /\ probe' = IF probe = Unanswered THEN newProbe[s] ELSE probe
  /\ hits' = [p \in Patterns |-> hits[p] + myHits[s][p]]
  /\ Close(s)
  /\ UNCHANGED bounds

(* The ceiling stops a task that is still preparing: what it has is committed. *)
StopEarly(s) ==
  /\ pc[s] = "probe" /\ ~CatchallCached(Got(s)) /\ probe = Unanswered
  /\ row' = IF holder = s THEN uncommitted ELSE row
  /\ Close(s)
  /\ UNCHANGED <<probe, hits, bounds>>

(* An IntegrityError, another failure of the task, or the end of the process. *)
Rollback(s) ==
  /\ pc[s] # "idle"
  /\ Close(s)
  /\ UNCHANGED <<row, probe, hits, bounds>>

(* catchall_ttl_days go by between two sessions. *)
Expire ==
  /\ expiries < MaxExpiries
  /\ \A s \in Sessions : pc[s] = "idle"
  /\ row # NoRow /\ row.fresh
  /\ expiries' = expiries + 1
  /\ row' = [row EXCEPT !.fresh = FALSE]
  /\ UNCHANGED <<uncommitted, holder, probe, hits, pc, after, view, base, cached,
                 newProbe, ops, myHits, sessions, quiet>>

Work(s) ==
  \/ LoadKnown(s)
  \/ SkipProbe(s)
  \/ ProbeFromCache(s)
  \/ ProbeVendor(s)
  \/ ProbeAnswered(s)
  \/ Conventions(s)
  \/ Flush(s)
  \/ Commit(s)
  \/ pc[s] = "rollback" /\ Rollback(s)

Next ==
  \/ \E s \in Sessions :
       \/ Begin(s)
       \/ Work(s)
       \/ \E p \in Patterns : Hit(s, p) \/ Seed(s, p)
       \/ Observe(s)
       \/ StopEarly(s)
       \/ Rollback(s)
  \/ Expire

Spec == Init /\ [][Next]_vars

(* Fairness: the event loop runs a session that can go on, and the verifier
   answers it. *)
FairSpec == Spec /\ \A s \in Sessions : WF_vars(Work(s))

-------------------------------------------------------------------------------
TypeOK ==
  /\ row \in Rows \cup {NoRow}
  /\ uncommitted \in Rows \cup {NoRow}
  /\ holder \in Sessions \cup {NoSession}
  /\ probe \in BOOLEAN \cup {Unanswered}
  /\ pc \in [Sessions -> PCs]
  /\ after \in [Sessions -> PCs]
  /\ view \in [Sessions -> Rows \cup {NoRow}]
  /\ base \in [Sessions -> Rows \cup {NoRow}]
  /\ cached \in [Sessions -> {"nothing", "pattern", "deduced"}]
  /\ newProbe \in [Sessions -> BOOLEAN \cup {Unanswered}]
  /\ ops \in [Sessions -> Nat]
  /\ hits \in [Patterns -> Nat]
  /\ myHits \in [Sessions -> [Patterns -> Nat]]
  /\ quiet \in BOOLEAN
  /\ sessions \in Nat /\ expiries \in Nat

(* README.md:33-34: "A pattern is trusted after 2 consistent confirmations":
   the pattern of a trusted row was confirmed at least Threshold times. *)
TrustEarned ==
  Trusted(row) # NoPattern => hits[Trusted(row)] >= Threshold

(* So it is as long as sessions come one after the other and no deduced format
   is written between confirmations. *)
TrustEarnedInQuiet == quiet => TrustEarned

(* Confidence is never made up: whatever sessions overlap, whatever copies are
   stale and whichever columns an UPDATE names, it does not exceed the
   confirmations that were committed, and never stands without a pattern. *)
ConfidenceBacked ==
  row # NoRow /\ row.conf > 0 => row.pattern # NoPattern /\ row.conf <= SumFunction(hits)

(* README.md:34-35: "a later contradiction decrements confidence and re-derives
   rather than silently overwriting": one trusted pattern gives way to another
   only after Threshold confirmations of the new one. *)
TrustNotOverwritten ==
  [][LET old == Trusted(row)
         new == Trusted(row') IN
     quiet' /\ NoPattern \notin {old, new} /\ old # new => hits'[new] - hits[new] >= Threshold]_vars

(* A session that waits for the row gets it: whoever holds it commits or rolls
   back, and its vendor calls in between come to an end. *)
WaitersServed ==
  \A s \in Sessions : pc[s] = "flush" ~> pc[s] # "flush"
===============================================================================
