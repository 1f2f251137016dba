---------------------------- MODULE FinderRunProofs ----------------------------
(* What holds of FinderRun for every set of runs, tasks, people and addresses,
   every price, ceiling and concurrency. *)
EXTENDS FinderRun, FiniteSetTheorems, TLAPS

(* What a task has in hand at each place: TypeOK is not inductive without it,
   since a verdict is inserted only where the address and the verdict are the
   ones verify_email was called with. *)
InHand ==
  \A t \in Tasks :
    /\ pc[t] \in {"gate", "call", "store", "insert"} =>
         email[t] \in Emails /\ cur[t] \in People \cup {Probe}
    /\ pc[t] \in {"store", "insert"} => answer[t] \in Storable

TypeInv == TypeOK /\ InHand

USE DEF Storable, Verdicts, NoVerdict, RowStatuses, Terminal, Pending, RunStatuses,
        InDomain, TaskEnds, PCs, Costs

LEMMA TypeInit == Init => TypeInv
<1> SUFFICES ASSUME Init PROVE TypeInv
  OBVIOUS
<1>1. people \in [People -> RowStatuses] /\ rows \in [People -> RowStatuses]
  BY RunAssumption DEF Init
<1>2. /\ verdict \in [Emails -> Storable \cup {NoVerdict}]
      /\ written \in [Tasks -> [Emails -> Storable \cup {NoVerdict}]]
  BY DEF Init, Nothing
<1>3. pc \in [Tasks -> PCs] /\ InHand
  BY DEF Init, InHand
<1>4. QED
  BY <1>1, <1>2, <1>3 DEF Init, TypeInv, TypeOK

(* Closing a session leaves the task's variables with values of their types. *)
LEMMA CloseType ==
  ASSUME TypeInv, NEW t \in Tasks, NEW end \in TaskEnds, CloseSession(t, end)
  PROVE  /\ pc' \in [Tasks -> PCs]
         /\ cur' \in [Tasks -> People \cup {Probe, NoPerson}]
         /\ email' \in [Tasks -> Emails \cup {NoEmail}]
         /\ answer' \in [Tasks -> Verdicts \cup {NoVerdict}]
         /\ written' \in [Tasks -> [Emails -> Storable \cup {NoVerdict}]]
         /\ holds' \in [Tasks -> BOOLEAN]
         /\ exit' \in [Tasks -> {"done", "ceiling"}]
         /\ snap' \in [Tasks -> Nat]
         /\ InHand'
BY DEF CloseSession, Nothing, TypeInv, TypeOK, InHand

LEMMA RollbackType ==
  ASSUME TypeInv, NEW t \in Tasks, Rollback(t),
         UNCHANGED <<db, tracker, billed, bought, crashed, unbooked, executions>>,
         failures' \in Nat
  PROVE  TypeInv'
<1>1. InHand' /\ pc' \in [Tasks -> PCs]
      /\ cur' \in [Tasks -> People \cup {Probe, NoPerson}]
      /\ email' \in [Tasks -> Emails \cup {NoEmail}]
      /\ answer' \in [Tasks -> Verdicts \cup {NoVerdict}]
      /\ written' \in [Tasks -> [Emails -> Storable \cup {NoVerdict}]]
      /\ holds' \in [Tasks -> BOOLEAN]
      /\ exit' \in [Tasks -> {"done", "ceiling"}]
      /\ snap' \in [Tasks -> Nat]
  BY CloseType DEF Rollback
<1>2. rows' \in [People -> RowStatuses] /\ tried' \in [People -> SUBSET Emails]
  BY DEF Rollback, TypeInv, TypeOK
<1>3. QED
  BY <1>1, <1>2 DEF TypeInv, TypeOK, db, tracker

(* A verdict in hand, on the address it was asked for. *)
LEMMA GotType ==
  ASSUME TypeInv, NEW t \in Tasks, NEW e \in Emails, NEW v \in Verdicts,
         cur[t] \in People \cup {Probe}, Got(t, e, v)
  PROVE  /\ pc' \in [Tasks -> PCs]
         /\ cur' \in [Tasks -> People \cup {Probe, NoPerson}]
         /\ email' \in [Tasks -> Emails \cup {NoEmail}]
         /\ answer' \in [Tasks -> Verdicts \cup {NoVerdict}]
         /\ tried' \in [People -> SUBSET Emails]
         /\ InHand'
<1>1. /\ pc' \in [Tasks -> PCs]
      /\ pc'[t] \in {"open", "touch"}
      /\ \A u \in Tasks \ {t} : pc'[u] = pc[u]
      /\ email' \in [Tasks -> Emails \cup {NoEmail}]
      /\ \A u \in Tasks \ {t} : email'[u] = email[u]
  <2>1. PICK next \in {"touch", "open"} : pc' = [pc EXCEPT ![t] = next]
    BY DEF Got, Prepared
  <2>2. email' = [email EXCEPT ![t] = NoEmail]
    BY DEF Got
  <2>3. QED BY <2>1, <2>2 DEF TypeInv, TypeOK
<1>2. /\ cur' \in [Tasks -> People \cup {Probe, NoPerson}]
      /\ \A u \in Tasks \ {t} : cur'[u] = cur[u]
  <2>1. CASE cur[t] = Probe
    <3>1. cur' = [cur EXCEPT ![t] = NoPerson]
      BY <2>1 DEF Got
    <3>2. QED BY <3>1 DEF TypeInv, TypeOK
  <2>2. CASE cur[t] # Probe
    <3>1. cur' = cur
      BY <2>2 DEF Got
    <3>2. QED BY <3>1 DEF TypeInv, TypeOK
  <2>3. QED BY <2>1, <2>2
<1>3. /\ answer' \in [Tasks -> Verdicts \cup {NoVerdict}]
      /\ \A u \in Tasks \ {t} : answer'[u] = answer[u]
  <2>1. PICK w \in Verdicts \cup {NoVerdict} : answer' = [answer EXCEPT ![t] = w]
    BY DEF Got
  <2>2. QED BY <2>1 DEF TypeInv, TypeOK
<1>4. tried' \in [People -> SUBSET Emails]
  <2>1. CASE cur[t] = Probe \/ v = "error"
    <3>1. tried' = tried
      BY <2>1 DEF Got
    <3>2. QED BY <3>1 DEF TypeInv, TypeOK
  <2>2. CASE cur[t] # Probe /\ v # "error"
    <3>1. tried' = [tried EXCEPT ![cur[t]] = @ \cup {e}]
      BY <2>2 DEF Got
    <3>2. PICK p \in People : p = cur[t]
      BY <2>2
    <3>3. QED BY <3>1, <3>2 DEF TypeInv, TypeOK
  <2>3. QED BY <2>1, <2>2
<1>5. InHand'
  BY <1>1, <1>2, <1>3 DEF InHand, TypeInv, TypeOK
<1>6. QED BY <1>1, <1>2, <1>3, <1>4, <1>5

(* One fact per action: it keeps the types. *)
LEMMA ExecuteType == ASSUME TypeInv, NEW r \in Runs, Execute(r) PROVE TypeInv'
BY DEF Execute, OpeningCost, TypeInv, TypeOK, InHand

LEMMA MissingDomainType ==
  ASSUME TypeInv, NEW t \in Tasks, MissingDomain(t) PROVE TypeInv'
BY DEF MissingDomain, TypeInv, TypeOK, InHand, tracker, history

LEMMA EnterType == ASSUME TypeInv, NEW t \in Tasks, Enter(t) PROVE TypeInv'
<1>1. /\ pc' \in [Tasks -> PCs] /\ cur' \in [Tasks -> People \cup {Probe, NoPerson}]
      /\ rows' \in [People -> RowStatuses] /\ tried' \in [People -> SUBSET Emails]
  <2>1. CASE stopped[RunOf[t]]
    <3>1. pc' = [pc EXCEPT ![t] = "done"] /\ UNCHANGED <<cur, rows, tried>>
      BY <2>1 DEF Enter
    <3>2. QED BY <3>1 DEF TypeInv, TypeOK
  <2>2. CASE ~stopped[RunOf[t]]
    <3>1. /\ pc' = [pc EXCEPT ![t] = "open"]
          /\ cur' = [cur EXCEPT ![t] = Probe]
          /\ rows' = [p \in People |-> IF p \in PeopleOf[t] THEN people[p] ELSE rows[p]]
          /\ tried' = [p \in People |-> IF p \in Unfinished(t) THEN {} ELSE tried[p]]
      BY <2>2 DEF Enter
    <3>2. pc' \in [Tasks -> PCs] /\ cur' \in [Tasks -> People \cup {Probe, NoPerson}]
      BY <3>1 DEF TypeInv, TypeOK
    <3>3. rows' \in [People -> RowStatuses]
      BY <3>1 DEF TypeInv, TypeOK
    <3>4. tried' \in [People -> SUBSET Emails]
      BY <3>1 DEF TypeInv, TypeOK
    <3>5. QED BY <3>2, <3>3, <3>4
  <2>3. QED BY <2>1, <2>2
<1>2. /\ pc'[t] \in {"open", "done"}
      /\ \A u \in Tasks \ {t} : pc'[u] = pc[u] /\ cur'[u] = cur[u]
  BY DEF Enter, TypeInv, TypeOK
<1>3. InHand'
  BY <1>2 DEF Enter, TypeInv, InHand
<1>4. QED
  BY <1>1, <1>3 DEF Enter, TypeInv, TypeOK, db, tracker, history

LEMMA SkipProbeType == ASSUME TypeInv, NEW t \in Tasks, SkipProbe(t) PROVE TypeInv'
BY DEF SkipProbe, Prepared, TypeInv, TypeOK, InHand, db, tracker, history

LEMMA PickType ==
  ASSUME TypeInv, NEW t \in Tasks, NEW p \in People, Pick(t, p) PROVE TypeInv'
BY DEF Pick, TypeInv, TypeOK, InHand, db, tracker, history

LEMMA LookupType ==
  ASSUME TypeInv, NEW t \in Tasks, NEW e \in Emails, Lookup(t, e) PROVE TypeInv'
<1>1. cur[t] \in People \cup {Probe}
  BY DEF Lookup, Asks
<1>2. Seen(t, e) \in Storable \cup {NoVerdict}
  BY DEF Seen, TypeInv, TypeOK
<1>3. CASE Seen(t, e) # NoVerdict
  <2>1. Got(t, e, Seen(t, e)) /\ Seen(t, e) \in Verdicts
    BY <1>2, <1>3 DEF Lookup
  <2>2. QED
    BY <1>1, <2>1, GotType DEF Lookup, TypeInv, TypeOK, db, tracker, history
<1>4. CASE Seen(t, e) = NoVerdict
  <2>1. /\ pc' = [pc EXCEPT ![t] = "gate"] /\ email' = [email EXCEPT ![t] = e]
        /\ UNCHANGED <<cur, answer, tried>>
    BY <1>4 DEF Lookup
  <2>2. InHand'
    BY <1>1, <2>1 DEF TypeInv, TypeOK, InHand
  <2>3. QED
    BY <2>1, <2>2 DEF Lookup, TypeInv, TypeOK, db, tracker, history
<1>5. QED BY <1>3, <1>4

LEMMA GateType == ASSUME TypeInv, NEW t \in Tasks, Gate(t) PROVE TypeInv'
<1>1. CASE Allowed(RunOf[t])
  <2>1. /\ pc[t] = "gate" /\ pc' = [pc EXCEPT ![t] = "call"]
        /\ UNCHANGED <<people, verdict, runStatus, runCost, live, spent, stopped, cur, email, answer, rows,
                       tried, written, holds, exit, snap, billed, bought, crashed, unbooked,
                       executions, failures>>
    BY <1>1 DEF Gate, db, history
  <2>2. QED BY <2>1 DEF TypeInv, TypeOK, InHand
<1>2. CASE ~Allowed(RunOf[t])
  <2>1. /\ stopped' = [stopped EXCEPT ![RunOf[t]] = TRUE]
        /\ pc' = [pc EXCEPT ![t] = "commit"]
        /\ exit' = [exit EXCEPT ![t] = "ceiling"]
        /\ snap' = [snap EXCEPT ![t] = spent[RunOf[t]]]
    BY <1>2 DEF Gate
  <2>2. RunOf[t] \in Runs
    BY RunAssumption
  <2>3. InHand'
    BY <2>1 DEF Gate, TypeInv, TypeOK, InHand
  <2>4. QED
    BY <2>1, <2>2, <2>3 DEF Gate, TypeInv, TypeOK, db, history
<1>3. QED BY <1>1, <1>2

LEMMA AnswerType ==
  ASSUME TypeInv, NEW t \in Tasks, NEW reply \in Replies, Answer(t, reply) PROVE TypeInv'
<1>1. /\ reply.status \in Verdicts /\ reply.cost \in Nat
      /\ RunOf[t] \in Runs
      /\ email[t] \in Emails /\ cur[t] \in People \cup {Probe}
  BY RunAssumption DEF Answer, TypeInv, InHand
<1>2. /\ spent' \in [Runs -> Nat] /\ stopped' \in [Runs -> BOOLEAN]
      /\ billed' \in [Runs -> Nat] /\ bought' \in [Emails -> Nat]
  BY <1>1 DEF Answer, AtCeiling, TypeInv, TypeOK
<1>3. CASE Kept(reply)
  <2>1. /\ pc' = [pc EXCEPT ![t] = "store"]
        /\ answer' = [answer EXCEPT ![t] = reply.status]
        /\ UNCHANGED <<cur, email, tried>>
    BY <1>3 DEF Answer
  <2>2. reply.status \in Storable
    BY <1>1, <1>3 DEF Kept
  <2>3. InHand'
    BY <1>1, <2>1, <2>2 DEF TypeInv, TypeOK, InHand
  <2>4. QED
    BY <1>1, <1>2, <2>1, <2>3 DEF Answer, TypeInv, TypeOK, db
<1>4. CASE ~Kept(reply)
  <2>1. Got(t, email[t], reply.status)
    BY <1>4 DEF Answer
  <2>2. QED
    BY <1>1, <1>2, <2>1, GotType DEF Answer, TypeInv, TypeOK, db
<1>5. QED BY <1>3, <1>4

LEMMA StoreType == ASSUME TypeInv, NEW t \in Tasks, Store(t) PROVE TypeInv'
<1>1. email[t] \in Emails /\ cur[t] \in People \cup {Probe} /\ answer[t] \in Storable
  BY DEF Store, TypeInv, InHand
<1>2. CASE Seen(t, email[t]) # NoVerdict
  <2>1. Got(t, email[t], answer[t]) /\ answer[t] \in Verdicts
    BY <1>1, <1>2 DEF Store
  <2>2. QED
    BY <1>1, <2>1, GotType DEF Store, TypeInv, TypeOK, db, tracker, history
<1>3. CASE Seen(t, email[t]) = NoVerdict
  <2>1. /\ pc' = [pc EXCEPT ![t] = "insert"]
        /\ UNCHANGED <<people, verdict, runStatus, runCost, live, spent, stopped, cur, email, answer, rows,
                       tried, written, holds, exit, snap, billed, bought, crashed, unbooked,
                       executions, failures>>
    BY <1>3 DEF Store, db, tracker, history
  <2>2. QED BY <1>1, <2>1 DEF TypeInv, TypeOK, InHand
<1>4. QED BY <1>2, <1>3

LEMMA InsertType == ASSUME TypeInv, NEW t \in Tasks, Insert(t) PROVE TypeInv'
<1>1. email[t] \in Emails /\ cur[t] \in People \cup {Probe} /\ answer[t] \in Storable
  BY DEF Insert, TypeInv, InHand
<1>2. CASE KeyTaken(email[t])
  BY <1>2, RollbackType DEF Insert, history, TypeInv, TypeOK
<1>3. CASE ~KeyTaken(email[t])
  <2>1. Got(t, email[t], answer[t]) /\ answer[t] \in Verdicts
    BY <1>1, <1>3 DEF Insert
  <2>2. written' \in [Tasks -> [Emails -> Storable \cup {NoVerdict}]]
    <3>1. written' = [written EXCEPT ![t] = [written[t] EXCEPT ![email[t]] = answer[t]]]
      BY <1>3 DEF Insert
    <3>2. [written[t] EXCEPT ![email[t]] = answer[t]] \in [Emails -> Storable \cup {NoVerdict}]
      BY <1>1 DEF TypeInv, TypeOK
    <3>3. QED BY <3>1, <3>2 DEF TypeInv, TypeOK
  <2>3. UNCHANGED <<rows, holds, exit, snap>>
    BY <1>3 DEF Insert
  <2>4. /\ InHand' /\ pc' \in [Tasks -> PCs]
        /\ cur' \in [Tasks -> People \cup {Probe, NoPerson}]
        /\ email' \in [Tasks -> Emails \cup {NoEmail}]
        /\ answer' \in [Tasks -> Verdicts \cup {NoVerdict}]
        /\ tried' \in [People -> SUBSET Emails]
    BY <1>1, <2>1, GotType
  <2>5. QED
    BY <2>2, <2>3, <2>4 DEF Insert, TypeInv, TypeOK, db, tracker, history
<1>4. QED BY <1>2, <1>3

LEMMA TouchType == ASSUME TypeInv, NEW t \in Tasks, Touch(t) PROVE TypeInv'
BY DEF Touch, TypeInv, TypeOK, InHand, db, tracker, history

LEMMA VictimType == ASSUME TypeInv, NEW t \in Tasks, Victim(t) PROVE TypeInv'
BY RollbackType DEF Victim, history, TypeInv, TypeOK

LEMMA ResolveType ==
  ASSUME TypeInv, NEW t \in Tasks, NEW s \in RowStatuses, Resolve(t, s) PROVE TypeInv'
BY SMTT(20) DEF Resolve, TypeInv, TypeOK, InHand, db, tracker, history

LEMMA FinishType == ASSUME TypeInv, NEW t \in Tasks, Finish(t) PROVE TypeInv'
<1>1. /\ pc[t] = "open" /\ pc' = [pc EXCEPT ![t] = "commit"]
      /\ snap' = [snap EXCEPT ![t] = spent[RunOf[t]]]
      /\ UNCHANGED <<people, verdict, runStatus, runCost, live, spent, stopped, cur, email, answer, rows,
                     tried, written, holds, exit, billed, bought, crashed, unbooked,
                     executions, failures>>
  BY DEF Finish, db, tracker, history
<1>2. spent[RunOf[t]] \in Nat
  BY RunAssumption DEF TypeInv, TypeOK
<1>3. QED BY <1>1, <1>2 DEF TypeInv, TypeOK, InHand

LEMMA CommitType == ASSUME TypeInv, NEW t \in Tasks, Commit(t) PROVE TypeInv'
<1>1. CloseSession(t, exit[t]) /\ exit[t] \in TaskEnds
  BY DEF Commit, TypeInv, TypeOK
<1>2. people' \in [People -> RowStatuses] /\ runCost' \in [Runs -> Nat]
  BY DEF Commit, RowsAfter, TypeInv, TypeOK
<1>3. verdict' \in [Emails -> Storable \cup {NoVerdict}]
  BY DEF Commit, Merged, Seen, TypeInv, TypeOK
<1>4. QED
  BY <1>1, <1>2, <1>3, CloseType DEF Commit, TypeInv, TypeOK, tracker, history

LEMMA FailType == ASSUME TypeInv, NEW t \in Tasks, Fail(t) PROVE TypeInv'
<1>1. failures' \in Nat
  BY DEF Fail, TypeInv, TypeOK
<1>2. QED BY <1>1, RollbackType DEF Fail

LEMMA EndType == ASSUME TypeInv, NEW r \in Runs, End(r) PROVE TypeInv'
BY DEF End, Gathered, Leave, Outcome, FinalCost, TypeInv, TypeOK, InHand

LEMMA EndFailsType == ASSUME TypeInv, NEW r \in Runs, EndFails(r) PROVE TypeInv'
BY DEF EndFails, Gathered, Leave, TypeInv, TypeOK, InHand

LEMMA CrashType == ASSUME TypeInv, Crash PROVE TypeInv'
<1>1. /\ live' \in [Runs -> BOOLEAN] /\ rows' \in [People -> RowStatuses]
      /\ tried' \in [People -> SUBSET Emails]
      /\ written' \in [Tasks -> [Emails -> Storable \cup {NoVerdict}]]
  BY DEF Crash, Nothing, TypeInv, TypeOK
<1>2. QED
  BY <1>1 DEF Crash, TypeInv, TypeOK, InHand, db

LEMMA TypeNext == ASSUME TypeInv, [Next]_vars PROVE TypeInv'
<1>1. ASSUME NEW r \in Runs, Execute(r) \/ End(r) \/ EndFails(r) PROVE TypeInv'
  BY <1>1, ExecuteType, EndType, EndFailsType
<1>2. ASSUME NEW t \in Tasks, TaskStep(t) \/ Fail(t) PROVE TypeInv'
  BY <1>2, MissingDomainType, EnterType, SkipProbeType, PickType, LookupType, GateType,
     AnswerType, StoreType, InsertType, TouchType, VictimType, ResolveType, FinishType,
     CommitType, FailType DEF TaskStep
<1>3. CASE Crash
  BY <1>3, CrashType
<1>4. CASE UNCHANGED vars
  BY <1>4 DEF vars, db, tracker, session, history, TypeInv, TypeOK, InHand
<1>5. QED BY <1>1, <1>2, <1>3, <1>4 DEF Next

(* Every variable keeps its type, and every task has in hand what its place in
   verify_email needs (engine.py 764-841, 947-1057). *)
THEOREM TypeCorrect == Spec => []TypeOK
<1>1. TypeInv => TypeOK
  BY DEF TypeInv
<1>2. QED BY TypeInit, TypeNext, <1>1, PTL DEF Spec

(***************************************************************************)
(* The verdicts                                                            *)
(***************************************************************************)

(* What the open transactions hold, unless a task inserts or commits. *)
LEMMA WrittenStep ==
  ASSUME TypeInv, [Next]_vars
  PROVE  \/ /\ verdict' = verdict
            /\ \A t \in Tasks : written'[t] \in {written[t], Nothing}
         \/ \E t \in Tasks : Insert(t) /\ ~KeyTaken(email[t])
         \/ \E t \in Tasks : Commit(t)
<1>1. ASSUME NEW r \in Runs, Execute(r) \/ End(r) \/ EndFails(r)
      PROVE  verdict' = verdict /\ written' = written
  BY <1>1 DEF Execute, End, EndFails, Leave
<1>2. ASSUME NEW t \in Tasks, Rollback(t), UNCHANGED verdict
      PROVE  verdict' = verdict /\ \A u \in Tasks : written'[u] \in {written[u], Nothing}
  BY <1>2 DEF Rollback, CloseSession, TypeInv, TypeOK
<1>3. ASSUME NEW t \in Tasks, Fail(t) \/ Victim(t) \/ (Insert(t) /\ KeyTaken(email[t]))
      PROVE  verdict' = verdict /\ \A u \in Tasks : written'[u] \in {written[u], Nothing}
  BY <1>2, <1>3 DEF Fail, Victim, Insert, db
<1>4. ASSUME NEW t \in Tasks,
             \/ MissingDomain(t) \/ Enter(t) \/ SkipProbe(t) \/ Gate(t)
             \/ Store(t) \/ Touch(t) \/ Finish(t)
             \/ \E p \in People : Pick(t, p)
             \/ \E e \in Emails : Lookup(t, e)
             \/ \E reply \in Replies : Answer(t, reply)
             \/ \E s \in RowStatuses : Resolve(t, s)
      PROVE  verdict' = verdict /\ written' = written
  BY <1>4 DEF MissingDomain, Enter, SkipProbe, Gate, Store, Touch, Finish, Pick, Lookup,
     Answer, Resolve, db
<1>5. CASE Crash
  BY <1>5 DEF Crash, db
<1>6. CASE UNCHANGED vars
  BY <1>6 DEF vars, db, session
<1>7. QED
  BY <1>1, <1>3, <1>4, <1>5, <1>6 DEF Next, TaskStep

LEMMA OneWriterNext ==
  ASSUME TypeInv, OneWriterPerVerdict, [Next]_vars PROVE OneWriterPerVerdict'
<1>1. CASE verdict' = verdict /\ \A t \in Tasks : written'[t] \in {written[t], Nothing}
  BY <1>1 DEF OneWriterPerVerdict, Nothing
<1>2. ASSUME NEW t \in Tasks, Insert(t), ~KeyTaken(email[t]) PROVE OneWriterPerVerdict'
  <2>1. /\ written' = [written EXCEPT ![t] = [written[t] EXCEPT ![email[t]] = answer[t]]]
        /\ verdict' = verdict /\ verdict[email[t]] = NoVerdict
        /\ pc[t] = "insert" /\ \A u \in Tasks : ~WaitsFor(t, u)
    BY <1>2 DEF Insert, KeyTaken, db
  <2>2. \A u \in Tasks \ {t} : written[u][email[t]] = NoVerdict
    BY <2>1 DEF WaitsFor
  <2>3. email[t] \in Emails
    BY <2>1 DEF TypeInv, InHand
  <2>4. \A u \in Tasks \ {t} : written'[u] = written[u]
    BY <2>1 DEF TypeInv, TypeOK
  <2>5. \A e \in Emails \ {email[t]} : written'[t][e] = written[t][e]
    BY <2>1, <2>3 DEF TypeInv, TypeOK
  <2>6. ASSUME NEW u \in Tasks, NEW e \in Emails, written'[u][e] # NoVerdict
        PROVE  verdict'[e] = NoVerdict /\ \A w \in Tasks \ {u} : written'[w][e] = NoVerdict
    <3>1. CASE e = email[t]
      BY <2>1, <2>2, <2>4, <2>6, <3>1 DEF OneWriterPerVerdict
    <3>2. CASE e # email[t]
      <4>1. \A w \in Tasks : written'[w][e] = written[w][e]
        BY <2>4, <2>5, <3>2
      <4>2. QED BY <2>1, <2>6, <4>1 DEF OneWriterPerVerdict
    <3>3. QED BY <3>1, <3>2
  <2>7. QED BY <2>6 DEF OneWriterPerVerdict
<1>3. ASSUME NEW t \in Tasks, Commit(t) PROVE OneWriterPerVerdict'
  <2>1. /\ verdict' = [e \in Emails |-> Seen(t, e)]
        /\ written' = [written EXCEPT ![t] = Nothing]
    BY <1>3 DEF Commit, Merged, CloseSession
  <2>2. \A u \in Tasks : written'[u] = IF u = t THEN Nothing ELSE written[u]
    BY <2>1 DEF TypeInv, TypeOK
  <2>3. QED
    BY <2>1, <2>2 DEF OneWriterPerVerdict, Seen, Nothing
<1>4. QED BY <1>1, <1>2, <1>3, WrittenStep

(* The primary key of `verifications` is never in two open transactions, nor
   in one of them once it is committed (store_verdict, engine.py 121-134). *)
THEOREM OneWriter == Spec => []OneWriterPerVerdict
<1>1. Init => OneWriterPerVerdict
  BY DEF Init, OneWriterPerVerdict, Nothing
<1>2. QED BY TypeInit, TypeNext, <1>1, OneWriterNext, PTL DEF Spec

(* A stored verdict is never overwritten, whoever else buys the address. *)
THEOREM VerdictsStay == Spec => VerdictsKept
<1>1. ASSUME TypeInv, OneWriterPerVerdict, [Next]_vars
      PROVE  [\A e \in Emails : verdict[e] # NoVerdict => verdict'[e] = verdict[e]]_vars
  <2>1. CASE verdict' = verdict
    BY <2>1
  <2>2. ASSUME NEW t \in Tasks, Insert(t) PROVE verdict' = verdict
    BY <2>2 DEF Insert, db
  <2>3. ASSUME NEW t \in Tasks, Commit(t), NEW e \in Emails, verdict[e] # NoVerdict
        PROVE  verdict'[e] = verdict[e]
    BY <1>1, <2>3 DEF Commit, Merged, Seen, OneWriterPerVerdict
  <2>4. verdict' = verdict \/ \E t \in Tasks : Commit(t)
    BY <1>1, <2>2, WrittenStep
  <2>5. \A e \in Emails : verdict[e] # NoVerdict => verdict'[e] = verdict[e]
    BY <2>1, <2>3, <2>4
  <2>6. QED BY <2>5
<1>2. Init => OneWriterPerVerdict
  BY DEF Init, OneWriterPerVerdict, Nothing
<1>3. QED
  BY TypeInit, TypeNext, <1>1, <1>2, OneWriterNext, PTL DEF Spec, VerdictsKept

(***************************************************************************)
(* The rows                                                                *)
(***************************************************************************)

(* OutcomesKept needs it: what an open session loaded still agrees with the
   committed rows that have their outcome, and it works on a row that has none. *)
LoadedRows ==
  \A t \in Tasks :
    pc[t] \in InDomain =>
      /\ \A p \in PeopleOf[t] : people[p] \in Terminal => rows[p] = people[p]
      /\ cur[t] \in People => cur[t] \in PeopleOf[t] /\ rows[cur[t]] \notin Terminal

RowsInv == TypeInv /\ LoadedRows

(* A step that leaves the rows alone and opens or moves on no lookup. *)
StaysPut(t) ==
  pc'[t] \in InDomain => pc[t] \in InDomain /\ (cur'[t] = cur[t] \/ cur'[t] \notin People)

LEMMA QuietRows ==
  ASSUME LoadedRows, UNCHANGED <<people, rows>>, \A t \in Tasks : StaysPut(t)
  PROVE  LoadedRows'
BY DEF LoadedRows, StaysPut

LEMMA GotRows ==
  ASSUME TypeInv, NEW t \in Tasks, NEW e, NEW v, Got(t, e, v), pc[t] \in InDomain
  PROVE  \A u \in Tasks : StaysPut(u)
<1>1. NoPerson \notin People
  BY RunAssumption
<1>2. \A u \in Tasks : cur'[u] = cur[u] \/ cur'[u] = NoPerson
  BY DEF Got, TypeInv, TypeOK
<1>3. \A u \in Tasks \ {t} : pc'[u] = pc[u]
  BY DEF Got, Prepared, TypeInv, TypeOK
<1>4. QED BY <1>1, <1>2, <1>3 DEF StaysPut

(* A rollback reads the rows of its domain afresh and ends its task. *)
LEMMA RollbackRows ==
  ASSUME RowsInv, NEW t \in Tasks, Rollback(t), UNCHANGED people PROVE LoadedRows'
<1>1. /\ pc' = [pc EXCEPT ![t] = "error"]
      /\ cur' = [cur EXCEPT ![t] = NoPerson]
      /\ rows' = [p \in People |-> IF p \in PeopleOf[t] THEN people[p] ELSE rows[p]]
  BY DEF Rollback, CloseSession
<1>2. \A u \in Tasks \ {t} : \A p \in PeopleOf[u] : p \in People /\ rows'[p] = rows[p]
  BY <1>1, RunAssumption DEF RowsInv, TypeInv, TypeOK
<1>3. pc'[t] \notin InDomain /\ \A u \in Tasks \ {t} : pc'[u] = pc[u] /\ cur'[u] = cur[u]
  BY <1>1 DEF RowsInv, TypeInv, TypeOK
<1>4. QED BY <1>2, <1>3 DEF RowsInv, LoadedRows

LEMMA MissingDomainRows ==
  ASSUME RowsInv, NEW t \in Tasks, MissingDomain(t)
  PROVE  LoadedRows' /\ \A p \in People : people[p] \in Terminal => people'[p] = people[p]
<1>1. /\ pc' = [pc EXCEPT ![t] = "done"]
      /\ people' = [p \in People |-> IF p \in Unfinished(t) THEN "error" ELSE people[p]]
      /\ UNCHANGED <<cur, rows>>
  BY DEF MissingDomain
<1>2. \A p \in People : people[p] \in Terminal => people'[p] = people[p]
  BY <1>1 DEF Unfinished
<1>3. \A u \in Tasks \ {t} : \A p \in PeopleOf[u] : p \in People /\ people'[p] = people[p]
  BY <1>1, RunAssumption DEF Unfinished
<1>4. pc'[t] \notin InDomain /\ \A u \in Tasks \ {t} : pc'[u] = pc[u]
  BY <1>1 DEF RowsInv, TypeInv, TypeOK
<1>5. LoadedRows'
  BY <1>1, <1>3, <1>4 DEF RowsInv, LoadedRows
<1>6. QED BY <1>2, <1>5

LEMMA EnterRows == ASSUME RowsInv, NEW t \in Tasks, Enter(t) PROVE LoadedRows'
<1>1. CASE stopped[RunOf[t]]
  <2>1. pc' = [pc EXCEPT ![t] = "done"] /\ UNCHANGED <<cur, rows, people>>
    BY <1>1 DEF Enter, db
  <2>2. QED BY <2>1, QuietRows DEF StaysPut, RowsInv, TypeInv, TypeOK
<1>2. CASE ~stopped[RunOf[t]]
  <2>1. /\ pc' = [pc EXCEPT ![t] = "open"]
        /\ cur' = [cur EXCEPT ![t] = Probe]
        /\ rows' = [p \in People |-> IF p \in PeopleOf[t] THEN people[p] ELSE rows[p]]
        /\ people' = people
    BY <1>2 DEF Enter, db
  <2>2. \A u \in Tasks \ {t} : \A p \in PeopleOf[u] : p \in People /\ rows'[p] = rows[p]
    BY <2>1, RunAssumption DEF RowsInv, TypeInv, TypeOK
  <2>3. \A p \in PeopleOf[t] : rows'[p] = people[p]
    BY <2>1, RunAssumption
  <2>4. /\ cur'[t] \notin People
        /\ \A u \in Tasks \ {t} : pc'[u] = pc[u] /\ cur'[u] = cur[u]
    BY <2>1, RunAssumption DEF RowsInv, TypeInv, TypeOK
  <2>5. QED BY <2>1, <2>2, <2>3, <2>4 DEF RowsInv, LoadedRows
<1>3. QED BY <1>1, <1>2

LEMMA PickRows ==
  ASSUME RowsInv, NEW t \in Tasks, NEW p \in People, Pick(t, p) PROVE LoadedRows'
<1>1. /\ cur' = [cur EXCEPT ![t] = p] /\ UNCHANGED <<people, pc, rows>>
      /\ p \in PeopleOf[t] /\ rows[p] \notin Terminal
  BY DEF Pick, Todo, db
<1>2. cur'[t] = p /\ \A u \in Tasks \ {t} : cur'[u] = cur[u]
  BY <1>1 DEF RowsInv, TypeInv, TypeOK
<1>3. QED BY <1>1, <1>2 DEF RowsInv, LoadedRows

LEMMA ResolveRows ==
  ASSUME RowsInv, NEW t \in Tasks, NEW s, Resolve(t, s) PROVE LoadedRows'
<1>1. /\ pc[t] = "open" /\ cur[t] \in People
      /\ rows' = [rows EXCEPT ![cur[t]] = s]
      /\ cur' = [cur EXCEPT ![t] = NoPerson]
      /\ UNCHANGED <<people, pc>>
  BY DEF Resolve, db
<1>2. cur[t] \in PeopleOf[t] /\ rows[cur[t]] \notin Terminal
  BY <1>1 DEF RowsInv, LoadedRows
<1>3. \A u \in Tasks \ {t} : \A p \in PeopleOf[u] : p \in People /\ rows'[p] = rows[p]
  <2>1. \A u \in Tasks \ {t} : \A p \in PeopleOf[u] : p \in People /\ p # cur[t]
    BY <1>2, RunAssumption
  <2>2. QED BY <1>1, <2>1 DEF RowsInv, TypeInv, TypeOK
<1>4. \A p \in PeopleOf[t] : people[p] \in Terminal => rows'[p] = people[p]
  BY <1>1, <1>2, RunAssumption DEF RowsInv, LoadedRows, TypeInv, TypeOK
<1>5. cur'[t] \notin People /\ \A u \in Tasks \ {t} : cur'[u] = cur[u]
  BY <1>1, RunAssumption DEF RowsInv, TypeInv, TypeOK
<1>6. QED BY <1>1, <1>3, <1>4, <1>5 DEF RowsInv, LoadedRows

LEMMA CommitRows ==
  ASSUME RowsInv, NEW t \in Tasks, Commit(t)
  PROVE  LoadedRows' /\ \A p \in People : people[p] \in Terminal => people'[p] = people[p]
<1>1. /\ pc[t] = "commit"
      /\ people' = [p \in People |-> IF p \in PeopleOf[t] THEN rows[p] ELSE people[p]]
      /\ pc' = [pc EXCEPT ![t] = exit[t]]
      /\ cur' = [cur EXCEPT ![t] = NoPerson]
      /\ rows' = rows
  BY DEF Commit, RowsAfter, CloseSession
<1>2. \A p \in People : people[p] \in Terminal => people'[p] = people[p]
  BY <1>1 DEF RowsInv, LoadedRows
<1>3. \A u \in Tasks \ {t} : \A p \in PeopleOf[u] : p \in People /\ people'[p] = people[p]
  BY <1>1, RunAssumption
<1>4. pc'[t] \notin InDomain /\ \A u \in Tasks \ {t} : pc'[u] = pc[u] /\ cur'[u] = cur[u]
  BY <1>1 DEF RowsInv, TypeInv, TypeOK
<1>5. LoadedRows'
  BY <1>1, <1>3, <1>4 DEF RowsInv, LoadedRows
<1>6. QED BY <1>2, <1>5

LEMMA RowsNext ==
  ASSUME RowsInv, [Next]_vars
  PROVE  LoadedRows' /\ \A p \in People : people[p] \in Terminal => people'[p] = people[p]
<1> DEFINE Goal == LoadedRows' /\ \A p \in People : people[p] \in Terminal => people'[p] = people[p]
<1>0. LoadedRows' /\ people' = people => Goal
  OBVIOUS
<1>1. ASSUME NEW r \in Runs, Execute(r) \/ End(r) \/ EndFails(r) PROVE Goal
  <2>1. UNCHANGED <<people, rows, cur>> /\ \A t \in Tasks : pc'[t] \in InDomain => pc'[t] = pc[t]
    BY <1>1 DEF Execute, End, EndFails, Leave
  <2>2. QED BY <1>0, <2>1, QuietRows DEF StaysPut, RowsInv
<1>2. ASSUME NEW t \in Tasks, Fail(t) \/ Victim(t) \/ (Insert(t) /\ KeyTaken(email[t])) PROVE Goal
  <2>1. Rollback(t) /\ people' = people
    BY <1>2 DEF Fail, Victim, Insert, db
  <2>2. QED BY <1>0, <2>1, RollbackRows
<1>3. ASSUME NEW t \in Tasks,
             \/ Store(t) \/ (Insert(t) /\ ~KeyTaken(email[t]))
             \/ \E e \in Emails : Lookup(t, e)
             \/ \E reply \in Replies : Answer(t, reply)
      PROVE  Goal
  <2>1. UNCHANGED <<people, rows>> /\ pc[t] \in InDomain
    BY <1>3 DEF Store, Insert, Lookup, Answer, db
  <2>2. \/ \E e, v : Got(t, e, v)
        \/ \E place \in InDomain : pc' = [pc EXCEPT ![t] = place] /\ cur' = cur
    BY <1>3 DEF Store, Insert, Lookup, Answer
  <2>3. \A u \in Tasks : StaysPut(u)
    BY <2>1, <2>2, GotRows DEF StaysPut, RowsInv, TypeInv, TypeOK
  <2>4. QED BY <1>0, <2>1, <2>3, QuietRows DEF RowsInv
<1>4. ASSUME NEW t \in Tasks, SkipProbe(t) \/ Gate(t) \/ Touch(t) \/ Finish(t) PROVE Goal
  <2>1. UNCHANGED <<people, rows>> /\ pc[t] \in InDomain
    BY <1>4 DEF SkipProbe, Gate, Touch, Finish, db
  <2>2. \E place \in InDomain : pc' = [pc EXCEPT ![t] = place]
    BY <1>4 DEF SkipProbe, Prepared, Gate, Touch, Finish
  <2>3. cur' = cur \/ cur' = [cur EXCEPT ![t] = NoPerson]
    BY <1>4 DEF SkipProbe, Gate, Touch, Finish
  <2>4. \A u \in Tasks : StaysPut(u)
    BY <2>1, <2>2, <2>3, RunAssumption DEF StaysPut, RowsInv, TypeInv, TypeOK
  <2>5. QED BY <1>0, <2>1, <2>4, QuietRows DEF RowsInv
<1>5. ASSUME NEW t \in Tasks,
             \/ Enter(t) \/ MissingDomain(t) \/ Commit(t)
             \/ \E p \in People : Pick(t, p)
             \/ \E s \in RowStatuses : Resolve(t, s)
      PROVE  Goal
  <2>1. CASE MissingDomain(t) \/ Commit(t)
    BY <2>1, MissingDomainRows, CommitRows
  <2>2. CASE Enter(t) \/ (\E p \in People : Pick(t, p)) \/ \E s \in RowStatuses : Resolve(t, s)
    <3>1. people' = people
      BY <2>2 DEF Enter, Pick, Resolve, db
    <3>2. QED BY <1>0, <2>2, <3>1, EnterRows, PickRows, ResolveRows
  <2>3. QED BY <1>5, <2>1, <2>2
<1>6. CASE Crash
  BY <1>6 DEF Crash, LoadedRows, db
<1>7. CASE UNCHANGED vars
  BY <1>0, <1>7, QuietRows DEF vars, db, session, StaysPut, RowsInv
<1>8. QED
  BY <1>1, <1>2, <1>3, <1>4, <1>5, <1>6, <1>7 DEF Next, TaskStep

(* A row that has its outcome never changes again: the engine skips TERMINAL
   rows when it groups, when it loads and when it commits (engine.py 782, 977). *)
THEOREM OutcomesStay == Spec => OutcomesKept
<1>1. Init => RowsInv
  BY TypeInit DEF Init, RowsInv, LoadedRows
<1>2. RowsInv /\ [Next]_vars => RowsInv'
  BY TypeNext, RowsNext DEF RowsInv
<1>3. RowsInv /\ [Next]_vars =>
        [\A p \in People : people[p] \in Terminal => people'[p] = people[p]]_vars
  BY RowsNext
<1>4. QED BY <1>1, <1>2, <1>3, PTL DEF Spec, OutcomesKept

(***************************************************************************)
(* The rows and their verdicts                                             *)
(***************************************************************************)

(* RowsBackedByVerdicts needs to know of an open session that the verdicts its
   lookups rest on are stored or in its own transaction, and that nothing is
   looked up for the rows without a domain. *)
TriedBacked ==
  \A t \in Tasks : pc[t] \in InDomain =>
    \A p \in PeopleOf[t] : \A e \in tried[p] : Seen(t, e) # NoVerdict
DomainlessUntried ==
  \A t \in Domainless : pc[t] \notin InDomain /\ \A p \in PeopleOf[t] : tried[p] = {}

BackedInv == RowsInv /\ RowsBackedByVerdicts /\ TriedBacked /\ DomainlessUntried
Backed == RowsBackedByVerdicts /\ TriedBacked /\ DomainlessUntried

LEMMA BackedInit == Init => BackedInv
<1> SUFFICES ASSUME Init PROVE BackedInv
  OBVIOUS
<1>1. pc = [t \in Tasks |-> "idle"] /\ tried = [p \in People |-> {}]
  BY DEF Init
<1>2. LoadedRows /\ TriedBacked
  BY <1>1 DEF LoadedRows, TriedBacked
<1>3. RowsBackedByVerdicts /\ DomainlessUntried
  BY <1>1, RunAssumption DEF RowsBackedByVerdicts, DomainlessUntried
<1>4. QED BY TypeInit, <1>2, <1>3 DEF BackedInv, RowsInv

(* Steps that look up nothing, outside of commits and rollbacks. *)
LEMMA QuietBacked ==
  ASSUME BackedInv, UNCHANGED <<people, verdict, tried, written>>,
         \A t \in Tasks : pc'[t] \in InDomain => pc[t] \in InDomain
  PROVE  Backed'
BY RunAssumption
   DEF BackedInv, Backed, RowsBackedByVerdicts, TriedBacked, DomainlessUntried, Seen

(* A lookup has got a verdict, which is stored or written by its task. *)
LEMMA GotBacked ==
  ASSUME BackedInv, NEW t \in Tasks, NEW e \in Emails, NEW v, Got(t, e, v), pc[t] \in InDomain,
         UNCHANGED <<people, verdict>>,
         \A u \in Tasks, f \in Emails :
           written[u][f] # NoVerdict => written'[u][f] # NoVerdict,
         v # "error" => Seen(t, e)' # NoVerdict
  PROVE  Backed'
<1>1. PICK n \in {"touch", "open"} : pc' = [pc EXCEPT ![t] = n]
  BY DEF Got, Prepared
<1>2. \A u \in Tasks : pc'[u] \in InDomain => pc[u] \in InDomain
  BY <1>1 DEF BackedInv, RowsInv, TypeInv, TypeOK
<1>3. \A u \in Tasks, f \in Emails : Seen(u, f) # NoVerdict => Seen(u, f)' # NoVerdict
  BY DEF Seen
<1>4. CASE tried' = tried
  <2>1. \A u \in Tasks : \A p \in PeopleOf[u] : tried[p] \subseteq Emails
    BY RunAssumption DEF BackedInv, RowsInv, TypeInv, TypeOK
  <2>2. TriedBacked'
    BY <1>2, <1>3, <1>4, <2>1 DEF BackedInv, TriedBacked
  <2>3. RowsBackedByVerdicts' /\ DomainlessUntried'
    BY <1>2, <1>4, RunAssumption DEF BackedInv, RowsBackedByVerdicts, DomainlessUntried
  <2>4. QED BY <2>2, <2>3 DEF Backed
<1>5. CASE tried' # tried
  <2>1. /\ tried' = [tried EXCEPT ![cur[t]] = tried[cur[t]] \cup {e}]
        /\ cur[t] # Probe /\ v # "error"
    BY <1>5 DEF Got
  <2>2. cur[t] \in People
    BY <1>5, <2>1 DEF BackedInv, RowsInv, TypeInv, TypeOK
  <2>3. cur[t] \in PeopleOf[t] /\ people[cur[t]] \notin Terminal
    BY <2>2 DEF BackedInv, RowsInv, LoadedRows
  <2>4. \A p \in People :
          tried'[p] = IF p = cur[t] THEN tried[p] \cup {e} ELSE tried[p]
    BY <2>1 DEF BackedInv, RowsInv, TypeInv, TypeOK
  <2>5. RowsBackedByVerdicts'
    BY <2>3, <2>4 DEF BackedInv, RowsBackedByVerdicts
  <2>6. ASSUME NEW u \in Tasks, u # t, NEW p \in PeopleOf[u] PROVE tried'[p] = tried[p]
    BY <2>3, <2>4, <2>6, RunAssumption
  <2>7. TriedBacked'
    <3>1. ASSUME NEW u \in Tasks, pc'[u] \in InDomain, NEW p \in PeopleOf[u], NEW f \in tried'[p]
          PROVE  Seen(u, f)' # NoVerdict
      <4>0. p \in People /\ tried[p] \subseteq Emails
        BY RunAssumption DEF BackedInv, RowsInv, TypeInv, TypeOK
      <4>1. pc[u] \in InDomain /\ p \in People /\ f \in Emails
        BY <1>2, <2>4, <3>1, <4>0
      <4>2. CASE f \in tried[p]
        BY <1>3, <4>1, <4>2 DEF BackedInv, TriedBacked
      <4>3. CASE f \notin tried[p]
        <5>1. p = cur[t] /\ f = e
          BY <2>4, <3>1, <4>1, <4>3
        <5>2. u = t
          BY <2>6, <3>1, <4>3
        <5>3. QED BY <2>1, <5>1, <5>2
      <4>4. QED BY <4>2, <4>3
    <3>2. QED BY <3>1 DEF TriedBacked
  <2>8. DomainlessUntried'
    <3>1. t \notin Domainless
      BY DEF BackedInv, DomainlessUntried
    <3>2. QED BY <1>2, <2>6, <3>1, RunAssumption DEF BackedInv, DomainlessUntried
  <2>9. QED BY <2>5, <2>7, <2>8 DEF Backed
<1>6. QED BY <1>4, <1>5

(* A rollback forgets the lookups of the rows that stay open. *)
LEMMA RollbackBacked ==
  ASSUME BackedInv, NEW t \in Tasks, Rollback(t), UNCHANGED <<people, verdict>>
  PROVE  Backed'
<1>1. /\ pc' = [pc EXCEPT ![t] = "error"] /\ written' = [written EXCEPT ![t] = Nothing]
      /\ tried' = [p \in People |-> IF p \in Unfinished(t) THEN {} ELSE tried[p]]
  BY DEF Rollback, CloseSession
<1>2. \A u \in Tasks \ {t} : pc'[u] = pc[u] /\ written'[u] = written[u]
  BY <1>1 DEF BackedInv, RowsInv, TypeInv, TypeOK
<1>3. pc'[t] \notin InDomain
  BY <1>1 DEF BackedInv, RowsInv, TypeInv, TypeOK
<1>4. \A p \in People : tried'[p] \in {{}, tried[p]}
  BY <1>1
<1>5. RowsBackedByVerdicts'
  BY <1>4 DEF BackedInv, RowsBackedByVerdicts
<1>6. TriedBacked'
  BY <1>2, <1>3, <1>4, RunAssumption DEF BackedInv, TriedBacked, Seen
<1>7. DomainlessUntried'
  BY <1>2, <1>3, <1>4, RunAssumption DEF BackedInv, DomainlessUntried
<1>8. QED BY <1>5, <1>6, <1>7 DEF Backed

(* A session begins its lookups from nothing. *)
LEMMA EnterBacked == ASSUME BackedInv, NEW t \in Tasks, Enter(t) PROVE Backed'
<1>1. CASE stopped[RunOf[t]]
  BY <1>1, QuietBacked DEF Enter, db, BackedInv, RowsInv, TypeInv, TypeOK
<1>2. CASE ~stopped[RunOf[t]]
  <2>1. /\ t \notin Domainless
        /\ pc' = [pc EXCEPT ![t] = "open"]
        /\ tried' = [p \in People |-> IF p \in Unfinished(t) THEN {} ELSE tried[p]]
        /\ UNCHANGED <<people, verdict, written>>
    BY <1>2 DEF Enter, db
  <2>2. \A u \in Tasks \ {t} : pc'[u] = pc[u]
    BY <2>1 DEF BackedInv, RowsInv, TypeInv, TypeOK
  <2>3. \A p \in People : tried'[p] \in {{}, tried[p]}
    BY <2>1
  <2>4. RowsBackedByVerdicts'
    BY <2>1, <2>3 DEF BackedInv, RowsBackedByVerdicts
  <2>5. ASSUME NEW p \in PeopleOf[t], NEW e \in tried'[p] PROVE Seen(t, e)' # NoVerdict
    <3>1. p \in People /\ people[p] \in Terminal /\ e \in tried[p] /\ e \in Emails
      BY <2>1, <2>5, RunAssumption DEF Unfinished, BackedInv, RowsInv, TypeInv, TypeOK
    <3>2. QED BY <2>1, <3>1 DEF BackedInv, RowsBackedByVerdicts, Seen
  <2>6. TriedBacked'
    <3>1. ASSUME NEW u \in Tasks, u # t, pc'[u] \in InDomain, NEW p \in PeopleOf[u],
                 NEW e \in tried'[p]
          PROVE  Seen(u, e)' # NoVerdict
      <4>1. p \in People /\ e \in tried[p] /\ pc[u] \in InDomain
        BY <2>2, <2>3, <3>1, RunAssumption
      <4>2. Seen(u, e) # NoVerdict
        BY <3>1, <4>1 DEF BackedInv, TriedBacked
      <4>3. QED BY <2>1, <4>2 DEF Seen
    <3>2. QED BY <2>5, <3>1 DEF TriedBacked
  <2>7. DomainlessUntried'
    BY <2>1, <2>2, <2>3, RunAssumption DEF BackedInv, DomainlessUntried
  <2>8. QED BY <2>4, <2>6, <2>7 DEF Backed
<1>3. QED BY <1>1, <1>2

LEMMA MissingDomainBacked ==
  ASSUME BackedInv, NEW t \in Tasks, MissingDomain(t) PROVE Backed'
<1>1. /\ t \in Domainless /\ pc' = [pc EXCEPT ![t] = "done"]
      /\ people' = [p \in People |-> IF p \in Unfinished(t) THEN "error" ELSE people[p]]
      /\ UNCHANGED <<verdict, tried, written>>
  BY DEF MissingDomain
<1>2. \A u \in Tasks : pc'[u] \in InDomain => pc[u] \in InDomain
  BY <1>1 DEF BackedInv, RowsInv, TypeInv, TypeOK
<1>3. RowsBackedByVerdicts'
  BY <1>1 DEF BackedInv, RowsBackedByVerdicts, DomainlessUntried, Unfinished
<1>4. TriedBacked' /\ DomainlessUntried'
  BY <1>1, <1>2, RunAssumption DEF BackedInv, TriedBacked, DomainlessUntried, Seen
<1>5. QED BY <1>3, <1>4 DEF Backed

(* The rows and the verdicts they rest on become durable in one commit. *)
LEMMA CommitBacked == ASSUME BackedInv, NEW t \in Tasks, Commit(t) PROVE Backed'
<1>1. /\ pc[t] = "commit"
      /\ people' = [p \in People |-> IF p \in PeopleOf[t] THEN rows[p] ELSE people[p]]
      /\ verdict' = [e \in Emails |-> Seen(t, e)]
      /\ pc' = [pc EXCEPT ![t] = exit[t]] /\ exit[t] \in {"done", "ceiling"}
      /\ written' = [written EXCEPT ![t] = Nothing]
      /\ tried' = tried
  BY DEF Commit, RowsAfter, Merged, CloseSession, BackedInv, RowsInv, TypeInv, TypeOK
<1>2. \A e \in Emails : verdict[e] # NoVerdict => verdict'[e] # NoVerdict
  BY <1>1 DEF Seen
<1>3. pc'[t] \notin InDomain /\ \A u \in Tasks \ {t} : pc'[u] = pc[u] /\ written'[u] = written[u]
  BY <1>1 DEF BackedInv, RowsInv, TypeInv, TypeOK
<1>4. RowsBackedByVerdicts'
  <2>1. ASSUME NEW p \in People, people'[p] \in Terminal, NEW e \in tried[p]
        PROVE  verdict'[e] # NoVerdict
    <3>1. e \in Emails
      BY <2>1 DEF BackedInv, RowsInv, TypeInv, TypeOK
    <3>2. CASE p \in PeopleOf[t]
      BY <1>1, <2>1, <3>1, <3>2 DEF BackedInv, TriedBacked
    <3>3. CASE p \notin PeopleOf[t]
      BY <1>1, <1>2, <2>1, <3>1, <3>3 DEF BackedInv, RowsBackedByVerdicts
    <3>4. QED BY <3>2, <3>3
  <2>2. QED BY <1>1, <2>1 DEF RowsBackedByVerdicts
<1>5. TriedBacked'
  <2>1. ASSUME NEW u \in Tasks, pc'[u] \in InDomain, NEW p \in PeopleOf[u], NEW e \in tried[p]
        PROVE  Seen(u, e)' # NoVerdict
    <3>1. u # t /\ pc[u] \in InDomain /\ p \in People
      BY <1>3, <2>1, RunAssumption
    <3>2. e \in Emails /\ Seen(u, e) # NoVerdict
      BY <2>1, <3>1 DEF BackedInv, RowsInv, TypeInv, TypeOK, TriedBacked
    <3>3. QED BY <1>2, <1>3, <3>1, <3>2 DEF Seen
  <2>2. QED BY <1>1, <2>1 DEF TriedBacked
<1>6. DomainlessUntried'
  BY <1>1, <1>3, RunAssumption DEF BackedInv, DomainlessUntried
<1>7. QED BY <1>4, <1>5, <1>6 DEF Backed

LEMMA InsertBacked ==
  ASSUME BackedInv, NEW t \in Tasks, Insert(t), ~KeyTaken(email[t]) PROVE Backed'
<1>1. PICK e \in Emails :
        /\ e = email[t] /\ pc[t] = "insert" /\ answer[t] # NoVerdict
        /\ written' = [written EXCEPT ![t] = [written[t] EXCEPT ![e] = answer[t]]]
        /\ Got(t, e, answer[t])
        /\ UNCHANGED <<people, verdict>>
  BY DEF Insert, db, BackedInv, RowsInv, TypeInv, InHand
<1>2. written'[t][e] = answer[t]
  BY <1>1 DEF BackedInv, RowsInv, TypeInv, TypeOK
<1>3. \A u \in Tasks, f \in Emails : written[u][f] # NoVerdict => written'[u][f] # NoVerdict
  BY <1>1 DEF BackedInv, RowsInv, TypeInv, TypeOK
<1>4. Seen(t, e)' # NoVerdict
  BY <1>1, <1>2 DEF Seen
<1>5. QED BY <1>1, <1>3, <1>4, GotBacked

LEMMA BackedNext == ASSUME BackedInv, [Next]_vars PROVE Backed'
<1>1. ASSUME NEW r \in Runs, Execute(r) \/ End(r) \/ EndFails(r) PROVE Backed'
  <2>1. /\ UNCHANGED <<people, verdict, tried, written>>
        /\ \A t \in Tasks : pc'[t] \in InDomain => pc[t] \in InDomain
    BY <1>1 DEF Execute, End, EndFails, Leave
  <2>2. QED BY <2>1, QuietBacked
<1>2. ASSUME NEW t \in Tasks, Fail(t) \/ Victim(t) \/ (Insert(t) /\ KeyTaken(email[t]))
      PROVE  Backed'
  BY <1>2, RollbackBacked DEF Fail, Victim, Insert, db
<1>3. ASSUME NEW t \in Tasks, NEW e \in Emails, Lookup(t, e) PROVE Backed'
  <2>1. pc[t] \in InDomain /\ UNCHANGED <<people, verdict, written>>
    BY <1>3 DEF Lookup, db
  <2>2. CASE Seen(t, e) # NoVerdict
    BY <1>3, <2>1, <2>2, GotBacked DEF Lookup, Seen
  <2>3. CASE Seen(t, e) = NoVerdict
    <3>1. pc' = [pc EXCEPT ![t] = "gate"] /\ tried' = tried
      BY <1>3, <2>3 DEF Lookup
    <3>2. QED BY <2>1, <3>1, QuietBacked DEF BackedInv, RowsInv, TypeInv, TypeOK
  <2>4. QED BY <2>2, <2>3
<1>4. ASSUME NEW t \in Tasks, NEW reply \in Replies, Answer(t, reply) PROVE Backed'
  <2>1. pc[t] = "call" /\ UNCHANGED <<people, verdict, written>> /\ email[t] \in Emails
    BY <1>4 DEF Answer, db, BackedInv, RowsInv, TypeInv, InHand
  <2>2. CASE Kept(reply)
    <3>1. pc' = [pc EXCEPT ![t] = "store"] /\ tried' = tried
      BY <1>4, <2>2 DEF Answer
    <3>2. QED BY <2>1, <3>1, QuietBacked DEF BackedInv, RowsInv, TypeInv, TypeOK
  <2>3. CASE ~Kept(reply)
    <3>1. PICK e \in Emails : e = email[t]
      BY <2>1
    <3>2. Got(t, e, "error")
      BY <1>4, <2>3, <3>1 DEF Answer, Kept
    <3>3. QED BY <2>1, <3>2, GotBacked
  <2>4. QED BY <2>2, <2>3
<1>5. ASSUME NEW t \in Tasks, Store(t) PROVE Backed'
  <2>1. PICK e \in Emails :
          e = email[t] /\ pc[t] = "store" /\ UNCHANGED <<people, verdict, written>>
    BY <1>5 DEF Store, db, BackedInv, RowsInv, TypeInv, InHand
  <2>2. CASE Seen(t, e) # NoVerdict
    <3>1. Got(t, e, answer[t])
      BY <1>5, <2>1, <2>2 DEF Store
    <3>2. Seen(t, e)' # NoVerdict
      BY <2>1, <2>2 DEF Seen
    <3>3. QED BY <2>1, <3>1, <3>2, GotBacked
  <2>3. CASE Seen(t, e) = NoVerdict
    <3>1. pc' = [pc EXCEPT ![t] = "insert"] /\ tried' = tried
      BY <1>5, <2>1, <2>3 DEF Store
    <3>2. QED BY <2>1, <3>1, QuietBacked DEF BackedInv, RowsInv, TypeInv, TypeOK
  <2>4. QED BY <2>2, <2>3
<1>6. ASSUME NEW t \in Tasks,
             \/ SkipProbe(t) \/ Gate(t) \/ Touch(t) \/ Finish(t)
             \/ \E p \in People : Pick(t, p)
             \/ \E s \in RowStatuses : Resolve(t, s)
      PROVE  Backed'
  <2>1. UNCHANGED <<people, verdict, tried, written>> /\ pc[t] \in InDomain
    BY <1>6 DEF SkipProbe, Gate, Touch, Finish, Pick, Resolve, db
  <2>2. pc' = pc \/ \E place \in InDomain : pc' = [pc EXCEPT ![t] = place]
    BY <1>6 DEF SkipProbe, Prepared, Gate, Touch, Finish, Pick, Resolve
  <2>3. QED BY <2>1, <2>2, QuietBacked DEF BackedInv, RowsInv, TypeInv, TypeOK
<1>7. CASE Crash
  <2>1. /\ UNCHANGED <<people, verdict>> /\ pc' = [t \in Tasks |-> "idle"]
        /\ tried' = [p \in People |-> IF people[p] \in Terminal THEN tried[p] ELSE {}]
    BY <1>7 DEF Crash, db
  <2>2. \A t \in Domainless : t \in Tasks /\ \A p \in PeopleOf[t] : p \in People
    BY RunAssumption
  <2>3. QED
    BY <2>1, <2>2
       DEF BackedInv, Backed, RowsBackedByVerdicts, TriedBacked, DomainlessUntried
<1>8. CASE UNCHANGED vars
  BY <1>8, QuietBacked DEF vars, db, session
<1>9. QED
  BY <1>1, <1>2, <1>3, <1>4, <1>5, <1>6, <1>7, <1>8, EnterBacked, MissingDomainBacked,
     CommitBacked, InsertBacked DEF Next, TaskStep

(* No committed outcome rests on a verdict that a rollback, a conflict with another
   run or a crash took away: the row and the verdicts that decided it are durable
   together (process_domain, engine.py 764-841, store_verdict 121-134). *)
THEOREM RowsBacked == Spec => []RowsBackedByVerdicts
<1>1. BackedInv /\ [Next]_vars => BackedInv'
  BY TypeNext, RowsNext, BackedNext DEF BackedInv, RowsInv, Backed
<1>2. BackedInv => RowsBackedByVerdicts
  BY DEF BackedInv
<1>3. QED BY BackedInit, <1>1, <1>2, PTL DEF Spec
===============================================================================
