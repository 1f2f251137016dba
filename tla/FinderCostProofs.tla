---------------------------- MODULE FinderCostProofs ---------------------------
(* What a run spends, books, pays for and shows (CostTracker, engine.py 62-85,
   execute_run 947-1057), for every ceiling, price and concurrency; and that a run
   lives as RunLifecycle says. *)
EXTENDS FinderRunProofs

Cap(r) == Ceiling[r] - 1 + MaxUnit * MaxConcurrency

(* The semaphore of execute_run. *)
SlotsHeld == \A r \in Runs : Cardinality(Active(r)) <= MaxConcurrency

(* A task has a place only while its run executes. *)
TasksLive == \A t \in Tasks : pc[t] # "idle" => live[RunOf[t]]

(* A snapshot waiting for its commit is within the bound. *)
SnapBounded ==
  \A t \in Tasks : pc[t] = "commit" /\ Ceiling[RunOf[t]] # NoCeiling => snap[t] <= Cap(RunOf[t])

CostInv ==
  /\ TypeInv /\ SlotsHeld /\ TasksLive /\ SnapBounded
  /\ OvershootBounded /\ StoredCostBounded

(* A step of a task that takes no slot, starts no call and shows no cost but
   the tracker's. *)
Calm(t) ==
  /\ pc'[t] \in InDomain => pc[t] \in InDomain
  /\ pc'[t] = "call" => pc[t] = "call"
  /\ pc'[t] # "idle" => pc[t] # "idle"
  /\ pc'[t] = "commit" => \/ pc[t] = "commit" /\ snap'[t] = snap[t]
                          \/ snap'[t] = spent[RunOf[t]]

-------------------------------------------------------------------------------
LEMMA ActiveFinite ==
  ASSUME NEW r \in Runs
  PROVE  /\ IsFiniteSet(Active(r)) /\ Cardinality(Active(r)) \in Nat
         /\ IsFiniteSet(InFlight(r)) /\ Cardinality(InFlight(r)) \in Nat
         /\ Cardinality(InFlight(r)) <= Cardinality(Active(r))
<1>1. IsFiniteSet(Tasks)
  BY RunAssumption
<1>2. IsFiniteSet(Active(r))
  BY <1>1, FS_Subset DEF Active, TasksOf
<1>3. InFlight(r) \subseteq Active(r)
  BY DEF InFlight, Active, InDomain
<1>4. IsFiniteSet(InFlight(r)) /\ Cardinality(InFlight(r)) <= Cardinality(Active(r))
  BY <1>2, <1>3, FS_Subset
<1>5. Cardinality(Active(r)) \in Nat /\ Cardinality(InFlight(r)) \in Nat
  BY <1>2, <1>4, FS_CardinalityType
<1>6. QED BY <1>2, <1>4, <1>5

LEMMA FewerActive ==
  ASSUME NEW r \in Runs, \A t \in TasksOf(r) : pc'[t] \in InDomain => pc[t] \in InDomain
  PROVE  Cardinality(Active(r)') <= Cardinality(Active(r))
<1>1. Active(r)' \subseteq Active(r)
  BY DEF Active, TasksOf
<1>2. QED BY <1>1, ActiveFinite, FS_Subset

LEMMA FewerInFlight ==
  ASSUME NEW r \in Runs, \A t \in TasksOf(r) : pc'[t] = "call" => pc[t] = "call"
  PROVE  /\ Cardinality(InFlight(r)') <= Cardinality(InFlight(r))
         /\ Cardinality(InFlight(r)') \in Nat
<1>1. InFlight(r)' \subseteq InFlight(r)
  BY DEF InFlight, TasksOf
<1>2. QED BY <1>1, ActiveFinite, FS_Subset, FS_CardinalityType

LEMMA Scaled ==
  ASSUME NEW k \in Nat, NEW m \in Nat, k <= m
  PROVE  /\ MaxUnit * k \in Nat /\ MaxUnit * m \in Nat
         /\ MaxUnit * k <= MaxUnit * m
<1>1. MaxUnit \in Nat
  BY RunAssumption
<1>2. QED BY <1>1, SMT

LEMMA CapType ==
  ASSUME NEW r \in Runs, Ceiling[r] # NoCeiling
  PROVE  Cap(r) \in Nat /\ Ceiling[r] \in Nat /\ Ceiling[r] <= Cap(r)
<1>1. Ceiling[r] \in Nat /\ MaxUnit \in Nat /\ MaxConcurrency \in Nat
      /\ MaxUnit >= 1 /\ MaxConcurrency >= 1
  BY RunAssumption
<1>2. MaxUnit * MaxConcurrency >= 1 /\ MaxUnit * MaxConcurrency \in Nat
  BY <1>1, SMT
<1>3. QED BY <1>1, <1>2 DEF Cap

(* What an executing run has spent is within the bound. *)
LEMMA SpentBounded ==
  ASSUME CostInv, NEW r \in Runs, live[r], Ceiling[r] # NoCeiling
  PROVE  spent[r] <= Cap(r)
<1>1. spent[r] + MaxUnit * Cardinality(InFlight(r)) <= Cap(r)
  BY DEF CostInv, OvershootBounded, Cap
<1>2. MaxUnit * Cardinality(InFlight(r)) \in Nat
  BY ActiveFinite, Scaled
<1>3. spent[r] \in Nat
  BY DEF CostInv, TypeInv, TypeOK
<1>4. QED BY <1>1, <1>2, <1>3, CapType

-------------------------------------------------------------------------------
LEMMA CalmSlots ==
  ASSUME CostInv, \A t \in Tasks : Calm(t)
  PROVE  /\ SlotsHeld'
         /\ \A r \in Runs :
              /\ Cardinality(InFlight(r)') <= Cardinality(InFlight(r))
              /\ Cardinality(InFlight(r)') \in Nat
<1>1. ASSUME NEW r \in Runs PROVE Cardinality(Active(r)') <= MaxConcurrency
  <2>1. Cardinality(Active(r)') <= Cardinality(Active(r))
    BY FewerActive DEF Calm, TasksOf
  <2>2. Cardinality(Active(r)) <= MaxConcurrency /\ Cardinality(Active(r)) \in Nat
    BY ActiveFinite DEF CostInv, SlotsHeld
  <2>3. IsFiniteSet(Active(r)')
    <3>1. Active(r)' \subseteq Active(r)
      BY DEF Active, TasksOf, Calm
    <3>2. QED BY <3>1, ActiveFinite, FS_Subset
  <2>4. Cardinality(Active(r)') \in Nat
    BY <2>3, FS_CardinalityType
  <2>5. QED BY <2>1, <2>2, <2>4, RunAssumption
<1>2. SlotsHeld'
  BY <1>1 DEF SlotsHeld
<1>3. QED BY <1>2, FewerInFlight DEF Calm, TasksOf

(* Most steps: no slot, no call, no charge. *)
LEMMA CalmCost ==
  ASSUME CostInv, TypeInv', \A t \in Tasks : Calm(t), UNCHANGED <<live, spent, runCost>>
  PROVE  CostInv'
<1>1. SlotsHeld'
  BY CalmSlots
<1>2. TasksLive'
  BY DEF CostInv, TasksLive, Calm
<1>3. SnapBounded'
  <2>1. ASSUME NEW t \in Tasks, pc'[t] = "commit", Ceiling[RunOf[t]] # NoCeiling
        PROVE  snap'[t] <= Cap(RunOf[t])
    <3>1. RunOf[t] \in Runs /\ live[RunOf[t]]
      BY <2>1, RunAssumption DEF Calm, CostInv, TasksLive
    <3>2. spent[RunOf[t]] <= Cap(RunOf[t])
      BY <2>1, <3>1, SpentBounded
    <3>3. CASE pc[t] = "commit" /\ snap'[t] = snap[t]
      BY <2>1, <3>3 DEF CostInv, SnapBounded
    <3>4. CASE snap'[t] = spent[RunOf[t]]
      BY <3>2, <3>4
    <3>5. QED BY <2>1, <3>3, <3>4 DEF Calm
  <2>2. QED BY <2>1 DEF SnapBounded, Cap
<1>4. OvershootBounded'
  <2>1. ASSUME NEW r \in Runs, live[r], Ceiling[r] # NoCeiling
        PROVE  spent[r] + MaxUnit * Cardinality(InFlight(r)') <= Cap(r)
    <3>1. spent[r] + MaxUnit * Cardinality(InFlight(r)) <= Cap(r)
      BY <2>1 DEF CostInv, OvershootBounded, Cap
    <3>2. /\ MaxUnit * Cardinality(InFlight(r)') <= MaxUnit * Cardinality(InFlight(r))
          /\ MaxUnit * Cardinality(InFlight(r)') \in Nat
          /\ MaxUnit * Cardinality(InFlight(r)) \in Nat
      BY CalmSlots, ActiveFinite, Scaled
    <3>3. spent[r] \in Nat /\ Cap(r) \in Nat
      BY <2>1, CapType DEF CostInv, TypeInv, TypeOK
    <3>4. QED BY <3>1, <3>2, <3>3
  <2>2. QED BY <2>1 DEF OvershootBounded, Cap
<1>5. StoredCostBounded'
  BY DEF CostInv, StoredCostBounded
<1>6. QED BY <1>1, <1>2, <1>3, <1>4, <1>5 DEF CostInv

(* The steps that are not calm. *)
LEMMA EnterCost ==
  ASSUME CostInv, TypeInv', NEW t \in Tasks, Enter(t) PROVE CostInv'
<1>1. CASE stopped[RunOf[t]]
  <2>1. /\ pc[t] = "queued" /\ pc' = [pc EXCEPT ![t] = "done"]
        /\ UNCHANGED <<snap, live, spent, runCost>>
    BY <1>1 DEF Enter, db, tracker
  <2>2. \A u \in Tasks : Calm(u)
    BY <2>1 DEF Calm, InDomain, CostInv, TypeInv, TypeOK
  <2>3. QED BY <2>1, <2>2, CalmCost
<1>2. CASE ~stopped[RunOf[t]]
  <2>1. /\ pc[t] = "queued" /\ pc' = [pc EXCEPT ![t] = "open"] /\ SlotFree(RunOf[t])
        /\ UNCHANGED <<snap, live, spent, runCost>>
    BY <1>2 DEF Enter, db, tracker
  <2>2. RunOf[t] \in Runs
    BY RunAssumption
  <2>3. pc'[t] = "open" /\ \A u \in Tasks \ {t} : pc'[u] = pc[u]
    BY <2>1 DEF CostInv, TypeInv, TypeOK
  <2>4. ASSUME NEW r \in Runs PROVE Cardinality(Active(r)') <= MaxConcurrency
    <3>1. CASE r = RunOf[t]
      <4>1. Active(r)' = Active(r) \cup {t} /\ t \notin Active(r)
        BY <2>1, <2>3, <3>1 DEF Active, TasksOf, InDomain
      <4>2. Cardinality(Active(r)') = Cardinality(Active(r)) + 1
        BY <4>1, ActiveFinite, FS_AddElement
      <4>3. Cardinality(Active(r)) < MaxConcurrency
        BY <2>1, <3>1 DEF SlotFree
      <4>4. QED BY <4>2, <4>3, ActiveFinite, RunAssumption
    <3>2. CASE r # RunOf[t]
      <4>1. Active(r)' = Active(r)
        BY <2>3, <3>2 DEF Active, TasksOf
      <4>2. QED BY <4>1 DEF CostInv, SlotsHeld
    <3>3. QED BY <3>1, <3>2
  <2>5. \A r \in Runs : InFlight(r)' = InFlight(r)
    BY <2>1, <2>3 DEF InFlight, TasksOf
  <2>6. TasksLive' /\ SnapBounded'
    BY <2>1, <2>3 DEF CostInv, TasksLive, SnapBounded, Cap
  <2>7. OvershootBounded' /\ StoredCostBounded'
    BY <2>1, <2>5 DEF CostInv, OvershootBounded, StoredCostBounded
  <2>8. QED BY <2>4, <2>6, <2>7 DEF CostInv, SlotsHeld
<1>3. QED BY <1>1, <1>2

(* allow() leaves room for one more call of every active task. *)
LEMMA GateCost ==
  ASSUME CostInv, TypeInv', NEW t \in Tasks, Gate(t) PROVE CostInv'
<1>0. /\ pc[t] = "gate" /\ RunOf[t] \in Runs /\ UNCHANGED <<live, spent, runCost>>
  BY RunAssumption DEF Gate, db
<1>1. CASE ~Allowed(RunOf[t])
  <2>1. pc' = [pc EXCEPT ![t] = "commit"] /\ snap' = [snap EXCEPT ![t] = spent[RunOf[t]]]
    BY <1>1 DEF Gate
  <2>2. \A u \in Tasks : Calm(u)
    BY <1>0, <2>1 DEF Calm, InDomain, CostInv, TypeInv, TypeOK
  <2>3. QED BY <1>0, <2>2, CalmCost
<1>2. CASE Allowed(RunOf[t])
  <2>1. pc' = [pc EXCEPT ![t] = "call"] /\ snap' = snap
    BY <1>2 DEF Gate
  <2>2. pc'[t] = "call" /\ \A u \in Tasks \ {t} : pc'[u] = pc[u]
    BY <2>1 DEF CostInv, TypeInv, TypeOK
  <2>3. \A r \in Runs : Active(r)' = Active(r)
    BY <1>0, <2>2 DEF Active, TasksOf, InDomain
  <2>4. \A r \in Runs \ {RunOf[t]} : InFlight(r)' = InFlight(r)
    BY <2>2 DEF InFlight, TasksOf
  <2>5. SlotsHeld' /\ TasksLive' /\ SnapBounded' /\ StoredCostBounded'
    BY <1>0, <2>1, <2>2, <2>3 DEF CostInv, SlotsHeld, TasksLive, SnapBounded,
       StoredCostBounded, Cap
  <2>6. ASSUME NEW r \in Runs, live[r], Ceiling[r] # NoCeiling, r = RunOf[t]
        PROVE  spent[r] + MaxUnit * Cardinality(InFlight(r)') <= Cap(r)
    <3>1. /\ IsFiniteSet(InFlight(r)') /\ Cardinality(InFlight(r)') \in Nat
          /\ Cardinality(InFlight(r)') <= Cardinality(Active(r))
      <4>1. InFlight(r)' \subseteq Active(r)
        BY <2>3 DEF InFlight, Active, InDomain
      <4>2. QED BY <4>1, ActiveFinite, FS_Subset, FS_CardinalityType
    <3>2. Cardinality(InFlight(r)') <= MaxConcurrency /\ MaxConcurrency \in Nat
      BY <3>1, ActiveFinite, RunAssumption DEF CostInv, SlotsHeld
    <3>3. /\ MaxUnit * Cardinality(InFlight(r)') <= MaxUnit * MaxConcurrency
          /\ MaxUnit * Cardinality(InFlight(r)') \in Nat
          /\ MaxUnit * MaxConcurrency \in Nat
      BY <3>1, <3>2, Scaled
    <3>4. /\ spent[r] \in Nat /\ Ceiling[r] \in Nat /\ spent[r] < Ceiling[r]
      BY <1>2, <2>6, CapType DEF Allowed, AtCeiling, CostInv, TypeInv, TypeOK
    <3>5. QED BY <3>3, <3>4 DEF Cap
  <2>7. OvershootBounded'
    BY <1>0, <2>4, <2>6 DEF CostInv, OvershootBounded, Cap
  <2>8. QED BY <2>5, <2>7 DEF CostInv
<1>3. QED BY <1>1, <1>2

(* charge() spends the room its call had. *)
LEMMA AnswerCost ==
  ASSUME CostInv, TypeInv', NEW t \in Tasks, NEW reply \in Replies, Answer(t, reply)
  PROVE  CostInv'
<1>0. /\ pc[t] = "call" /\ RunOf[t] \in Runs
      /\ reply.cost \in Nat /\ reply.cost <= MaxUnit /\ MaxUnit \in Nat
      /\ spent' = [spent EXCEPT ![RunOf[t]] = spent[RunOf[t]] + reply.cost]
      /\ UNCHANGED <<live, runCost, snap>>
  BY RunAssumption DEF Answer, db, Costs
<1>1. pc'[t] \in {"store", "open", "touch"} /\ \A u \in Tasks \ {t} : pc'[u] = pc[u]
  <2>1. \E place \in {"store", "open", "touch"} : pc' = [pc EXCEPT ![t] = place]
    BY DEF Answer, Got, Prepared
  <2>2. QED BY <2>1 DEF CostInv, TypeInv, TypeOK
<1>2. \A u \in Tasks : Calm(u)
  BY <1>0, <1>1 DEF Calm, InDomain
<1>3. SlotsHeld'
  BY <1>2, CalmSlots
<1>4. TasksLive' /\ StoredCostBounded' /\ SnapBounded'
  BY <1>0, <1>1 DEF CostInv, TasksLive, StoredCostBounded, SnapBounded, Cap
<1>5. ASSUME NEW r \in Runs, live[r], Ceiling[r] # NoCeiling
      PROVE  spent'[r] + MaxUnit * Cardinality(InFlight(r)') <= Cap(r)
  <2>1. spent[r] + MaxUnit * Cardinality(InFlight(r)) <= Cap(r)
    BY <1>5 DEF CostInv, OvershootBounded, Cap
  <2>2. /\ Cardinality(InFlight(r)') \in Nat /\ Cardinality(InFlight(r)) \in Nat
        /\ Cardinality(InFlight(r)') <= Cardinality(InFlight(r))
    BY <1>2, CalmSlots, ActiveFinite
  <2>3. /\ MaxUnit * Cardinality(InFlight(r)) \in Nat
        /\ MaxUnit * Cardinality(InFlight(r)') \in Nat
        /\ MaxUnit * Cardinality(InFlight(r)') <= MaxUnit * Cardinality(InFlight(r))
    BY <2>2, Scaled
  <2>4. spent[r] \in Nat /\ Cap(r) \in Nat
    BY <1>5, CapType DEF CostInv, TypeInv, TypeOK
  <2>5. CASE r # RunOf[t]
    <3>1. spent'[r] = spent[r]
      BY <1>0, <2>5 DEF CostInv, TypeInv, TypeOK
    <3>2. QED BY <2>1, <2>3, <2>4, <3>1
  <2>6. CASE r = RunOf[t]
    <3>1. spent'[r] = spent[r] + reply.cost
      BY <1>0, <2>6 DEF CostInv, TypeInv, TypeOK
    <3>2. InFlight(r)' = InFlight(r) \ {t} /\ t \in InFlight(r)
      BY <1>0, <1>1, <2>6 DEF InFlight, TasksOf
    <3>3. Cardinality(InFlight(r)') = Cardinality(InFlight(r)) - 1
      BY <3>2, ActiveFinite, FS_RemoveElement
    <3>4. MaxUnit * Cardinality(InFlight(r)') + MaxUnit = MaxUnit * Cardinality(InFlight(r))
      BY <1>0, <2>2, <3>3, SMT
    <3>5. QED BY <1>0, <2>1, <2>3, <2>4, <3>1, <3>4
  <2>7. QED BY <2>5, <2>6
<1>6. OvershootBounded'
  BY <1>0, <1>5 DEF OvershootBounded, Cap
<1>7. QED BY <1>3, <1>4, <1>6 DEF CostInv

(* Tasks leave their places: nobody gains a slot, a call or a snapshot. *)
LEMMA LeavingCost ==
  ASSUME CostInv,
         \A t \in Tasks : pc'[t] = pc[t] \/ pc'[t] \notin InDomain,
         \A t \in Tasks : pc'[t] = "commit" => snap'[t] = snap[t]
  PROVE  /\ SlotsHeld' /\ SnapBounded'
         /\ \A r \in Runs :
              live[r] /\ Ceiling[r] # NoCeiling =>
                spent[r] + MaxUnit * Cardinality(InFlight(r)') <= Cap(r)
<1>1. \A t \in Tasks :
        /\ pc'[t] \in InDomain => pc[t] \in InDomain
        /\ pc'[t] = "call" => pc[t] = "call"
        /\ pc'[t] = "commit" => pc[t] = "commit"
  BY DEF InDomain
<1>2. SnapBounded'
  <2>1. ASSUME NEW t \in Tasks, pc'[t] = "commit", Ceiling[RunOf[t]] # NoCeiling
        PROVE  snap'[t] <= Cap(RunOf[t])
    BY <1>1, <2>1 DEF CostInv, SnapBounded
  <2>2. QED BY <2>1 DEF SnapBounded, Cap
<1>3. ASSUME NEW r \in Runs PROVE Cardinality(Active(r)') <= MaxConcurrency
  <2>1. Active(r)' \subseteq Active(r)
    BY <1>1 DEF Active, TasksOf
  <2>2. /\ Cardinality(Active(r)') <= Cardinality(Active(r))
        /\ Cardinality(Active(r)') \in Nat
    BY <2>1, ActiveFinite, FS_Subset, FS_CardinalityType
  <2>3. QED
    BY <2>2, ActiveFinite, RunAssumption DEF CostInv, SlotsHeld
<1>4. ASSUME NEW r \in Runs, live[r], Ceiling[r] # NoCeiling
      PROVE  spent[r] + MaxUnit * Cardinality(InFlight(r)') <= Cap(r)
  <2>1. spent[r] + MaxUnit * Cardinality(InFlight(r)) <= Cap(r)
    BY <1>4 DEF CostInv, OvershootBounded, Cap
  <2>2. /\ MaxUnit * Cardinality(InFlight(r)') <= MaxUnit * Cardinality(InFlight(r))
        /\ MaxUnit * Cardinality(InFlight(r)') \in Nat
        /\ MaxUnit * Cardinality(InFlight(r)) \in Nat
    <3>1. /\ Cardinality(InFlight(r)') <= Cardinality(InFlight(r))
          /\ Cardinality(InFlight(r)') \in Nat
      <4>1. \A t \in TasksOf(r) : pc'[t] = "call" => pc[t] = "call"
        BY <1>1 DEF TasksOf
      <4>2. QED BY <4>1, FewerInFlight
    <3>2. QED BY <3>1, ActiveFinite, Scaled
  <2>3. spent[r] \in Nat /\ Cap(r) \in Nat
    BY <1>4, CapType DEF CostInv, TypeInv, TypeOK
  <2>4. QED BY <2>1, <2>2, <2>3
<1>5. QED BY <1>2, <1>3, <1>4 DEF SlotsHeld

LEMMA CommitCost ==
  ASSUME CostInv, TypeInv', NEW t \in Tasks, Commit(t) PROVE CostInv'
<1>1. /\ pc[t] = "commit" /\ RunOf[t] \in Runs
      /\ runCost' = [runCost EXCEPT ![RunOf[t]] = snap[t]]
      /\ pc' = [pc EXCEPT ![t] = exit[t]] /\ exit[t] \in {"done", "ceiling"}
      /\ snap' = [snap EXCEPT ![t] = 0] /\ UNCHANGED <<live, spent>>
  BY RunAssumption DEF Commit, CloseSession, tracker, CostInv, TypeInv, TypeOK
<1>2. /\ pc'[t] \in {"done", "ceiling"}
      /\ \A u \in Tasks \ {t} : pc'[u] = pc[u] /\ snap'[u] = snap[u]
  BY <1>1 DEF CostInv, TypeInv, TypeOK
<1>3. /\ SlotsHeld' /\ SnapBounded'
      /\ \A r \in Runs :
           live[r] /\ Ceiling[r] # NoCeiling =>
             spent[r] + MaxUnit * Cardinality(InFlight(r)') <= Cap(r)
  BY <1>2, LeavingCost DEF InDomain
<1>4. StoredCostBounded'
  <2>1. Ceiling[RunOf[t]] # NoCeiling => snap[t] <= Cap(RunOf[t])
    BY <1>1 DEF CostInv, SnapBounded
  <2>2. QED
    BY <1>1, <2>1 DEF CostInv, StoredCostBounded, Cap, TypeInv, TypeOK
<1>5. TasksLive' /\ OvershootBounded'
  BY <1>1, <1>2, <1>3 DEF CostInv, TasksLive, OvershootBounded, Cap
<1>6. QED BY <1>3, <1>4, <1>5 DEF CostInv

(* A new execution starts from the cost the row shows, with no call in flight. *)
LEMMA ExecuteCost ==
  ASSUME CostInv, TypeInv', NEW r \in Runs, Execute(r) PROVE CostInv'
<1>0. TypeInv'
  OBVIOUS
<1>1. /\ live' = [live EXCEPT ![r] = TRUE]
      /\ spent' = [spent EXCEPT ![r] = runCost[r]]
      /\ pc' = [t \in Tasks |-> IF RunOf[t] # r THEN pc[t]
                                ELSE IF Grouped(t) THEN "queued" ELSE "idle"]
      /\ UNCHANGED <<runCost, snap>>
  BY DEF Execute, OpeningCost
<1>2. \A t \in Tasks : pc'[t] = pc[t] \/ pc'[t] \in {"queued", "idle"}
  BY <1>1
<1>3. /\ SlotsHeld' /\ SnapBounded'
      /\ \A s \in Runs :
           live[s] /\ Ceiling[s] # NoCeiling =>
             spent[s] + MaxUnit * Cardinality(InFlight(s)') <= Cap(s)
  <2>1. \A t \in Tasks : pc'[t] = pc[t] \/ pc'[t] \notin InDomain
    BY <1>2 DEF InDomain
  <2>2. \A t \in Tasks : snap'[t] = snap[t]
    BY <1>1
  <2>3. QED BY <2>1, <2>2, LeavingCost
<1>4. InFlight(r)' = {}
  BY <1>1 DEF InFlight, TasksOf
<1>5. Cardinality(InFlight(r)') = 0 /\ MaxUnit * 0 = 0
  BY <1>4, FS_EmptySet, RunAssumption
<1>6. /\ spent'[r] = runCost[r] /\ live'[r]
      /\ \A s \in Runs \ {r} : spent'[s] = spent[s] /\ live'[s] = live[s]
  BY <1>1 DEF CostInv, TypeInv, TypeOK
<1>7. OvershootBounded'
  <2>1. Ceiling[r] # NoCeiling => spent'[r] <= Cap(r)
    BY <1>6 DEF CostInv, StoredCostBounded, Cap
  <2>2. spent'[r] \in Nat /\ spent'[r] + MaxUnit * Cardinality(InFlight(r)') = spent'[r]
    BY <1>0, <1>5 DEF TypeInv, TypeOK
  <2>3. QED BY <1>3, <1>6, <2>1, <2>2 DEF OvershootBounded, Cap
<1>8. TasksLive' /\ StoredCostBounded'
  BY <1>1, <1>6 DEF CostInv, TasksLive, StoredCostBounded
<1>9. QED BY <1>3, <1>7, <1>8 DEF CostInv

LEMMA EndCost ==
  ASSUME CostInv, TypeInv', NEW r \in Runs, End(r) \/ EndFails(r) PROVE CostInv'
<1>1. /\ live[r] /\ live' = [live EXCEPT ![r] = FALSE]
      /\ runCost' = runCost \/ runCost' = [runCost EXCEPT ![r] = spent[r]]
      /\ pc' = [t \in Tasks |-> IF RunOf[t] = r THEN "idle" ELSE pc[t]]
      /\ UNCHANGED <<spent, snap>>
  BY DEF End, EndFails, Gathered, Leave, FinalCost
<1>2. /\ SlotsHeld' /\ SnapBounded'
      /\ \A s \in Runs :
           live[s] /\ Ceiling[s] # NoCeiling =>
             spent[s] + MaxUnit * Cardinality(InFlight(s)') <= Cap(s)
  BY <1>1, LeavingCost DEF InDomain
<1>3. \A s \in Runs : live'[s] => live[s]
  BY <1>1 DEF CostInv, TypeInv, TypeOK
<1>4. StoredCostBounded'
  <2>1. Ceiling[r] # NoCeiling => spent[r] <= Cap(r)
    BY <1>1, SpentBounded
  <2>2. QED BY <1>1, <2>1 DEF CostInv, StoredCostBounded, Cap, TypeInv, TypeOK
<1>5. TasksLive'
  BY <1>1, RunAssumption DEF CostInv, TasksLive, TypeInv, TypeOK
<1>6. OvershootBounded'
  BY <1>1, <1>2, <1>3 DEF OvershootBounded, Cap
<1>7. QED BY <1>2, <1>4, <1>5, <1>6 DEF CostInv

LEMMA CrashCost == ASSUME CostInv, TypeInv', Crash PROVE CostInv'
<1>1. /\ live' = [r \in Runs |-> FALSE] /\ pc' = [t \in Tasks |-> "idle"]
      /\ UNCHANGED runCost
  BY DEF Crash, db
<1>2. SlotsHeld' /\ SnapBounded'
  <2>1. ASSUME NEW r \in Runs PROVE Cardinality(Active(r)') <= MaxConcurrency
    <3>1. Active(r)' = {}
      BY <1>1 DEF Active, TasksOf, InDomain
    <3>2. QED BY <3>1, FS_EmptySet, RunAssumption
  <2>2. QED BY <1>1, <2>1 DEF SlotsHeld, SnapBounded
<1>3. TasksLive' /\ OvershootBounded' /\ StoredCostBounded'
  BY <1>1 DEF CostInv, TasksLive, OvershootBounded, StoredCostBounded
<1>4. QED BY <1>2, <1>3 DEF CostInv

(* The calm steps of a task. *)
LEMMA TaskCalm ==
  ASSUME CostInv, NEW t \in Tasks,
         \/ MissingDomain(t) \/ SkipProbe(t) \/ Store(t) \/ Insert(t) \/ Touch(t)
         \/ Victim(t) \/ Finish(t) \/ Fail(t)
         \/ \E p \in People : Pick(t, p)
         \/ \E e \in Emails : Lookup(t, e)
         \/ \E s \in RowStatuses : Resolve(t, s)
  PROVE  (\A u \in Tasks : Calm(u)) /\ UNCHANGED <<live, spent, runCost>>
<1>1. CASE Victim(t) \/ Fail(t) \/ (Insert(t) /\ KeyTaken(email[t]))
  <2>1. Rollback(t) /\ UNCHANGED <<live, spent, runCost>> /\ pc[t] \in InDomain
    BY <1>1 DEF Victim, Deadlocked, WaitsFor, Fail, Insert, db, tracker, InDomain
  <2>2. pc' = [pc EXCEPT ![t] = "error"] /\ snap' = [snap EXCEPT ![t] = 0]
    BY <2>1 DEF Rollback, CloseSession
  <2>3. QED BY <2>1, <2>2 DEF Calm, InDomain, CostInv, TypeInv, TypeOK
<1>2. CASE MissingDomain(t)
  BY <1>2 DEF MissingDomain, tracker, Calm, InDomain, CostInv, TypeInv, TypeOK
<1>3. CASE Finish(t)
  BY <1>3 DEF Finish, db, tracker, Calm, InDomain, CostInv, TypeInv, TypeOK
<1>4. CASE \/ SkipProbe(t) \/ Store(t) \/ (Insert(t) /\ ~KeyTaken(email[t])) \/ Touch(t)
           \/ \E e \in Emails : Lookup(t, e)
  <2>1. UNCHANGED <<live, spent, runCost, snap>> /\ pc[t] \in InDomain
    BY <1>4 DEF SkipProbe, Store, Insert, Touch, Lookup, db, tracker, InDomain
  <2>2. \E place \in {"open", "touch", "gate", "insert"} : pc' = [pc EXCEPT ![t] = place]
    BY <1>4 DEF SkipProbe, Store, Insert, Touch, Lookup, Got, Prepared
  <2>3. QED BY <2>1, <2>2 DEF Calm, InDomain, CostInv, TypeInv, TypeOK
<1>5. CASE (\E p \in People : Pick(t, p)) \/ \E s \in RowStatuses : Resolve(t, s)
  <2>1. UNCHANGED <<live, spent, runCost, snap, pc>>
    BY <1>5 DEF Pick, Resolve, db, tracker
  <2>2. QED BY <2>1 DEF Calm
<1>6. QED BY <1>1, <1>2, <1>3, <1>4, <1>5

LEMMA CostNext == ASSUME CostInv, [Next]_vars PROVE CostInv'
<1>0. TypeInv'
  BY TypeNext DEF CostInv
<1>1. ASSUME NEW r \in Runs, Execute(r) \/ End(r) \/ EndFails(r) PROVE CostInv'
  BY <1>0, <1>1, ExecuteCost, EndCost
<1>2. ASSUME NEW t \in Tasks, TaskStep(t) \/ Fail(t) PROVE CostInv'
  BY <1>0, <1>2, TaskCalm, CalmCost, EnterCost, GateCost, AnswerCost, CommitCost DEF TaskStep
<1>3. CASE Crash
  BY <1>0, <1>3, CrashCost
<1>4. CASE UNCHANGED vars
  <2>1. UNCHANGED <<live, spent, runCost, snap, pc>>
    BY <1>4 DEF vars, db, tracker, session
  <2>2. QED BY <1>0, <2>1, CalmCost DEF Calm
<1>5. QED BY <1>1, <1>2, <1>3, <1>4 DEF Next

LEMMA CostInit == Init => CostInv
<1> SUFFICES ASSUME Init PROVE CostInv
  OBVIOUS
<1>1. /\ pc = [t \in Tasks |-> "idle"] /\ live = [r \in Runs |-> FALSE]
      /\ runCost = [r \in Runs |-> 0]
  BY DEF Init
<1>2. SlotsHeld
  <2>1. ASSUME NEW r \in Runs PROVE Cardinality(Active(r)) <= MaxConcurrency
    <3>1. Active(r) = {}
      BY <1>1 DEF Active, TasksOf, InDomain
    <3>2. QED BY <3>1, FS_EmptySet, RunAssumption
  <2>2. QED BY <2>1 DEF SlotsHeld
<1>3. StoredCostBounded
  BY <1>1, CapType DEF StoredCostBounded, Cap
<1>4. TasksLive /\ SnapBounded /\ OvershootBounded
  BY <1>1 DEF TasksLive, SnapBounded, OvershootBounded
<1>5. QED BY TypeInit, <1>2, <1>3, <1>4 DEF CostInv

(* allow() and charge() are two steps with the vendor call between them: a run
   spends at most its ceiling plus one dearest verification for every domain
   that the semaphore lets work at once (engine.py 69-82, 137-152, 986-998). *)
THEOREM Overshoot == Spec => []OvershootBounded
<1>1. CostInv => OvershootBounded
  BY DEF CostInv
<1>2. QED BY CostInit, CostNext, <1>1, PTL DEF Spec

(* So does the cost the run's row shows, in whatever order the snapshots of
   its domains are committed and however often it is executed again. *)
THEOREM StoredCost == Spec => []StoredCostBounded
<1>1. CostInv => StoredCostBounded
  BY DEF CostInv
<1>2. QED BY CostInit, CostNext, <1>1, PTL DEF Spec

(***************************************************************************)
(* The charges                                                             *)
(***************************************************************************)

(* EveryChargeBooked needs to know the same of the tracker and of the snapshots
   that wait for their commit. *)
TrackerBacked == \A r \in Runs : live[r] => spent[r] <= billed[r]
SnapBacked == \A t \in Tasks : pc[t] = "commit" => snap[t] <= billed[RunOf[t]]

BooksInv == CostInv /\ EveryChargeBooked /\ TrackerBacked /\ SnapBacked
Booked == EveryChargeBooked /\ TrackerBacked /\ SnapBacked

LEMMA BooksInit == Init => BooksInv
BY CostInit DEF Init, BooksInv, EveryChargeBooked, TrackerBacked, SnapBacked

(* Steps that charge nothing and show nothing but the tracker's cost. *)
LEMMA QuietBooks ==
  ASSUME BooksInv, UNCHANGED <<live, spent, runCost, billed, crashed, unbooked>>,
         \A t \in Tasks : pc'[t] = "commit" =>
           \/ pc[t] = "commit" /\ snap'[t] = snap[t]
           \/ pc[t] # "idle" /\ snap'[t] = spent[RunOf[t]]
  PROVE  Booked'
<1>1. EveryChargeBooked' /\ TrackerBacked'
  BY DEF BooksInv, EveryChargeBooked, TrackerBacked
<1>2. ASSUME NEW t \in Tasks, pc'[t] = "commit" PROVE snap'[t] <= billed[RunOf[t]]
  <2>1. CASE pc[t] = "commit" /\ snap'[t] = snap[t]
    BY <2>1 DEF BooksInv, SnapBacked
  <2>2. CASE pc[t] # "idle" /\ snap'[t] = spent[RunOf[t]]
    BY <2>2, RunAssumption DEF BooksInv, CostInv, TasksLive, TrackerBacked
  <2>3. QED BY <1>2, <2>1, <2>2
<1>3. QED BY <1>1, <1>2 DEF Booked, SnapBacked

(* charge() books a cost on the run and the tracker at once. *)
LEMMA AnswerBooks ==
  ASSUME BooksInv, NEW t \in Tasks, NEW reply \in Replies, Answer(t, reply) PROVE Booked'
<1>1. /\ RunOf[t] \in Runs /\ live[RunOf[t]] /\ reply.cost \in Nat
      /\ spent' = [spent EXCEPT ![RunOf[t]] = spent[RunOf[t]] + reply.cost]
      /\ billed' = [billed EXCEPT ![RunOf[t]] = billed[RunOf[t]] + reply.cost]
      /\ UNCHANGED <<live, runCost, snap, crashed, unbooked>>
  BY RunAssumption DEF Answer, db, BooksInv, CostInv, TasksLive, Costs
<1>2. \A r \in Runs :
        /\ spent[r] \in Nat /\ billed[r] \in Nat /\ runCost[r] \in Nat
        /\ spent'[r] = IF r = RunOf[t] THEN spent[r] + reply.cost ELSE spent[r]
        /\ billed'[r] = IF r = RunOf[t] THEN billed[r] + reply.cost ELSE billed[r]
  BY <1>1 DEF BooksInv, CostInv, TypeInv, TypeOK
<1>3. EveryChargeBooked'
  BY <1>1, <1>2 DEF BooksInv, EveryChargeBooked
<1>4. TrackerBacked'
  BY <1>1, <1>2 DEF BooksInv, TrackerBacked
<1>5. \A u \in Tasks : pc'[u] = "commit" => pc[u] = "commit"
  BY DEF Answer, Got, Prepared, BooksInv, CostInv, TypeInv, TypeOK
<1>6. SnapBacked'
  <2>1. ASSUME NEW u \in Tasks, pc[u] = "commit" PROVE snap[u] <= billed'[RunOf[u]]
    <3>1. /\ snap[u] <= billed[RunOf[u]] /\ snap[u] \in Nat /\ RunOf[u] \in Runs
      BY <2>1, RunAssumption DEF BooksInv, SnapBacked, CostInv, TypeInv, TypeOK
    <3>2. QED BY <1>1, <1>2, <3>1
  <2>2. QED BY <1>1, <1>5, <2>1 DEF SnapBacked
<1>7. QED BY <1>3, <1>4, <1>6 DEF Booked

LEMMA CommitBooks == ASSUME BooksInv, NEW t \in Tasks, Commit(t) PROVE Booked'
<1>1. /\ pc[t] = "commit" /\ RunOf[t] \in Runs /\ live[RunOf[t]]
      /\ runCost' = [runCost EXCEPT ![RunOf[t]] = snap[t]]
      /\ snap[t] <= billed[RunOf[t]]
      /\ UNCHANGED <<live, spent, billed, crashed, unbooked>>
  BY RunAssumption
     DEF Commit, tracker, history, BooksInv, CostInv, TasksLive, SnapBacked
<1>2. \A u \in Tasks : pc'[u] = "commit" => pc[u] = "commit" /\ snap'[u] = snap[u]
  BY DEF Commit, CloseSession, BooksInv, CostInv, TypeInv, TypeOK
<1>3. \A r \in Runs : runCost'[r] = IF r = RunOf[t] THEN snap[t] ELSE runCost[r]
  BY <1>1 DEF BooksInv, CostInv, TypeInv, TypeOK
<1>4. EveryChargeBooked'
  BY <1>1, <1>3 DEF BooksInv, EveryChargeBooked
<1>5. TrackerBacked' /\ SnapBacked'
  BY <1>1, <1>2 DEF BooksInv, TrackerBacked, SnapBacked
<1>6. QED BY <1>4, <1>5 DEF Booked

(* An execution starts from the cost the row shows, and leaves it there. *)
LEMMA ExecuteBooks == ASSUME BooksInv, NEW r \in Runs, Execute(r) PROVE Booked'
<1>1. /\ ~live[r] /\ live' = [live EXCEPT ![r] = TRUE]
      /\ spent' = [spent EXCEPT ![r] = runCost[r]]
      /\ UNCHANGED <<runCost, billed, crashed, unbooked, snap>>
  BY DEF Execute, OpeningCost
<1>2. \A s \in Runs : /\ spent'[s] = IF s = r THEN runCost[s] ELSE spent[s]
                      /\ live'[s] <=> (s = r \/ live[s])
  BY <1>1 DEF BooksInv, CostInv, TypeInv, TypeOK
<1>3. EveryChargeBooked' /\ TrackerBacked'
  BY <1>1, <1>2 DEF BooksInv, EveryChargeBooked, TrackerBacked
<1>4. \A t \in Tasks : pc'[t] = "commit" => pc[t] = "commit"
  BY DEF Execute
<1>5. QED BY <1>1, <1>3, <1>4 DEF BooksInv, Booked, SnapBacked

LEMMA EndBooks == ASSUME BooksInv, NEW r \in Runs, End(r) PROVE Booked'
<1>1. /\ live[r] /\ live' = [live EXCEPT ![r] = FALSE]
      /\ runCost' = [runCost EXCEPT ![r] = spent[r]]
      /\ UNCHANGED <<spent, billed, crashed, unbooked, snap>>
  BY DEF End, Gathered, Leave, FinalCost
<1>2. \A s \in Runs : /\ runCost'[s] = IF s = r THEN spent[s] ELSE runCost[s]
                      /\ live'[s] <=> (s # r /\ live[s])
  BY <1>1 DEF BooksInv, CostInv, TypeInv, TypeOK
<1>3. EveryChargeBooked' /\ TrackerBacked'
  BY <1>1, <1>2 DEF BooksInv, EveryChargeBooked, TrackerBacked
<1>4. \A t \in Tasks : pc'[t] = "commit" => pc[t] = "commit"
  BY DEF End, Leave
<1>5. QED BY <1>1, <1>3, <1>4 DEF BooksInv, Booked, SnapBacked

(* The row keeps what the last domain to commit has written: less than was charged. *)
LEMMA EndFailsBooks == ASSUME BooksInv, NEW r \in Runs, EndFails(r) PROVE Booked'
<1>1. /\ live' = [live EXCEPT ![r] = FALSE] /\ unbooked' = unbooked \cup {r}
      /\ UNCHANGED <<runCost, spent, billed, crashed, snap>>
  BY DEF EndFails, Leave
<1>2. \A s \in Runs : live'[s] <=> (s # r /\ live[s])
  BY <1>1 DEF BooksInv, CostInv, TypeInv, TypeOK
<1>3. EveryChargeBooked' /\ TrackerBacked'
  BY <1>1, <1>2 DEF BooksInv, EveryChargeBooked, TrackerBacked
<1>4. \A t \in Tasks : pc'[t] = "commit" => pc[t] = "commit"
  BY DEF EndFails, Leave
<1>5. QED BY <1>1, <1>3, <1>4 DEF BooksInv, Booked, SnapBacked

LEMMA BooksNext == ASSUME BooksInv, [Next]_vars PROVE Booked'
<1>1. ASSUME NEW r \in Runs, Execute(r) \/ End(r) \/ EndFails(r) PROVE Booked'
  BY <1>1, ExecuteBooks, EndBooks, EndFailsBooks
<1>2. ASSUME NEW t \in Tasks,
             \/ MissingDomain(t) \/ SkipProbe(t) \/ Store(t) \/ Insert(t) \/ Touch(t)
             \/ Victim(t) \/ Finish(t) \/ Fail(t)
             \/ \E p \in People : Pick(t, p)
             \/ \E e \in Emails : Lookup(t, e)
             \/ \E s \in RowStatuses : Resolve(t, s)
      PROVE  Booked'
  <2>1. (\A u \in Tasks : Calm(u)) /\ UNCHANGED <<live, spent, runCost>>
    BY <1>2, TaskCalm DEF BooksInv
  <2>2. UNCHANGED <<billed, crashed, unbooked>>
    BY <1>2 DEF MissingDomain, SkipProbe, Store, Insert, Touch, Victim, Finish, Fail, Pick,
       Lookup, Resolve, history
  <2>3. QED BY <2>1, <2>2, QuietBooks DEF Calm
<1>3. ASSUME NEW t \in Tasks, Enter(t) \/ Gate(t) PROVE Booked'
  <2>1. UNCHANGED <<live, spent, runCost, billed, crashed, unbooked>> /\ pc[t] # "idle"
    BY <1>3 DEF Enter, Gate, db, tracker, history
  <2>2. \A u \in Tasks \ {t} : pc'[u] = pc[u] /\ snap'[u] = snap[u]
    BY <1>3 DEF Enter, Gate, BooksInv, CostInv, TypeInv, TypeOK
  <2>3. pc'[t] = "commit" => snap'[t] = spent[RunOf[t]]
    BY <1>3 DEF Enter, Gate, BooksInv, CostInv, TypeInv, TypeOK
  <2>4. QED BY <2>1, <2>2, <2>3, QuietBooks
<1>4. ASSUME NEW t \in Tasks, Commit(t) \/ \E reply \in Replies : Answer(t, reply) PROVE Booked'
  BY <1>4, CommitBooks, AnswerBooks
<1>5. CASE Crash
  BY <1>5 DEF Crash, db, BooksInv, Booked, EveryChargeBooked, TrackerBacked, SnapBacked
<1>6. CASE UNCHANGED vars
  BY <1>6, QuietBooks DEF vars, db, tracker, session, history
<1>7. QED
  BY <1>1, <1>2, <1>3, <1>4, <1>5, <1>6 DEF Next, TaskStep

(* Unless the process dies or an execution's last statement fails, every unit a vendor
   charges ends on the run, whatever domains roll back, and a run never shows more
   than was charged, also where that statement failed (engine.py 147-152, 824-830,
   1023-1047). *)
THEOREM ChargesBooked == Spec => []EveryChargeBooked
<1>1. BooksInv /\ [Next]_vars => BooksInv'
  BY CostNext, BooksNext DEF BooksInv, Booked
<1>2. BooksInv => EveryChargeBooked
  BY DEF BooksInv
<1>3. QED BY BooksInit, <1>1, <1>2, PTL DEF Spec

(***************************************************************************)
(* Nothing is paid for twice                                               *)
(***************************************************************************)

(* The row of a run is updated by one open transaction at a time. *)
OneHolder ==
  \A t, u \in Tasks : holds[t] /\ holds[u] /\ RunOf[t] = RunOf[u] => t = u

NoLoss == DomainsApart /\ ~crashed /\ failures = 0
Buying == {"gate", "call", "store", "insert"}

(* A verdict that was paid for is stored, or on its way into the database. *)
Accounted(e) ==
  \/ verdict[e] # NoVerdict
  \/ \E t \in Tasks : written[t][e] # NoVerdict \/ (pc[t] \in {"store", "insert"} /\ email[t] = e)

(* BoughtOnce needs to know that a task asks the vendor only for addresses of its
   own domain, of which nothing is known, and that a bill has left its verdict. *)
AsksOwn ==
  \A t \in Tasks : pc[t] \in Buying =>
    email[t] \in Reach(t) /\ t \notin Domainless /\ Seen(t, email[t]) = NoVerdict
WritesOwn ==
  \A t \in Tasks, e \in Emails : written[t][e] # NoVerdict => e \in Reach(t) /\ t \notin Domainless
BillsAccounted ==
  \A e \in Emails : bought[e] = 0 \/ (bought[e] = 1 /\ Accounted(e))

Paid == NoLoss => AsksOwn /\ WritesOwn /\ BillsAccounted
PaidInv == CostInv /\ BackedInv /\ OneHolder /\ Paid

LEMMA PaidInit == Init => PaidInv
<1> SUFFICES ASSUME Init PROVE PaidInv
  OBVIOUS
<1>1. /\ pc = [t \in Tasks |-> "idle"] /\ written = [t \in Tasks |-> Nothing]
      /\ holds = [t \in Tasks |-> FALSE] /\ bought = [e \in Emails |-> 0]
  BY DEF Init
<1>2. OneHolder /\ Paid
  BY <1>1 DEF OneHolder, Paid, AsksOwn, WritesOwn, BillsAccounted, Nothing, Buying
<1>3. QED BY CostInit, BackedInit, <1>2 DEF PaidInv

LEMMA OneHolderNext == ASSUME TypeInv, OneHolder, [Next]_vars PROVE OneHolder'
<1>1. ASSUME NEW t \in Tasks, Touch(t) PROVE OneHolder'
  <2>1. holds' = [holds EXCEPT ![t] = TRUE] /\ \A u \in Tasks \ {t} : holds[u] => RunOf[u] # RunOf[t]
    BY <1>1 DEF Touch, WaitsFor
  <2>2. \A u \in Tasks \ {t} : holds'[u] = holds[u]
    BY <2>1 DEF TypeInv, TypeOK
  <2>3. QED BY <2>1, <2>2 DEF OneHolder
<1>2. CASE \A t \in Tasks : holds'[t] => holds[t]
  BY <1>2 DEF OneHolder
<1>3. ASSUME NEW t \in Tasks, Rollback(t) \/ Commit(t)
      PROVE  \A u \in Tasks : holds'[u] => holds[u]
  BY <1>3 DEF Rollback, Commit, CloseSession, TypeInv, TypeOK
<1>4. ASSUME NEW t \in Tasks, Fail(t) \/ Victim(t) \/ Insert(t)
      PROVE  \A u \in Tasks : holds'[u] => holds[u]
  BY <1>3, <1>4 DEF Fail, Victim, Insert
<1>5. ASSUME NEW r \in Runs, Execute(r) \/ End(r) \/ EndFails(r) PROVE holds' = holds
  BY <1>5 DEF Execute, End, EndFails, Leave
<1>6. ASSUME NEW t \in Tasks,
             \/ MissingDomain(t) \/ Enter(t) \/ SkipProbe(t) \/ Gate(t) \/ Store(t) \/ Finish(t)
             \/ \E p \in People : Pick(t, p)
             \/ \E e \in Emails : Lookup(t, e)
             \/ \E reply \in Replies : Answer(t, reply)
             \/ \E s \in RowStatuses : Resolve(t, s)
      PROVE  holds' = holds
  BY <1>6 DEF MissingDomain, Enter, SkipProbe, Gate, Store, Finish, Pick, Lookup, Answer, Resolve
<1>7. CASE Crash
  BY <1>7, <1>2 DEF Crash
<1>8. CASE UNCHANGED vars
  BY <1>8, <1>2 DEF vars, session
<1>9. QED
  BY <1>1, <1>2, <1>3, <1>4, <1>5, <1>6, <1>7, <1>8 DEF Next, TaskStep

(* What was not lost after a step was not before it. *)
LEMMA LossStays == ASSUME TypeInv, [Next]_vars, NoLoss' PROVE NoLoss
<1>1. DomainsApart /\ crashed' = FALSE /\ failures' = 0
  BY DEF NoLoss, DomainsApart, Reach
<1>2. crashed' = crashed \/ crashed' = TRUE
  BY DEF Next, TaskStep, Execute, End, EndFails, Leave, Fail, Crash, MissingDomain, Enter, SkipProbe, Gate, Store,
     Finish, Pick, Lookup, Answer, Resolve, Touch, Insert, Victim, Commit, vars, history
<1>3. failures' = failures \/ failures' = failures + 1
  BY DEF Next, TaskStep, Execute, End, EndFails, Leave, Fail, Crash, MissingDomain, Enter, SkipProbe, Gate, Store,
     Finish, Pick, Lookup, Answer, Resolve, Touch, Insert, Victim, Commit, vars, history
<1>4. QED BY <1>1, <1>2, <1>3 DEF NoLoss, TypeInv, TypeOK

(* Steps that ask the vendor nothing and end no purchase. *)
LEMMA QuietPaid ==
  ASSUME PaidInv, NoLoss, UNCHANGED <<verdict, written, bought>>,
         \A t \in Tasks : /\ pc'[t] \in Buying => pc[t] \in Buying /\ email'[t] = email[t]
                          /\ pc[t] \in {"store", "insert"} =>
                               pc'[t] \in {"store", "insert"} /\ email'[t] = email[t]
  PROVE  (AsksOwn /\ WritesOwn /\ BillsAccounted)'
<1>1. AsksOwn /\ WritesOwn /\ BillsAccounted
  BY DEF PaidInv, Paid
<1>2. AsksOwn' /\ WritesOwn'
  BY <1>1 DEF AsksOwn, WritesOwn, Seen, Reach
<1>3. \A e \in Emails : Accounted(e) => Accounted(e)'
  BY DEF Accounted
<1>4. BillsAccounted'
  BY <1>1, <1>3 DEF BillsAccounted
<1>5. QED BY <1>2, <1>4

(* With their addresses apart, transactions wait only for the holder of their run's
   row, and a holder waits for nobody. *)
LEMMA NoDeadlock == ASSUME PaidInv, NoLoss, NEW t \in Tasks PROVE ~Deadlocked(t)
<1> SUFFICES ASSUME Deadlocked(t) PROVE FALSE
  OBVIOUS
<1>1. ASSUME NEW a \in Tasks, NEW b \in Tasks, WaitsFor(a, b)
      PROVE  a # b /\ RunOf[a] = RunOf[b] /\ holds[b]
  <2>1. CASE pc[a] = "insert" /\ written[b][email[a]] # NoVerdict
    <3>1. /\ email[a] \in Emails /\ email[a] \in Reach(a) /\ a \notin Domainless
          /\ email[a] \in Reach(b) /\ b \notin Domainless
      BY <2>1 DEF PaidInv, Paid, AsksOwn, WritesOwn, Buying, CostInv, TypeInv, InHand
    <3>2. QED BY <1>1, <3>1 DEF NoLoss, DomainsApart, WaitsFor
  <2>2. QED BY <1>1, <2>1 DEF WaitsFor
<1>2. PICK C \in SUBSET Tasks : /\ t \in C
                                /\ \A a \in C : \E b \in C : WaitsFor(a, b)
  BY DEF Deadlocked
<1>3. PICK b \in C : WaitsFor(t, b)
  BY <1>2
<1>4. PICK d \in C : WaitsFor(b, d)
  BY <1>2
<1>5. QED BY <1>1, <1>2, <1>3, <1>4 DEF PaidInv, OneHolder

(* The address in hand is asked of the vendor. *)
LEMMA LookupPaid ==
  ASSUME PaidInv, NoLoss, NEW t \in Tasks, NEW e \in Emails, Lookup(t, e)
  PROVE  (AsksOwn /\ WritesOwn /\ BillsAccounted)'
<1>1. /\ pc[t] = "open" /\ e \in Asks(t) /\ UNCHANGED <<verdict, written, bought>>
  BY DEF Lookup, db, history
<1>2. CASE Seen(t, e) # NoVerdict
  <2>1. \A u \in Tasks : (pc'[u] = pc[u] /\ email'[u] = email[u]) \/ (u = t /\ pc'[u] \in {"touch", "open"})
    BY <1>2 DEF Lookup, Got, Prepared, PaidInv, CostInv, TypeInv, TypeOK
  <2>2. QED BY <1>1, <2>1, QuietPaid DEF Buying
<1>3. CASE Seen(t, e) = NoVerdict
  <2>1. pc' = [pc EXCEPT ![t] = "gate"] /\ email' = [email EXCEPT ![t] = e]
    BY <1>3 DEF Lookup
  <2>2. e \in Reach(t) /\ t \notin Domainless
    BY <1>1 DEF Asks, Reach, PaidInv, BackedInv, RowsInv, LoadedRows, DomainlessUntried, InDomain
  <2>3. pc'[t] = "gate" /\ email'[t] = e /\ \A u \in Tasks \ {t} : pc'[u] = pc[u] /\ email'[u] = email[u]
    BY <2>1 DEF PaidInv, CostInv, TypeInv, TypeOK
  <2>4. AsksOwn' /\ WritesOwn'
    BY <1>1, <1>3, <2>2, <2>3 DEF PaidInv, Paid, AsksOwn, WritesOwn, Seen, Reach
  <2>5. \A f \in Emails : Accounted(f) => Accounted(f)'
    BY <1>1, <2>3 DEF Accounted
  <2>6. BillsAccounted'
    BY <1>1, <2>5 DEF PaidInv, Paid, BillsAccounted
  <2>7. QED BY <2>4, <2>6
<1>4. QED BY <1>2, <1>3

(* The vendor bills an address of which nothing was known. *)
LEMMA AnswerPaid ==
  ASSUME PaidInv, NoLoss, NEW t \in Tasks, NEW reply \in Replies, Answer(t, reply)
  PROVE  (AsksOwn /\ WritesOwn /\ BillsAccounted)'
<1>1. /\ pc[t] = "call" /\ UNCHANGED <<verdict, written>>
      /\ bought' = IF reply.cost > 0 THEN [bought EXCEPT ![email[t]] = @ + 1] ELSE bought
  BY DEF Answer, db
<1>2. AsksOwn /\ WritesOwn /\ BillsAccounted /\ email[t] \in Emails
  BY <1>1 DEF PaidInv, Paid, CostInv, TypeInv, InHand
<1>3. CASE Kept(reply)
  <2>1. pc' = [pc EXCEPT ![t] = "store"] /\ email' = email
    BY <1>3 DEF Answer
  <2>2. pc'[t] = "store" /\ \A u \in Tasks \ {t} : pc'[u] = pc[u]
    BY <2>1 DEF PaidInv, CostInv, TypeInv, TypeOK
  <2>3. AsksOwn' /\ WritesOwn'
    BY <1>1, <1>2, <2>1, <2>2 DEF AsksOwn, WritesOwn, Seen, Reach, Buying
  <2>4. ASSUME NEW e \in Emails, Accounted(e) PROVE e # email[t] /\ Accounted(e)'
    <3>1. e # email[t]
      <4>1. email[t] \in Reach(t) /\ t \notin Domainless /\ Seen(t, email[t]) = NoVerdict
        BY <1>1, <1>2 DEF AsksOwn, Buying
      <4>2. ASSUME NEW u \in Tasks, u # t, u \notin Domainless PROVE email[t] \notin Reach(u)
        BY <4>1, <4>2 DEF NoLoss, DomainsApart
      <4>3. verdict[email[t]] = NoVerdict /\ written[t][email[t]] = NoVerdict
        BY <4>1 DEF Seen
      <4>4. ASSUME NEW u \in Tasks PROVE written[u][email[t]] = NoVerdict
        BY <1>2, <4>2, <4>3 DEF WritesOwn
      <4>5. ASSUME NEW u \in Tasks, pc[u] \in {"store", "insert"} PROVE email[u] # email[t]
        BY <1>1, <1>2, <4>2, <4>5 DEF AsksOwn, Buying
      <4>6. ~Accounted(email[t])
        BY <4>3, <4>4, <4>5 DEF Accounted
      <4>7. QED BY <2>4, <4>6
    <3>2. QED BY <1>1, <2>1, <2>2, <2>4, <3>1 DEF Accounted
  <2>5. \A e \in Emails : e = email[t] => Accounted(e)'
    BY <2>1, <2>2 DEF Accounted
  <2>6. \A e \in Emails : bought'[e] = bought[e] \/ (e = email[t] /\ bought'[e] = bought[e] + 1)
    BY <1>1 DEF PaidInv, CostInv, TypeInv, TypeOK
  <2>7. ASSUME NEW e \in Emails PROVE bought'[e] = 0 \/ (bought'[e] = 1 /\ Accounted(e)')
    <3>1. CASE e = email[t]
      <4>1. bought[e] = 0
        BY <1>2, <2>4, <3>1 DEF BillsAccounted
      <4>2. QED BY <2>5, <2>6, <3>1, <4>1
    <3>2. CASE e # email[t]
      BY <1>2, <2>4, <2>6, <3>2 DEF BillsAccounted
    <3>3. QED BY <3>1, <3>2
  <2>8. QED BY <2>3, <2>7 DEF BillsAccounted
<1>4. CASE ~Kept(reply)
  <2>1. reply.cost = 0 /\ Got(t, email[t], reply.status)
    BY <1>4, RunAssumption DEF Answer, Kept
  <2>2. bought' = bought
    BY <1>1, <2>1
  <2>3. \A u \in Tasks : (pc'[u] = pc[u] /\ email'[u] = email[u]) \/ (u = t /\ pc'[u] \in {"touch", "open"})
    BY <2>1 DEF Got, Prepared, PaidInv, CostInv, TypeInv, TypeOK
  <2>4. QED BY <1>1, <2>2, <2>3, QuietPaid DEF Buying
<1>5. QED BY <1>3, <1>4

(* The INSERT finds the key free, and the verdict is in the task's transaction. *)
LEMMA InsertPaid ==
  ASSUME PaidInv, NoLoss, NEW t \in Tasks, Insert(t)
  PROVE  (AsksOwn /\ WritesOwn /\ BillsAccounted)'
<1>1. PICK e \in Emails : /\ e = email[t] /\ pc[t] = "insert" /\ answer[t] # NoVerdict
                          /\ e \in Reach(t) /\ t \notin Domainless /\ Seen(t, e) = NoVerdict
  BY DEF Insert, PaidInv, Paid, AsksOwn, Buying, CostInv, TypeInv, InHand, Storable, Verdicts, NoVerdict
<1>2. ~KeyTaken(email[t])
  BY <1>1 DEF KeyTaken, Seen
<1>3. /\ written' = [written EXCEPT ![t] = [written[t] EXCEPT ![e] = answer[t]]]
      /\ Got(t, e, answer[t]) /\ UNCHANGED <<verdict, bought>>
  BY <1>1, <1>2 DEF Insert, db, history
<1>4. /\ pc'[t] \in {"touch", "open"}
      /\ \A u \in Tasks \ {t} : pc'[u] = pc[u] /\ email'[u] = email[u]
  BY <1>3 DEF Got, Prepared, PaidInv, CostInv, TypeInv, TypeOK
<1>5. written'[t][e] # NoVerdict
  BY <1>1, <1>3 DEF PaidInv, CostInv, TypeInv, TypeOK
<1>6. \A u \in Tasks, f \in Emails : written'[u][f] = written[u][f] \/ (u = t /\ f = e)
  BY <1>3 DEF PaidInv, CostInv, TypeInv, TypeOK
<1>7. \A u \in Tasks \ {t} : written'[u] = written[u]
  BY <1>3 DEF PaidInv, CostInv, TypeInv, TypeOK
<1>8. AsksOwn'
  BY <1>3, <1>4, <1>7 DEF PaidInv, Paid, AsksOwn, Seen, Reach, Buying
<1>9. WritesOwn'
  BY <1>1, <1>6 DEF PaidInv, Paid, WritesOwn, Reach
<1>10. ASSUME NEW f \in Emails, Accounted(f) PROVE Accounted(f)'
  <2>1. CASE f = e
    BY <1>5, <2>1 DEF Accounted
  <2>2. CASE f # e
    BY <1>1, <1>3, <1>4, <1>6, <1>10, <2>2 DEF Accounted
  <2>3. QED BY <2>1, <2>2
<1>11. BillsAccounted'
  BY <1>3, <1>10 DEF PaidInv, Paid, BillsAccounted
<1>12. QED BY <1>8, <1>9, <1>11

LEMMA CommitPaid ==
  ASSUME PaidInv, NoLoss, NEW t \in Tasks, Commit(t)
  PROVE  (AsksOwn /\ WritesOwn /\ BillsAccounted)'
<1>1. /\ verdict' = [e \in Emails |-> Seen(t, e)] /\ written' = [written EXCEPT ![t] = Nothing]
      /\ pc' = [pc EXCEPT ![t] = exit[t]] /\ email' = [email EXCEPT ![t] = NoEmail]
      /\ pc[t] = "commit" /\ bought' = bought /\ exit[t] \in {"done", "ceiling"}
  BY DEF Commit, Merged, CloseSession, history, PaidInv, CostInv, TypeInv, TypeOK
<1>2. AsksOwn /\ WritesOwn /\ BillsAccounted
  BY DEF PaidInv, Paid
<1>3. /\ pc'[t] \notin Buying /\ written'[t] = Nothing
      /\ \A u \in Tasks \ {t} : pc'[u] = pc[u] /\ email'[u] = email[u] /\ written'[u] = written[u]
  BY <1>1 DEF PaidInv, CostInv, TypeInv, TypeOK, Buying
<1>4. ASSUME NEW u \in Tasks, pc'[u] \in Buying, NEW e, e = email'[u]
      PROVE  e \in Reach(u) /\ u \notin Domainless /\ Seen(u, e)' = NoVerdict
  <2>1. u # t /\ e = email[u] /\ pc[u] \in Buying
    BY <1>3, <1>4
  <2>2. e \in Reach(u) /\ u \notin Domainless /\ Seen(u, e) = NoVerdict /\ e \in Emails
    BY <1>2, <2>1 DEF AsksOwn, PaidInv, CostInv, TypeInv, InHand, Buying
  <2>3. written[t][e] = NoVerdict
    BY <1>2, <2>1, <2>2 DEF WritesOwn, NoLoss, DomainsApart
  <2>4. verdict'[e] = verdict[e]
    BY <1>1, <2>2, <2>3 DEF Seen
  <2>5. QED BY <1>3, <2>1, <2>2, <2>4 DEF Seen
<1>5. AsksOwn'
  BY <1>4 DEF AsksOwn, Reach, Seen
<1>6. WritesOwn'
  BY <1>2, <1>3 DEF WritesOwn, Nothing, Reach
<1>7. ASSUME NEW e \in Emails, Accounted(e) PROVE Accounted(e)'
  BY <1>1, <1>3, <1>7 DEF Accounted, Seen
<1>8. BillsAccounted'
  BY <1>1, <1>2, <1>7 DEF BillsAccounted
<1>9. QED BY <1>5, <1>6, <1>8

LEMMA PaidNext == ASSUME PaidInv, [Next]_vars, NoLoss' PROVE (AsksOwn /\ WritesOwn /\ BillsAccounted)'
<1>0. NoLoss
  BY LossStays DEF PaidInv, CostInv
<1>1. ASSUME NEW r \in Runs, Execute(r) PROVE (AsksOwn /\ WritesOwn /\ BillsAccounted)'
  <2>1. /\ ~live[r] /\ UNCHANGED <<verdict, written, bought, email>>
        /\ \A t \in Tasks : RunOf[t] # r => pc'[t] = pc[t]
        /\ \A t \in Tasks : RunOf[t] = r => pc'[t] \in {"queued", "idle"}
    BY <1>1 DEF Execute
  <2>2. \A t \in Tasks : RunOf[t] = r => pc[t] = "idle"
    BY <2>1 DEF PaidInv, CostInv, TasksLive
  <2>3. QED BY <1>0, <2>1, <2>2, QuietPaid DEF Buying
<1>2. ASSUME NEW r \in Runs, End(r) \/ EndFails(r) PROVE (AsksOwn /\ WritesOwn /\ BillsAccounted)'
  <2>1. /\ UNCHANGED <<verdict, written, bought, email>>
        /\ \A t \in TasksOf(r) : pc[t] \in TaskEnds \cup {"idle"}
        /\ \A t \in Tasks : pc'[t] = IF RunOf[t] = r THEN "idle" ELSE pc[t]
    BY <1>2 DEF End, EndFails, Gathered, Leave
  <2>2. \A t \in Tasks : RunOf[t] = r => pc[t] \notin Buying /\ pc'[t] = "idle"
    BY <2>1 DEF TasksOf, TaskEnds, Buying
  <2>3. QED BY <1>0, <2>1, <2>2, QuietPaid DEF Buying
<1>3. ASSUME NEW t \in Tasks,
             \/ MissingDomain(t) \/ Enter(t) \/ SkipProbe(t) \/ Gate(t) \/ Touch(t) \/ Finish(t)
             \/ \E p \in People : Pick(t, p)
             \/ \E s \in RowStatuses : Resolve(t, s)
      PROVE  (AsksOwn /\ WritesOwn /\ BillsAccounted)'
  <2>1. UNCHANGED <<verdict, written, bought, email>>
    BY <1>3 DEF MissingDomain, Enter, SkipProbe, Gate, Touch, Finish, Pick, Resolve, db, history
  <2>2. \/ pc' = pc
        \/ /\ pc[t] \in {"queued", "open", "gate", "touch"}
           /\ \E place \in {"done", "open", "touch", "commit"} : pc' = [pc EXCEPT ![t] = place]
        \/ pc[t] = "gate" /\ pc' = [pc EXCEPT ![t] = "call"]
    BY <1>3 DEF MissingDomain, Enter, SkipProbe, Prepared, Gate, Touch, Finish, Pick, Resolve
  <2>3. QED
    BY <1>0, <2>1, <2>2, QuietPaid DEF PaidInv, CostInv, TypeInv, TypeOK, Buying
<1>4. ASSUME NEW t \in Tasks, Store(t) PROVE (AsksOwn /\ WritesOwn /\ BillsAccounted)'
  <2>1. Seen(t, email[t]) = NoVerdict
    BY <1>0, <1>4 DEF Store, PaidInv, Paid, AsksOwn, Buying
  <2>2. /\ pc' = [pc EXCEPT ![t] = "insert"] /\ pc[t] = "store"
        /\ UNCHANGED <<verdict, written, bought, email>>
    BY <1>4, <2>1 DEF Store, db, history
  <2>3. QED
    BY <1>0, <2>2, QuietPaid DEF PaidInv, CostInv, TypeInv, TypeOK, Buying
<1>5. ASSUME NEW t \in Tasks, Victim(t) PROVE FALSE
  BY <1>0, <1>5, NoDeadlock DEF Victim
<1>6. ASSUME NEW t \in Tasks, Fail(t) PROVE FALSE
  BY <1>6 DEF Fail, NoLoss, PaidInv, CostInv, TypeInv, TypeOK
<1>7. CASE Crash
  BY <1>7 DEF Crash, NoLoss
<1>8. CASE UNCHANGED vars
  BY <1>0, <1>8, QuietPaid DEF vars, db, session, history
<1>9. QED
  BY <1>0, <1>1, <1>2, <1>3, <1>4, <1>5, <1>6, <1>7, <1>8, LookupPaid, AnswerPaid, InsertPaid,
     CommitPaid DEF Next, TaskStep

(* No address is paid for twice in a run that loses no transaction, whatever its
   domains, their order, the ceiling stops and the executions (verify_email and
   store_verdict, engine.py 106-152): what was paid for is stored before anyone asks
   again, and no deadlock takes it away. *)
THEOREM PaidForOnce == Spec => []BoughtOnce
<1>1. PaidInv /\ [Next]_vars => PaidInv'
  <2>1. ASSUME PaidInv, [Next]_vars PROVE PaidInv'
    <3>1. CostInv' /\ BackedInv'
      BY <2>1, CostNext, TypeNext, RowsNext, BackedNext DEF PaidInv, BackedInv, RowsInv, Backed
    <3>2. OneHolder' /\ Paid'
      BY <2>1, OneHolderNext, PaidNext DEF PaidInv, CostInv, Paid
    <3>3. QED BY <3>1, <3>2 DEF PaidInv
  <2>2. QED BY <2>1
<1>2. PaidInv => BoughtOnce
  BY DEF PaidInv, Paid, NoLoss, BillsAccounted, BoughtOnce
<1>3. QED BY PaidInit, <1>1, <1>2, PTL DEF Spec

(***************************************************************************)
(* The life of a run                                                       *)
(***************************************************************************)

(* A run that is executed shows that it is: the rows that its domains commit are
   settled under that status. *)
LiveRunning == \A r \in Runs : live[r] => runStatus[r] = "running"

LifeInv == CostInv /\ LoadedRows /\ LiveRunning

Open == [r \in Runs |-> Remaining(r)]
LifeStep == [Lifecycle!Next]_<<runStatus, Open>>

USE DEF Pending, Terminal, RowStatuses, InDomain

LEMMA LifeInit == Init => LifeInv /\ Lifecycle!Init
<1> SUFFICES ASSUME Init PROVE LifeInv /\ Lifecycle!Init
  OBVIOUS
<1>1. LoadedRows /\ LiveRunning
  BY DEF Init, LoadedRows, LiveRunning
<1>2. Lifecycle!Init
  BY DEF Init, Lifecycle!Init
<1>3. QED BY CostInit, <1>1, <1>2 DEF LifeInv

(* Whoever leaves the rows alone leaves what is open alone. *)
LEMMA SameOpen == ASSUME people' = people PROVE Open' = Open
BY DEF Open, Remaining, TasksOf

(* A domain's commit, and the rows without a domain: only the rows of the task
   change, and of these only the ones that have no outcome. *)
LEMMA SettleStep ==
  ASSUME LifeInv, NEW t \in Tasks, pc[t] # "idle", UNCHANGED <<runStatus, live>>,
         \A p \in People \ PeopleOf[t] : people'[p] = people[p],
         \A p \in People : people[p] \in Terminal => people'[p] = people[p]
  PROVE  LifeStep /\ LiveRunning'
<1>1. RunOf[t] \in Runs /\ runStatus[RunOf[t]] = "running"
  BY RunAssumption DEF LifeInv, LiveRunning, CostInv, TasksLive
<1>2. Remaining(RunOf[t])' \subseteq Remaining(RunOf[t])
  BY RunAssumption DEF Remaining, TasksOf, LifeInv, CostInv, TypeInv, TypeOK
<1>3. ASSUME NEW r \in Runs, r # RunOf[t] PROVE Remaining(r)' = Remaining(r)
  <2>1. \A u \in TasksOf(r) : \A p \in PeopleOf[u] : p \in People /\ people'[p] = people[p]
    BY <1>3, RunAssumption DEF TasksOf
  <2>2. QED BY <2>1 DEF Remaining, TasksOf
<1>4. Open' = [Open EXCEPT ![RunOf[t]] = Open'[RunOf[t]]]
  BY <1>1, <1>3 DEF Open
<1>5. Lifecycle!Settle(RunOf[t])
  <2>1. Open'[RunOf[t]] \subseteq Open[RunOf[t]]
    BY <1>1, <1>2 DEF Open
  <2>2. QED BY <1>1, <1>4, <2>1 DEF Lifecycle!Settle, Open
<1>6. LifeStep
  BY <1>1, <1>5 DEF LifeStep, Lifecycle!Next
<1>7. QED BY <1>6 DEF LifeInv, LiveRunning

LEMMA ExecuteStep ==
  ASSUME LifeInv, NEW r \in Runs, Execute(r) PROVE LifeStep /\ LiveRunning'
<1>1. /\ runStatus' = [runStatus EXCEPT ![r] = "running"]
      /\ live' = [live EXCEPT ![r] = TRUE] /\ people' = people
      /\ runStatus[r] # "completed"
  BY DEF Execute
<1>2. Lifecycle!Execute(r)
  BY <1>1, SameOpen DEF Lifecycle!Execute, Open
<1>3. LiveRunning'
  BY <1>1 DEF LifeInv, LiveRunning, CostInv, TypeInv, TypeOK
<1>4. QED BY <1>2, <1>3 DEF LifeStep, Lifecycle!Next

(* The outcome is true of the rows as the last commit has left them. *)
LEMMA EndStep == ASSUME LifeInv, NEW r \in Runs, End(r) PROVE LifeStep /\ LiveRunning'
<1>1. /\ live[r] /\ live' = [live EXCEPT ![r] = FALSE] /\ people' = people
      /\ runStatus' = [runStatus EXCEPT ![r] = Outcome(r)]
  BY DEF End, Gathered, Leave
<1>2. /\ Outcome(r) \in RunEnds
      /\ Outcome(r) = "completed" => Remaining(r) = {}
      /\ Outcome(r) = "failed" => Remaining(r) # {}
  BY DEF Outcome, RunEnds
<1>3. Lifecycle!Finish(r)
  <2>1. runStatus[r] = "running" /\ Open[r] = Remaining(r)
    BY <1>1 DEF LifeInv, LiveRunning, Open
  <2>2. QED BY <1>1, <1>2, <2>1, SameOpen DEF Lifecycle!Finish, Lifecycle!RunEnds, RunEnds, Open
<1>4. LiveRunning'
  BY <1>1 DEF LifeInv, LiveRunning, CostInv, TypeInv, TypeOK
<1>5. QED BY <1>3, <1>4 DEF LifeStep, Lifecycle!Next

LEMMA LifeNext == ASSUME LifeInv, [Next]_vars PROVE LifeStep /\ LiveRunning'
<1>0. ASSUME UNCHANGED <<runStatus, people>>, \A r \in Runs : live'[r] => live[r]
      PROVE  LifeStep /\ LiveRunning'
  BY <1>0, SameOpen DEF LifeStep, LifeInv, LiveRunning
<1>1. ASSUME NEW r \in Runs, Execute(r) \/ End(r) \/ EndFails(r) PROVE LifeStep /\ LiveRunning'
  <2>1. CASE EndFails(r)
    <3>1. UNCHANGED <<runStatus, people>> /\ \A s \in Runs : live'[s] => live[s]
      BY <2>1 DEF EndFails, Leave, LifeInv, CostInv, TypeInv, TypeOK
    <3>2. QED BY <1>0, <3>1
  <2>2. QED BY <1>1, <2>1, ExecuteStep, EndStep
<1>2. ASSUME NEW t \in Tasks, MissingDomain(t) \/ Commit(t) PROVE LifeStep /\ LiveRunning'
  <2>1. pc[t] # "idle" /\ UNCHANGED <<runStatus, live>>
    BY <1>2 DEF MissingDomain, Commit, tracker
  <2>2. \A p \in People \ PeopleOf[t] : people'[p] = people[p]
    BY <1>2 DEF MissingDomain, Unfinished, Commit, RowsAfter
  <2>3. \A p \in People : people[p] \in Terminal => people'[p] = people[p]
    BY RowsNext DEF LifeInv, CostInv, RowsInv
  <2>4. QED BY <2>1, <2>2, <2>3, SettleStep
<1>3. ASSUME NEW t \in Tasks, TaskStep(t) \/ Fail(t), ~MissingDomain(t), ~Commit(t)
      PROVE  UNCHANGED <<runStatus, people, live>>
  BY <1>3 DEF TaskStep, Enter, SkipProbe, Pick, Lookup, Gate, Answer, Store, Insert, Touch,
     Victim, Resolve, Finish, Fail, db, tracker
<1>4. CASE Crash
  BY <1>0, <1>4 DEF Crash, db
<1>5. CASE UNCHANGED vars
  BY <1>0, <1>5 DEF vars, db, tracker
<1>6. QED
  BY <1>0, <1>1, <1>2, <1>3, <1>4, <1>5 DEF Next

(* Whatever mixture of domain commits, rollbacks, ceiling stops, crashes and second
   executions a run goes through (execute_run, engine.py 947-1057): its rows are
   only settled while it is `running`, never opened again, and never by another
   run; `completed` is final and true, and `failed` is true. *)
THEOREM RunsKeepLifecycle == Spec => KeepsLifecycle
<1>1. Init => LifeInv /\ Lifecycle!Init
  BY LifeInit
<1>2. LifeInv /\ [Next]_vars => LifeInv'
  BY CostNext, RowsNext, LifeNext DEF LifeInv, CostInv, RowsInv
<1>3. LifeInv /\ [Next]_vars => [Lifecycle!Next]_<<runStatus, [r \in Runs |-> Remaining(r)]>>
  BY LifeNext DEF LifeStep, Open
<1>4. QED BY <1>1, <1>2, <1>3, PTL DEF Spec, KeepsLifecycle, Lifecycle!Spec
===============================================================================
