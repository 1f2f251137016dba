--------------------------- MODULE PatternMemoryProofs ---------------------------
(***************************************************************************)
(* Theorems about PatternMemory, for any number of sessions and formats    *)
(* and any threshold.  One inductive invariant in three parts: how the     *)
(* versions of the row hang together (Linked), what bounds the confidence  *)
(* of each of them (Backed), and what a quiet run adds (Quietly).          *)
(***************************************************************************)
EXTENDS PatternMemory, FoldLemmas

-------------------------------------------------------------------------------
(* The inductive invariant *)

(* The row as session s would find it. *)
Now(s) == IF holder = s THEN uncommitted ELSE row

(* b is there when a is, and knows a format when a does. *)
NoLess(a, b) ==
  a # NoRow => b # NoRow /\ (a.pattern # NoPattern => b.pattern # NoPattern)

(* Where a session has confirmed nobody yet. *)
Places == {"idle", "known", "probe", "probing", "found"}
Preparing(s) == pc[s] \in Places \/ (pc[s] = "flush" /\ after[s] \in Places)

(* A format is never forgotten: not by a session's changes, not by its flush,
   not by its commit.  The lock's holder has written. *)
LinkedAt(s) ==
  /\ NoLess(base[s], view[s])
  /\ NoLess(base[s], Now(s))
  /\ holder = s => base[s] # NoRow /\ NoLess(row, uncommitted)
  /\ pc[s] = "idle" => view[s] = NoRow /\ base[s] = NoRow
  /\ pc[s] = "flush" => after[s] # "idle" /\ view[s] # NoRow
  /\ Preparing(s) => myHits[s] = NoHits

Linked == \A s \in Sessions : LinkedAt(s)

(* The confirmations session s knows of. *)
Known(s) == SumFunction(hits) + SumFunction(myHits[s])

BackedBy(r, n) == r # NoRow => r.conf <= n /\ (r.conf > 0 => r.pattern # NoPattern)

Backed ==
  /\ BackedBy(row, SumFunction(hits))
  /\ \A s \in Sessions : BackedBy(view[s], Known(s))
  /\ \A s \in Sessions : holder = s => BackedBy(uncommitted, Known(s))

(* In a quiet run: a copy is what the row will be, its confidence is not above
   the confirmations of its own format, and when its format is not the row's,
   not above those of this session. *)
EarnedBy(r, h) == r # NoRow /\ r.pattern # NoPattern => r.conf <= h[r.pattern]

Together(s) == [p \in Patterns |-> hits[p] + myHits[s][p]]

GoodFor(r, s) ==
  /\ EarnedBy(r, Together(s))
  /\ row # NoRow /\ r # NoRow /\ r.pattern # row.pattern => EarnedBy(r, myHits[s])

QuietAt(s) ==
  /\ base[s] # NoRow => base[s] = Now(s)
  /\ base[s] = NoRow /\ view[s] # NoRow => row = NoRow
  /\ GoodFor(view[s], s) /\ GoodFor(base[s], s)

Quietly ==
  quiet =>
    /\ \A s, t \in Sessions : pc[s] # "idle" /\ pc[t] # "idle" => s = t
    /\ EarnedBy(row, hits)
    /\ \A s \in Sessions : QuietAt(s)

Inv == TypeOK /\ Linked /\ Backed /\ Quietly

-------------------------------------------------------------------------------
(* What patterns.py makes of a copy *)

Copy == Rows \cup {NoRow}

(* Each helper returns a row. *)
LEMMA HelpersType ==
  ASSUME NEW r \in Copy, NEW p \in Patterns
  PROVE  WithHit(r, p) \in Rows /\ WithHint(r, p) \in Rows
<1>1. r = NoRow \/ r \in Rows
  BY DEF Copy
<1>2. WithHit(r, p) \in Rows
  <2>1. CASE r = NoRow
    BY <2>1, RowAssumption DEF WithHit, Rows
  <2>2. CASE r \in Rows
    <3>1. Less1(r.conf) \in Nat /\ r.conf + 1 \in Nat
      BY <2>2 DEF Less1, Rows
    <3>2. r # NoRow
      BY <2>2, RowAssumption
    <3>3. QED BY <2>2, <3>1, <3>2 DEF WithHit, Rows
  <2>3. QED BY <1>1, <2>1, <2>2
<1>3. WithHint(r, p) \in Rows
  BY <1>1, RowAssumption DEF WithHint, Rows
<1>4. QED BY <1>2, <1>3

LEMMA CatchallType ==
  ASSUME NEW r \in Copy, NEW b \in BOOLEAN
  PROVE  WithCatchall(r, b) \in Rows
BY RowAssumption DEF WithCatchall, Rows, Copy

(* A row is not the absence of one. *)
LEMMA RowsAreRows ==
  \A r \in Rows : /\ r # NoRow /\ r.conf \in Nat /\ r.pattern \in Patterns \cup {NoPattern}
                 /\ DOMAIN r = {"pattern", "conf", "catchall", "fresh"}
BY RowAssumption DEF Rows

(* A format is only ever replaced by another one. *)
LEMMA HelpersNoLess ==
  ASSUME NEW r \in Copy, NEW p \in Patterns
  PROVE  NoLess(r, WithHit(r, p)) /\ NoLess(r, WithHint(r, p))
<1>1. CASE r = NoRow
  BY <1>1 DEF NoLess
<1>2. CASE r \in Rows
  <2>1. WithHit(r, p).pattern \in {r.pattern, p}
    BY <1>2, RowsAreRows DEF WithHit, Rows
  <2>2. WithHint(r, p).pattern \in {r.pattern, p}
    BY <1>2, RowsAreRows DEF WithHint, Rows
  <2>3. QED BY <2>1, <2>2, HelpersType, RowsAreRows, RowAssumption DEF NoLess
<1>3. QED BY <1>1, <1>2 DEF Copy

LEMMA CatchallNoLess ==
  ASSUME NEW r \in Copy, NEW b \in BOOLEAN
  PROVE  NoLess(r, WithCatchall(r, b))
<1>1. CASE r = NoRow
  BY <1>1 DEF NoLess
<1>2. CASE r \in Rows
  <2>1. WithCatchall(r, b).pattern = r.pattern
    BY <1>2, RowsAreRows DEF WithCatchall, Rows
  <2>2. QED BY <2>1, CatchallType, RowsAreRows DEF NoLess
<1>3. QED BY <1>1, <1>2 DEF Copy

(* A hit adds one to what bounds the confidence; the other helpers nothing. *)
LEMMA HelpersBacked ==
  ASSUME NEW r \in Copy, NEW p \in Patterns, NEW n \in Nat, BackedBy(r, n)
  PROVE  BackedBy(WithHit(r, p), n + 1) /\ BackedBy(WithHint(r, p), n)
<1>1. CASE r = NoRow
  <2>1. BackedBy(WithHit(r, p), n + 1)
    BY <1>1, RowAssumption DEF BackedBy, WithHit
  <2>2. BackedBy(WithHint(r, p), n)
    BY <1>1, RowAssumption DEF BackedBy, WithHint
  <2>3. QED BY <2>1, <2>2
<1>2. CASE r \in Rows
  <2>1. r.conf \in Nat /\ r.conf <= n /\ r # NoRow /\ (r.conf > 0 => r.pattern # NoPattern)
    BY <1>2, RowsAreRows DEF BackedBy
  <2>2. BackedBy(WithHit(r, p), n + 1)
    BY <1>2, <2>1, RowAssumption DEF BackedBy, WithHit, Less1, Rows
  <2>3. BackedBy(WithHint(r, p), n)
    BY <1>2, <2>1, RowAssumption DEF BackedBy, WithHint, Rows
  <2>4. QED BY <2>2, <2>3
<1>3. QED BY <1>1, <1>2 DEF Copy

LEMMA CatchallBacked ==
  ASSUME NEW r \in Copy, NEW b \in BOOLEAN, NEW n \in Nat, BackedBy(r, n)
  PROVE  BackedBy(WithCatchall(r, b), n)
<1>1. CASE r = NoRow
  BY <1>1, RowAssumption DEF BackedBy, WithCatchall
<1>2. CASE r \in Rows
  <2>1. r # NoRow
    BY <1>2, RowAssumption
  <2>2. QED BY <1>2, <2>1, RowAssumption DEF BackedBy, WithCatchall, Rows
<1>3. QED BY <1>1, <1>2 DEF Copy

-------------------------------------------------------------------------------
(* Types *)

(* Got and GotBase are copies. *)
LEMMA GotType ==
  ASSUME TypeOK, NEW s \in Sessions
  PROVE  Got(s) \in Copy /\ GotBase(s) \in Copy
BY DEF TypeOK, Got, GotBase, Copy

LEMMA TypeInit == Init => TypeOK
BY PatternAssumption, RowAssumption DEF Init, TypeOK, PCs, NoHits

(* The columns of an UPDATE form a row. *)
LEMMA UpdatedType ==
  ASSUME TypeOK, NEW s \in Sessions, Now(s) \in Rows, view[s] \in Rows
  PROVE  /\ Updated(s) \in Rows
         /\ \A f \in {"pattern", "conf", "catchall", "fresh"} :
              Updated(s)[f] = IF view[s][f] # base[s][f] THEN view[s][f] ELSE Now(s)[f]
<1>1. DOMAIN Now(s) = {"pattern", "conf", "catchall", "fresh"}
  BY RowsAreRows
<1>2. Updated(s) = [f \in {"pattern", "conf", "catchall", "fresh"} |->
                      IF view[s][f] # base[s][f] THEN view[s][f] ELSE Now(s)[f]]
  BY <1>1 DEF Updated, Now
<1>3. /\ Updated(s).pattern \in Patterns \cup {NoPattern} /\ Updated(s).conf \in Nat
      /\ Updated(s).catchall \in BOOLEAN /\ Updated(s).fresh \in BOOLEAN
  BY <1>2 DEF Rows
<1>4. Updated(s) = [pattern |-> Updated(s).pattern, conf |-> Updated(s).conf,
                    catchall |-> Updated(s).catchall, fresh |-> Updated(s).fresh]
  BY <1>2
<1>5. QED BY <1>2, <1>3, <1>4 DEF Rows

-------------------------------------------------------------------------------
(* The kinds of step.  All a session does before it flushes or ends is to take
   a copy of the row and to change that copy. *)

CopyStep(s, v) ==
  /\ UNCHANGED <<memory, sessions, expiries>>
  /\ view' = [view EXCEPT ![s] = v]
  /\ base' = [base EXCEPT ![s] = GotBase(s)]
  /\ pc[s] # "idle" /\ pc[s] # "flush"
  /\ \E n \in PCs \ {"idle"} : pc' = [pc EXCEPT ![s] = n]
  /\ \/ after' = after /\ pc'[s] # "flush"
     \/ v # NoRow /\ \E n \in PCs \ {"idle"} : after' = [after EXCEPT ![s] = n]
  /\ \E c \in {"nothing", "pattern", "deduced"} : cached' \in {cached, [cached EXCEPT ![s] = c]}
  /\ \E w \in BOOLEAN \cup {Unanswered} : newProbe' \in {newProbe, [newProbe EXCEPT ![s] = w]}
  /\ ops' \in {ops, [ops EXCEPT ![s] = @ + 1]}

(* It confirms nobody, and does so before anybody was confirmed if it is to go
   on preparing; or it confirms one person. *)
NoHitStep(s) == myHits' = myHits /\ (Preparing(s)' => Preparing(s))
Looks(s) == CopyStep(s, Got(s)) /\ NoHitStep(s) /\ quiet' = quiet
Writes(s) == \E b \in BOOLEAN : CopyStep(s, WithCatchall(Got(s), b)) /\ NoHitStep(s) /\ quiet' = quiet
Hints(s) == \E p \in Patterns : CopyStep(s, WithHint(Got(s), p)) /\ NoHitStep(s) /\ ~quiet' /\ quiet' \in BOOLEAN
Confirms(s) ==
  \E p \in Patterns :
    /\ CopyStep(s, WithHit(Got(s), p)) /\ ~Preparing(s)'
    /\ myHits' = [myHits EXCEPT ![s][p] = @ + 1] /\ quiet' = quiet

(* A change of the copy gives a row. *)
LEMMA CopyIsRow ==
  ASSUME TypeOK, NEW s \in Sessions
  PROVE  /\ \A p \in Patterns : WithHit(Got(s), p) # NoRow /\ WithHint(Got(s), p) # NoRow
         /\ \A b \in BOOLEAN : WithCatchall(Got(s), b) # NoRow
BY GotType, HelpersType, CatchallType, RowAssumption

(* remember_deduced_pattern only looks at a trusted row. *)
LEMMA RememberKinds ==
  ASSUME TypeOK, NEW s \in Sessions, NEW p \in Deduced, NEW n \in {"probe", "people"},
         Remember(s, p, n), UNCHANGED <<memory, newProbe, ops, myHits, sessions, expiries>>,
         cached' = cached \/ cached' = [cached EXCEPT ![s] = "deduced"],
         pc[s] \in {"known", "found"}
  PROVE  Looks(s) \/ Hints(s)
<1>1. Preparing(s) /\ p \in Patterns
  BY PatternAssumption DEF Preparing, Places
<1>2. CASE Trusted(Got(s)) # NoPattern
  <2>1. Read(s, n) /\ quiet' = quiet
    BY <1>2 DEF Remember
  <2>2. CopyStep(s, Got(s))
    BY <2>1 DEF CopyStep, Read, TypeOK, PCs
  <2>3. QED BY <1>1, <2>1, <2>2 DEF Looks, NoHitStep
<1>3. CASE Trusted(Got(s)) = NoPattern
  <2>1. Change(s, WithHint(Got(s), p), n) /\ quiet' = FALSE
    BY <1>3 DEF Remember
  <2>2. CopyStep(s, WithHint(Got(s), p))
    BY <1>1, <2>1, CopyIsRow DEF CopyStep, Change, TypeOK, PCs
  <2>3. QED BY <1>1, <2>1, <2>2 DEF Hints, NoHitStep
<1>4. QED BY <1>2, <1>3

(* Every step is of one of these kinds. *)
LEMMA StepKinds ==
  ASSUME TypeOK, Next
  PROVE  \/ \E s \in Sessions : \/ Looks(s) \/ Writes(s) \/ Hints(s) \/ Confirms(s)
                                \/ Begin(s) \/ Flush(s) \/ Commit(s) \/ StopEarly(s) \/ Rollback(s)
         \/ Expire
<1> USE PatternAssumption
<1>1. ASSUME NEW s \in Sessions, LoadKnown(s) PROVE Looks(s) \/ Hints(s)
  <2>1. CASE /\ Read(s, "probe") /\ quiet' = quiet
             /\ cached' = [cached EXCEPT ![s] =
                  IF Got(s) = NoRow THEN "nothing"
                  ELSE IF Got(s).pattern = NoPattern THEN "nothing" ELSE "pattern"]
    <3>1. CopyStep(s, Got(s))
      BY <1>1, <2>1 DEF LoadKnown, CopyStep, Read, TypeOK, PCs
    <3>2. Preparing(s)
      BY <1>1 DEF LoadKnown, Preparing, Places
    <3>3. QED BY <1>1, <2>1, <3>1, <3>2 DEF Looks, NoHitStep, LoadKnown
  <2>2. CASE (\E p \in Deduced : Remember(s, p, "probe")) /\ cached' = [cached EXCEPT ![s] = "deduced"]
    <3>1. PICK p \in Deduced : Remember(s, p, "probe")
      BY <2>2
    <3>2. QED BY <1>1, <2>2, <3>1, RememberKinds DEF LoadKnown
  <2>3. QED BY <1>1, <2>1, <2>2 DEF LoadKnown
<1>2. ASSUME NEW s \in Sessions, SkipProbe(s) PROVE Looks(s)
  <2>1. CopyStep(s, Got(s))
    BY <1>2 DEF SkipProbe, CopyStep, Read, TypeOK, PCs, bounds
  <2>2. Preparing(s)
    BY <1>2 DEF SkipProbe, Preparing, Places
  <2>3. QED BY <1>2, <2>1, <2>2 DEF Looks, NoHitStep, SkipProbe, bounds
<1>3. ASSUME NEW s \in Sessions, ProbeFromCache(s) PROVE Writes(s)
  <2>1. probe \in BOOLEAN /\ CopyStep(s, WithCatchall(Got(s), probe))
    BY <1>3, CopyIsRow DEF ProbeFromCache, CopyStep, Change, TypeOK, PCs, bounds
  <2>2. Preparing(s)
    BY <1>3 DEF ProbeFromCache, Preparing, Places
  <2>3. QED BY <1>3, <2>1, <2>2 DEF Writes, NoHitStep, ProbeFromCache, bounds
<1>4. ASSUME NEW s \in Sessions, ProbeVendor(s) PROVE Looks(s)
  <2>1. CopyStep(s, Got(s))
    BY <1>4 DEF ProbeVendor, CopyStep, Read, TypeOK, PCs, bounds
  <2>2. Preparing(s)
    BY <1>4 DEF ProbeVendor, Preparing, Places
  <2>3. QED BY <1>4, <2>1, <2>2 DEF Looks, NoHitStep, ProbeVendor, bounds
<1>5. ASSUME NEW s \in Sessions, ProbeAnswered(s) PROVE Writes(s)
  <2>1. PICK reply \in ProbeReplies :
          /\ Change(s, WithCatchall(Got(s), reply = TRUE), "found")
          /\ newProbe' = [newProbe EXCEPT ![s] = reply]
    BY <1>5 DEF ProbeAnswered
  <2>2. CopyStep(s, WithCatchall(Got(s), reply = TRUE))
    BY <1>5, <2>1, CopyIsRow DEF ProbeAnswered, CopyStep, Change, TypeOK, PCs, bounds
  <2>3. Preparing(s)
    BY <1>5 DEF ProbeAnswered, Preparing, Places
  <2>4. (reply = TRUE) \in BOOLEAN
    OBVIOUS
  <2>5. QED BY <1>5, <2>2, <2>3, <2>4 DEF Writes, NoHitStep, ProbeAnswered, bounds
<1>6. ASSUME NEW s \in Sessions, Conventions(s) PROVE Looks(s) \/ Hints(s)
  <2>1. CASE Read(s, "people") /\ quiet' = quiet
    <3>1. CopyStep(s, Got(s))
      BY <1>6, <2>1 DEF Conventions, CopyStep, Read, TypeOK, PCs
    <3>2. Preparing(s)
      BY <1>6 DEF Conventions, Preparing, Places
    <3>3. QED BY <1>6, <2>1, <3>1, <3>2 DEF Looks, NoHitStep, Conventions
  <2>2. CASE \E p \in Deduced : Remember(s, p, "people")
    <3>1. PICK p \in Deduced : Remember(s, p, "people")
      BY <2>2
    <3>2. QED BY <1>6, <3>1, RememberKinds DEF Conventions
  <2>3. QED BY <1>6, <2>1, <2>2 DEF Conventions
<1>7. ASSUME NEW s \in Sessions, NEW p \in Patterns, Hit(s, p) PROVE Confirms(s)
  <2>1. CopyStep(s, WithHit(Got(s), p))
    BY <1>7, CopyIsRow DEF Hit, CopyStep, Change, TypeOK, PCs, bounds
  <2>2. ~Preparing(s)'
    BY <1>7 DEF Hit, Change, Preparing, Places, TypeOK
  <2>3. QED BY <1>7, <2>1, <2>2 DEF Confirms, Hit, bounds
<1>8. ASSUME NEW s \in Sessions, NEW p \in Patterns, Seed(s, p) PROVE Confirms(s)
  <2>1. CopyStep(s, WithHit(Got(s), p))
    BY <1>8, CopyIsRow DEF Seed, CopyStep, Change, TypeOK, PCs, bounds
  <2>2. ~Preparing(s)'
    BY <1>8 DEF Seed, Change, Preparing, Places, TypeOK
  <2>3. QED BY <1>8, <2>1, <2>2 DEF Confirms, Seed, bounds
<1>9. ASSUME NEW s \in Sessions, Observe(s) PROVE Writes(s)
  <2>1. CopyStep(s, WithCatchall(Got(s), TRUE))
    BY <1>9, CopyIsRow DEF Observe, CopyStep, Change, TypeOK, PCs, bounds
  <2>2. ~Preparing(s)'
    BY <1>9 DEF Observe, Change, Preparing, Places, TypeOK
  <2>3. QED BY <1>9, <2>1, <2>2 DEF Writes, NoHitStep, Observe, bounds
<1>10. QED
  BY <1>1, <1>2, <1>3, <1>4, <1>5, <1>6, <1>7, <1>8, <1>9 DEF Next, Work

-------------------------------------------------------------------------------
(* Types are kept *)

LEMMA CopyType ==
  ASSUME TypeOK, NEW s \in Sessions, NEW v \in Copy, CopyStep(s, v)
  PROVE  /\ row' = row /\ uncommitted' = uncommitted /\ holder' = holder
         /\ probe' = probe /\ hits' = hits
         /\ view' \in [Sessions -> Copy] /\ base' \in [Sessions -> Copy]
         /\ pc' \in [Sessions -> PCs] /\ after' \in [Sessions -> PCs]
         /\ cached' \in [Sessions -> {"nothing", "pattern", "deduced"}]
         /\ newProbe' \in [Sessions -> BOOLEAN \cup {Unanswered}]
         /\ ops' \in [Sessions -> Nat]
         /\ sessions' = sessions /\ expiries' = expiries
<1>1. GotBase(s) \in Copy
  BY GotType
<1>2. ops' \in [Sessions -> Nat]
  BY DEF CopyStep, TypeOK
<1>3. view' \in [Sessions -> Copy] /\ base' \in [Sessions -> Copy]
  BY <1>1 DEF CopyStep, TypeOK, Copy
<1>4. pc' \in [Sessions -> PCs] /\ after' \in [Sessions -> PCs]
  BY DEF CopyStep, TypeOK
<1>5. cached' \in [Sessions -> {"nothing", "pattern", "deduced"}]
  BY DEF CopyStep, TypeOK
<1>6. newProbe' \in [Sessions -> BOOLEAN \cup {Unanswered}]
  BY DEF CopyStep, TypeOK
<1>7. QED BY <1>2, <1>3, <1>4, <1>5, <1>6 DEF CopyStep, memory

(* A session that ends leaves things of the right type. *)
LEMMA CloseType ==
  ASSUME TypeOK, NEW s \in Sessions, Close(s)
  PROVE  /\ uncommitted' \in Copy /\ holder' \in Sessions \cup {NoSession}
         /\ pc' \in [Sessions -> PCs] /\ after' \in [Sessions -> PCs]
         /\ view' \in [Sessions -> Copy] /\ base' \in [Sessions -> Copy]
         /\ cached' \in [Sessions -> {"nothing", "pattern", "deduced"}]
         /\ newProbe' \in [Sessions -> BOOLEAN \cup {Unanswered}]
         /\ ops' \in [Sessions -> Nat] /\ myHits' \in [Sessions -> [Patterns -> Nat]]
<1>1. holder' \in Sessions \cup {NoSession}
  BY DEF Close, HolderAfter, TypeOK
<1>2. NoHits \in [Patterns -> Nat]
  BY DEF NoHits
<1>3. myHits' \in [Sessions -> [Patterns -> Nat]]
  BY <1>2 DEF Close, TypeOK
<1>4. QED BY <1>1, <1>3 DEF Close, TypeOK, PCs, Copy

LEMMA TypeStep == TypeOK /\ Linked /\ [Next]_vars => TypeOK'
<1> SUFFICES ASSUME TypeOK, Linked, [Next]_vars PROVE TypeOK'
  OBVIOUS
<1> USE DEF Copy
<1>1. ASSUME NEW s \in Sessions, NEW v \in Copy, CopyStep(s, v),
             myHits' \in [Sessions -> [Patterns -> Nat]], quiet' \in BOOLEAN
      PROVE  TypeOK'
  BY <1>1, CopyType DEF TypeOK
<1>2. ASSUME NEW s \in Sessions, Looks(s) PROVE TypeOK'
  BY <1>1, <1>2, GotType DEF Looks, NoHitStep, TypeOK
<1>3. ASSUME NEW s \in Sessions, Writes(s) PROVE TypeOK'
  <2>1. PICK b \in BOOLEAN : CopyStep(s, WithCatchall(Got(s), b)) /\ myHits' = myHits /\ quiet' = quiet
    BY <1>3 DEF Writes, NoHitStep
  <2>2. WithCatchall(Got(s), b) \in Copy
    BY <2>1, GotType, CatchallType
  <2>3. QED BY <1>1, <2>1, <2>2 DEF TypeOK
<1>4. ASSUME NEW s \in Sessions, Hints(s) PROVE TypeOK'
  <2>1. PICK p \in Patterns : CopyStep(s, WithHint(Got(s), p)) /\ myHits' = myHits /\ quiet' \in BOOLEAN
    BY <1>4 DEF Hints, NoHitStep
  <2>2. WithHint(Got(s), p) \in Copy
    BY GotType, HelpersType
  <2>3. QED BY <1>1, <2>1, <2>2 DEF TypeOK
<1>5. ASSUME NEW s \in Sessions, Confirms(s) PROVE TypeOK'
  <2>1. PICK p \in Patterns : CopyStep(s, WithHit(Got(s), p)) /\ quiet' = quiet
                            /\ myHits' = [myHits EXCEPT ![s][p] = @ + 1]
    BY <1>5 DEF Confirms
  <2>2. myHits' \in [Sessions -> [Patterns -> Nat]]
    BY <2>1 DEF TypeOK
  <2>3. WithHit(Got(s), p) \in Copy /\ quiet' \in BOOLEAN
    BY <2>1, GotType, HelpersType DEF TypeOK
  <2>4. QED BY <1>1, <2>1, <2>2, <2>3
<1>6. ASSUME NEW s \in Sessions, Begin(s) PROVE TypeOK'
  BY <1>6 DEF Begin, TypeOK, memory, PCs
<1>7. ASSUME NEW s \in Sessions, Flush(s) PROVE TypeOK'
  <2>1. CASE base[s] = NoRow /\ row # NoRow
    BY <1>7, <2>1 DEF Flush, TypeOK, bounds, PCs
  <2>2. CASE ~(base[s] = NoRow /\ row # NoRow)
    <3>1. (IF base[s] = NoRow THEN view[s] ELSE Updated(s)) \in Copy
      <4>1. CASE base[s] = NoRow
        BY <4>1 DEF TypeOK
      <4>2. CASE base[s] # NoRow
        <5>1. Now(s) \in Rows /\ view[s] \in Rows
          BY <4>2 DEF Linked, LinkedAt, NoLess, Now, TypeOK
        <5>2. QED BY <4>2, <5>1, UpdatedType
      <4>3. QED BY <4>1, <4>2
    <3>2. /\ holder' = s /\ uncommitted' \in Copy
          /\ base' = [base EXCEPT ![s] = view[s]]
          /\ pc' = [pc EXCEPT ![s] = after[s]]
      BY <1>7, <2>2, <3>1 DEF Flush
    <3>3. QED BY <1>7, <3>2 DEF Flush, TypeOK, bounds
  <2>3. QED BY <2>1, <2>2
<1>8. ASSUME NEW s \in Sessions, Commit(s) PROVE TypeOK'
  <2>1. row' \in Copy
    BY <1>8 DEF Commit, TypeOK
  <2>2. hits' \in [Patterns -> Nat] /\ probe' \in BOOLEAN \cup {Unanswered}
    BY <1>8 DEF Commit, TypeOK
  <2>3. Close(s) /\ UNCHANGED bounds
    BY <1>8 DEF Commit
  <2>4. QED BY <2>1, <2>2, <2>3, CloseType DEF TypeOK, bounds
<1>9. ASSUME NEW s \in Sessions, StopEarly(s) \/ Rollback(s) PROVE TypeOK'
  <2>1. Close(s) /\ UNCHANGED <<probe, hits, bounds>> /\ row' \in Copy
    BY <1>9 DEF StopEarly, Rollback, TypeOK
  <2>2. QED BY <2>1, CloseType DEF TypeOK, bounds
<1>10. ASSUME Expire PROVE TypeOK'
  <2>1. row' \in Rows
    BY <1>10 DEF Expire, TypeOK, Rows
  <2>2. QED BY <1>10, <2>1 DEF Expire, TypeOK
<1>11. CASE UNCHANGED vars
  BY <1>11 DEF vars, memory, bounds, TypeOK
<1>12. QED
  BY <1>2, <1>3, <1>4, <1>5, <1>6, <1>7, <1>8, <1>9, <1>10, <1>11, StepKinds

-------------------------------------------------------------------------------
(* A format is never forgotten *)

LEMMA NoLessOrder ==
  ASSUME NEW a, NEW b, NEW c
  PROVE  /\ NoLess(a, a) /\ NoLess(NoRow, a)
         /\ NoLess(a, b) /\ NoLess(b, c) => NoLess(a, c)
BY DEF NoLess

LEMMA LinkedInit == Init => Linked
BY PatternAssumption DEF Init, Linked, LinkedAt, NoLess

(* What a session reads, or has, is no less than what it read before. *)
LEMMA GotLinked ==
  ASSUME TypeOK, Linked, NEW s \in Sessions
  PROVE  /\ NoLess(GotBase(s), Got(s)) /\ NoLess(GotBase(s), Now(s))
         /\ holder = s => GotBase(s) # NoRow
<1>1. LinkedAt(s)
  BY DEF Linked
<1>2. CASE view[s] # NoRow
  BY <1>1, <1>2 DEF LinkedAt, Got, GotBase
<1>3. CASE view[s] = NoRow
  <2>1. holder # s
    BY <1>1, <1>3 DEF LinkedAt, NoLess
  <2>2. GotBase(s) = row /\ Got(s) = row /\ Now(s) = row
    BY <1>3, <2>1 DEF Got, GotBase, Now
  <2>3. QED BY <2>1, <2>2, NoLessOrder
<1>4. QED BY <1>2, <1>3

LEMMA CopyLinked ==
  ASSUME TypeOK, Linked, NEW s \in Sessions, NEW v \in Copy, CopyStep(s, v), NoLess(Got(s), v),
         \A t \in Sessions : Preparing(t)' => myHits'[t] = NoHits
  PROVE  Linked'
<1>1. ASSUME NEW t \in Sessions PROVE LinkedAt(t)'
  <2>1. /\ row' = row /\ holder' = holder /\ uncommitted' = uncommitted /\ Now(t)' = Now(t)
    BY DEF CopyStep, memory, Now
  <2>2. CASE t = s
    <3>1. view'[s] = v /\ base'[s] = GotBase(s)
      BY DEF CopyStep, TypeOK
    <3>2. NoLess(GotBase(s), v)
      BY GotLinked, NoLessOrder
    <3>3. pc'[s] # "idle" /\ (pc'[s] = "flush" => after'[s] # "idle" /\ v # NoRow)
      BY DEF CopyStep, TypeOK
    <3>4. holder = s => NoLess(row, uncommitted)
      BY DEF Linked, LinkedAt
    <3>5. QED BY <2>1, <2>2, <3>1, <3>2, <3>3, <3>4, GotLinked DEF LinkedAt
  <2>3. CASE t # s
    <3>1. /\ view'[t] = view[t] /\ base'[t] = base[t] /\ pc'[t] = pc[t] /\ after'[t] = after[t]
      BY <2>3 DEF CopyStep, TypeOK
    <3>2. QED BY <2>1, <3>1 DEF Linked, LinkedAt
  <2>4. QED BY <2>2, <2>3
<1>2. QED BY <1>1 DEF Linked

(* Nor by an UPDATE of the columns that changed. *)
LEMMA UpdatedNoLess ==
  ASSUME TypeOK, Linked, NEW s \in Sessions, base[s] # NoRow
  PROVE  /\ Now(s) \in Rows /\ view[s] \in Rows
         /\ NoLess(view[s], Updated(s)) /\ NoLess(Now(s), Updated(s))
<1>1. LinkedAt(s)
  BY DEF Linked
<1>2. Now(s) \in Rows /\ view[s] \in Rows
  BY <1>1 DEF LinkedAt, NoLess, Now, TypeOK
<1>3. Updated(s) \in Rows
  BY <1>2, UpdatedType
<1>4. Updated(s).pattern = IF view[s].pattern # base[s].pattern THEN view[s].pattern ELSE Now(s).pattern
  BY <1>2, UpdatedType
<1>5. base[s].pattern # NoPattern => view[s].pattern # NoPattern /\ Now(s).pattern # NoPattern
  BY <1>1 DEF LinkedAt, NoLess
<1>6. Updated(s) # NoRow
  BY <1>3, RowsAreRows
<1>7. QED BY <1>2, <1>4, <1>5, <1>6 DEF NoLess

LEMMA LinkedFlush ==
  ASSUME TypeOK, Linked, NEW s \in Sessions, Flush(s)
  PROVE  Linked'
<1>1. LinkedAt(s) /\ pc[s] = "flush"
  BY DEF Linked, Flush
<1>2. ASSUME NEW t \in Sessions PROVE Preparing(t)' => myHits'[t] = NoHits
  <2>1. myHits' = myHits /\ after' = after /\ pc' \in {[pc EXCEPT ![s] = "rollback"], [pc EXCEPT ![s] = after[s]]}
    BY DEF Flush
  <2>2. Preparing(t)' => Preparing(t)
    BY <1>1, <2>1 DEF Preparing, Places, TypeOK
  <2>3. QED BY <2>1, <2>2 DEF Linked, LinkedAt
<1>3. CASE base[s] = NoRow /\ row # NoRow
  <2>1. /\ UNCHANGED <<row, holder, uncommitted, base, view, after>>
        /\ pc' = [pc EXCEPT ![s] = "rollback"]
    BY <1>3 DEF Flush
  <2>2. ASSUME NEW t \in Sessions PROVE LinkedAt(t)'
    <3>1. (pc'[t] = "idle" \/ pc'[t] = "flush") => pc'[t] = pc[t]
      BY <2>1 DEF TypeOK
    <3>2. QED BY <1>2, <2>1, <3>1 DEF Linked, LinkedAt, Now
  <2>3. QED BY <2>2 DEF Linked
<1>4. CASE ~(base[s] = NoRow /\ row # NoRow)
  <2> DEFINE u == IF base[s] = NoRow THEN view[s] ELSE Updated(s)
  <2>1. /\ row' = row /\ view' = view /\ after' = after /\ holder' = s
        /\ uncommitted' = u
        /\ base' = [base EXCEPT ![s] = view[s]]
        /\ pc' = [pc EXCEPT ![s] = after[s]]
        /\ holder \in {NoSession, s}
    BY <1>4 DEF Flush, LockFree
  <2>2. NoLess(view[s], u) /\ NoLess(row, u)
    <3>1. CASE base[s] = NoRow
      BY <1>4, <3>1, NoLessOrder
    <3>2. CASE base[s] # NoRow
      <4>1. NoLess(row, Now(s))
        BY <1>1, NoLessOrder DEF LinkedAt, Now
      <4>2. QED BY <3>2, <4>1, UpdatedNoLess, NoLessOrder
    <3>3. QED BY <3>1, <3>2
  <2> HIDE DEF u
  <2>3. ASSUME NEW t \in Sessions PROVE LinkedAt(t)'
    <3>1. CASE t = s
      <4>1. base'[s] = view[s] /\ Now(s)' = u /\ view[s] # NoRow /\ pc'[s] = after[s] /\ after[s] # "idle"
        BY <1>1, <2>1 DEF TypeOK, Now, LinkedAt
      <4>2. QED BY <1>2, <2>1, <2>2, <3>1, <4>1, NoLessOrder DEF LinkedAt
    <3>2. CASE t # s
      <4>1. base'[t] = base[t] /\ pc'[t] = pc[t] /\ holder' # t
        BY <2>1, <3>2 DEF TypeOK
      <4>2. Now(t)' = row /\ Now(t) = row
        BY <2>1, <3>2, PatternAssumption DEF Now
      <4>3. QED BY <1>2, <2>1, <4>1, <4>2 DEF Linked, LinkedAt
    <3>3. QED BY <3>1, <3>2
  <2>4. QED BY <2>3 DEF Linked
<1>5. QED BY <1>3, <1>4

LEMMA LinkedClose ==
  ASSUME TypeOK, Linked, NEW s \in Sessions, Close(s), row' = row \/ row' = Now(s)
  PROVE  Linked'
<1>1. /\ pc' = [pc EXCEPT ![s] = "idle"] /\ view' = [view EXCEPT ![s] = NoRow]
      /\ base' = [base EXCEPT ![s] = NoRow] /\ myHits' = [myHits EXCEPT ![s] = NoHits]
      /\ after' = [after EXCEPT ![s] = "idle"]
      /\ holder' = IF holder = s THEN NoSession ELSE holder
      /\ holder' # NoSession => uncommitted' = uncommitted
  BY DEF Close, HolderAfter
<1>2. LinkedAt(s) /\ NoLess(row, row')
  BY NoLessOrder DEF Linked, LinkedAt, Now
<1>3. ASSUME NEW t \in Sessions PROVE LinkedAt(t)'
  <2>1. CASE t = s
    <3>1. view'[s] = NoRow /\ base'[s] = NoRow /\ pc'[s] = "idle" /\ myHits'[s] = NoHits /\ holder' # s
      BY <1>1, PatternAssumption DEF TypeOK
    <3>2. QED BY <2>1, <3>1, NoLessOrder DEF LinkedAt
  <2>2. CASE t # s
    <3>1. /\ view'[t] = view[t] /\ base'[t] = base[t] /\ pc'[t] = pc[t] /\ after'[t] = after[t]
          /\ myHits'[t] = myHits[t] /\ (Preparing(t)' => Preparing(t))
      BY <1>1, <2>2 DEF TypeOK, Preparing
    <3>2. LinkedAt(t)
      BY DEF Linked
    <3>3. CASE holder = t
      <4>1. Now(s) = row /\ row' = row /\ holder' = t /\ uncommitted' = uncommitted /\ Now(t)' = Now(t)
        BY <1>1, <2>2, <3>3, PatternAssumption DEF Now
      <4>2. NoLess(base[t], view[t])' /\ NoLess(base[t], Now(t))' /\ NoLess(row, uncommitted)'
        BY <3>1, <3>2, <3>3, <4>1 DEF LinkedAt, NoLess
      <4>3. QED BY <3>1, <3>2, <3>3, <4>2 DEF LinkedAt
    <3>4. CASE holder # t
      <4>1. Now(t) = row /\ Now(t)' = row' /\ holder' # t
        BY <1>1, <2>2, <3>4, PatternAssumption DEF Now
      <4>2. NoLess(base[t], row')
        BY <1>2, <3>2, <4>1, NoLessOrder DEF LinkedAt
      <4>3. QED BY <3>1, <3>2, <4>1, <4>2 DEF LinkedAt
    <3>5. QED BY <3>3, <3>4
  <2>3. QED BY <2>1, <2>2
<1>4. QED BY <1>3 DEF Linked

(* Only a confirmation leaves NoHits, and it ends the preparing. *)
LEMMA HitsLinked ==
  ASSUME TypeOK, Linked, NEW s \in Sessions, NEW v \in Copy, CopyStep(s, v),
         NoHitStep(s) \/ (~Preparing(s)' /\ \E p \in Patterns : myHits' = [myHits EXCEPT ![s][p] = @ + 1])
  PROVE  \A t \in Sessions : Preparing(t)' => myHits'[t] = NoHits
<1>1. ASSUME NEW t \in Sessions, Preparing(t)' PROVE myHits'[t] = NoHits
  <2>1. CASE t = s
    BY <1>1, <2>1 DEF NoHitStep, Linked, LinkedAt
  <2>2. CASE t # s
    <3>1. Preparing(t) /\ myHits'[t] = myHits[t]
      BY <1>1, <2>2 DEF CopyStep, Preparing, TypeOK, NoHitStep
    <3>2. QED BY <3>1 DEF Linked, LinkedAt
  <2>3. QED BY <2>1, <2>2
<1>2. QED BY <1>1

LEMMA LinkedStep == TypeOK /\ Linked /\ [Next]_vars => Linked'
<1> SUFFICES ASSUME TypeOK, Linked, [Next]_vars PROVE Linked'
  OBVIOUS
<1>1. ASSUME NEW s \in Sessions, Looks(s) PROVE Linked'
  <2>1. CopyStep(s, Got(s)) /\ NoHitStep(s)
    BY <1>1 DEF Looks
  <2>2. \A t \in Sessions : Preparing(t)' => myHits'[t] = NoHits
    BY <2>1, GotType, HitsLinked
  <2>3. QED BY <2>1, <2>2, GotType, NoLessOrder, CopyLinked
<1>2. ASSUME NEW s \in Sessions, Writes(s) PROVE Linked'
  <2>1. PICK b \in BOOLEAN : CopyStep(s, WithCatchall(Got(s), b)) /\ NoHitStep(s)
    BY <1>2 DEF Writes
  <2>2. WithCatchall(Got(s), b) \in Copy /\ NoLess(Got(s), WithCatchall(Got(s), b))
    BY GotType, CatchallType, CatchallNoLess DEF Copy
  <2>3. \A t \in Sessions : Preparing(t)' => myHits'[t] = NoHits
    BY <2>1, <2>2, HitsLinked
  <2>4. QED BY <2>1, <2>2, <2>3, CopyLinked
<1>3. ASSUME NEW s \in Sessions, Hints(s) PROVE Linked'
  <2>1. PICK p \in Patterns : CopyStep(s, WithHint(Got(s), p)) /\ NoHitStep(s)
    BY <1>3 DEF Hints
  <2>2. WithHint(Got(s), p) \in Copy /\ NoLess(Got(s), WithHint(Got(s), p))
    BY GotType, HelpersType, HelpersNoLess DEF Copy
  <2>3. \A t \in Sessions : Preparing(t)' => myHits'[t] = NoHits
    BY <2>1, <2>2, HitsLinked
  <2>4. QED BY <2>1, <2>2, <2>3, CopyLinked
<1>4. ASSUME NEW s \in Sessions, Confirms(s) PROVE Linked'
  <2>1. PICK p \in Patterns : /\ CopyStep(s, WithHit(Got(s), p)) /\ ~Preparing(s)'
                            /\ myHits' = [myHits EXCEPT ![s][p] = @ + 1]
    BY <1>4 DEF Confirms
  <2>2. WithHit(Got(s), p) \in Copy /\ NoLess(Got(s), WithHit(Got(s), p))
    BY GotType, HelpersType, HelpersNoLess DEF Copy
  <2>3. \A t \in Sessions : Preparing(t)' => myHits'[t] = NoHits
    BY <2>1, <2>2, HitsLinked
  <2>4. QED BY <2>1, <2>2, <2>3, CopyLinked
<1>5. ASSUME NEW s \in Sessions, Begin(s) PROVE Linked'
  <2>1. /\ UNCHANGED <<row, holder, uncommitted, base, view, after, myHits>> /\ pc[s] = "idle"
        /\ \E start \in {"known", "seed"} : pc' = [pc EXCEPT ![s] = start]
    BY <1>5 DEF Begin, memory
  <2>2. ASSUME NEW t \in Sessions PROVE LinkedAt(t)'
    <3>1. /\ (pc'[t] = "idle" \/ pc'[t] = "flush") => pc'[t] = pc[t]
          /\ Preparing(t)' => Preparing(t)
      BY <2>1 DEF TypeOK, Preparing, Places
    <3>2. QED BY <2>1, <3>1 DEF Linked, LinkedAt, Now
  <2>3. QED BY <2>2 DEF Linked
<1>6. ASSUME NEW s \in Sessions, Commit(s) \/ StopEarly(s) \/ Rollback(s) PROVE Linked'
  BY <1>6, LinkedClose DEF Commit, StopEarly, Rollback, Now
<1>7. ASSUME Expire PROVE Linked'
  <2>1. \A t \in Sessions : pc[t] = "idle" /\ base[t] = NoRow /\ holder # t
    BY <1>7 DEF Expire, Linked, LinkedAt
  <2>2. ASSUME NEW t \in Sessions PROVE LinkedAt(t)'
    <3>1. UNCHANGED <<holder, uncommitted, base, view, after, myHits, pc>> /\ Preparing(t)' = Preparing(t)
      BY <1>7 DEF Expire, Preparing
    <3>2. QED BY <2>1, <3>1, NoLessOrder DEF Linked, LinkedAt
  <2>3. QED BY <2>2 DEF Linked
<1>8. CASE UNCHANGED vars
  BY <1>8 DEF vars, memory, Linked, LinkedAt, Now, Preparing
<1>9. QED
  BY <1>1, <1>2, <1>3, <1>4, <1>5, <1>6, <1>7, <1>8, LinkedFlush, StepKinds

-------------------------------------------------------------------------------
(* Confidence is backed by confirmations *)

LEMMA SumsOfHits ==
  ASSUME TypeOK
  PROVE  /\ SumFunction(hits) \in Nat
         /\ \A s \in Sessions : SumFunction(myHits[s]) \in Nat /\ Known(s) \in Nat
<1>1. SumFunction(hits) \in Nat
  BY PatternAssumption, SumType DEF TypeOK
<1>2. ASSUME NEW s \in Sessions PROVE SumFunction(myHits[s]) \in Nat
  BY PatternAssumption, SumType DEF TypeOK
<1>3. QED BY <1>1, <1>2 DEF Known

LEMMA BackedByMore ==
  ASSUME NEW r \in Copy, NEW n \in Nat, NEW m \in Nat, BackedBy(r, n), n <= m
  PROVE  BackedBy(r, m)
BY RowsAreRows DEF BackedBy, Copy

LEMMA BackedInit == Init => Backed
<1>1. \A n : BackedBy(NoRow, n)
  BY DEF BackedBy
<1>2. QED BY <1>1, PatternAssumption DEF Init, Backed

LEMMA GotBacked ==
  ASSUME TypeOK, Backed, NEW s \in Sessions
  PROVE  BackedBy(Got(s), Known(s)) /\ BackedBy(Now(s), Known(s))
<1>1. SumFunction(hits) <= Known(s)
  BY SumsOfHits DEF Known
<1>2. BackedBy(row, Known(s))
  BY <1>1, SumsOfHits, BackedByMore DEF Backed, TypeOK, Copy
<1>3. QED BY <1>2 DEF Backed, Got, Now

(* A change of the copy by a session that knows of enough confirmations. *)
LEMMA CopyBacked ==
  ASSUME TypeOK, Backed, NEW s \in Sessions, NEW v \in Copy, CopyStep(s, v),
         \A t \in Sessions \ {s} : myHits'[t] = myHits[t],
         Known(s)' \in Nat, Known(s) <= Known(s)', BackedBy(v, Known(s)')
  PROVE  Backed'
<1>1. /\ row' = row /\ holder' = holder /\ uncommitted' = uncommitted /\ hits' = hits
      /\ view' = [view EXCEPT ![s] = v]
  BY DEF CopyStep, memory
<1>2. \A t \in Sessions \ {s} : Known(t)' = Known(t)
  BY <1>1 DEF Known
<1>3. ASSUME NEW t \in Sessions PROVE BackedBy(view[t], Known(t))'
  <2>1. CASE t = s
    <3>1. view'[s] = v
      BY <1>1 DEF TypeOK
    <3>2. QED BY <2>1, <3>1 DEF BackedBy
  <2>2. CASE t # s
    <3>1. view'[t] = view[t]
      BY <1>1, <2>2 DEF TypeOK
    <3>2. QED BY <1>2, <2>2, <3>1 DEF Backed, BackedBy
  <2>3. QED BY <2>1, <2>2
<1>4. ASSUME NEW t \in Sessions, holder' = t PROVE BackedBy(uncommitted, Known(t))'
  <2>1. BackedBy(uncommitted, Known(t)) /\ uncommitted \in Copy
    BY <1>1, <1>4 DEF Backed, TypeOK, Copy
  <2>2. Known(t)' \in Nat /\ Known(t) <= Known(t)'
    BY <1>2, SumsOfHits
  <2>3. BackedBy(uncommitted, Known(t)')
    BY <2>1, <2>2, SumsOfHits, BackedByMore
  <2>4. QED BY <1>1, <2>3 DEF BackedBy
<1>5. BackedBy(row, SumFunction(hits))'
  BY <1>1 DEF Backed, BackedBy
<1>6. QED BY <1>3, <1>4, <1>5 DEF Backed

(* A session that confirms nobody knows of as many confirmations as before. *)
LEMMA CopyBackedNoHit ==
  ASSUME TypeOK, Backed, NEW s \in Sessions, NEW v \in Copy, CopyStep(s, v), myHits' = myHits,
         BackedBy(v, Known(s))
  PROVE  Backed'
<1>1. Known(s)' = Known(s)
  BY DEF Known, CopyStep, memory
<1>2. QED BY <1>1, SumsOfHits, CopyBacked

LEMMA CopyBackedHit ==
  ASSUME TypeOK, Backed, NEW s \in Sessions, NEW p \in Patterns,
         CopyStep(s, WithHit(Got(s), p)), myHits' = [myHits EXCEPT ![s][p] = @ + 1]
  PROVE  Backed'
<1>1. Known(s)' = Known(s) + 1
  <2>1. myHits'[s] = [myHits[s] EXCEPT ![p] = @ + 1] /\ hits' = hits /\ myHits[s] \in [Patterns -> Nat]
    BY DEF CopyStep, memory, TypeOK
  <2>2. SumFunction(myHits'[s]) = SumFunction(myHits[s]) + 1
    BY <2>1, PatternAssumption, SumOneMore
  <2>3. QED BY <2>1, <2>2, SumsOfHits DEF Known
<1>2. BackedBy(WithHit(Got(s), p), Known(s) + 1) /\ WithHit(Got(s), p) \in Copy
  BY GotBacked, GotType, SumsOfHits, HelpersBacked, HelpersType DEF Copy
<1>3. \A t \in Sessions \ {s} : myHits'[t] = myHits[t]
  BY DEF TypeOK
<1>4. Known(s)' \in Nat /\ Known(s) <= Known(s)' /\ BackedBy(WithHit(Got(s), p), Known(s)')
  BY <1>1, <1>2, SumsOfHits
<1>5. QED BY <1>2, <1>3, <1>4, CopyBacked

(* The columns of an UPDATE: none of them exceeds the version it comes from. *)
LEMMA UpdatedBacked ==
  ASSUME TypeOK, Linked, Backed, NEW s \in Sessions, base[s] # NoRow
  PROVE  BackedBy(Updated(s), Known(s))
<1>1. Now(s) \in Rows /\ view[s] \in Rows /\ NoLess(view[s], Updated(s)) /\ NoLess(Now(s), Updated(s))
  BY UpdatedNoLess
<1>2. Updated(s).conf = IF view[s].conf # base[s].conf THEN view[s].conf ELSE Now(s).conf
  BY <1>1, UpdatedType
<1>3. BackedBy(view[s], Known(s)) /\ BackedBy(Now(s), Known(s))
  BY GotBacked DEF Backed
<1>4. view[s] # NoRow /\ Now(s) # NoRow
  BY <1>1, RowsAreRows
<1>5. QED BY <1>1, <1>2, <1>3, <1>4 DEF BackedBy, NoLess

LEMMA BackedFlush ==
  ASSUME TypeOK, Linked, Backed, NEW s \in Sessions, Flush(s)
  PROVE  Backed'
<1>1. row' = row /\ hits' = hits /\ view' = view /\ myHits' = myHits
  BY DEF Flush
<1>2. \A t \in Sessions : Known(t)' = Known(t)
  BY <1>1 DEF Known
<1>3. CASE base[s] = NoRow /\ row # NoRow
  <2>1. holder' = holder /\ uncommitted' = uncommitted
    BY <1>3 DEF Flush
  <2>2. QED BY <1>1, <1>2, <2>1 DEF Backed, BackedBy
<1>4. CASE ~(base[s] = NoRow /\ row # NoRow)
  <2>1. holder' = s /\ uncommitted' = IF base[s] = NoRow THEN view[s] ELSE Updated(s)
    BY <1>4 DEF Flush
  <2>2. BackedBy(uncommitted', Known(s))
    BY <2>1, UpdatedBacked DEF Backed
  <2>3. QED BY <1>1, <1>2, <2>1, <2>2 DEF Backed, BackedBy
<1>5. QED BY <1>3, <1>4

LEMMA BackedClose ==
  ASSUME TypeOK, Backed, NEW s \in Sessions, Close(s), NEW n \in Nat, n = SumFunction(hits)',
         SumFunction(hits) <= n, BackedBy(row', n)
  PROVE  Backed'
<1>1. /\ view' = [view EXCEPT ![s] = NoRow] /\ myHits' = [myHits EXCEPT ![s] = NoHits]
      /\ holder' = IF holder = s THEN NoSession ELSE holder
      /\ holder' # NoSession => uncommitted' = uncommitted
  BY DEF Close, HolderAfter
<1>2. ASSUME NEW t \in Sessions, t # s
      PROVE  /\ \A r \in Copy : BackedBy(r, Known(t)) => BackedBy(r, Known(t)')
             /\ view'[t] = view[t]
  <2>1. myHits'[t] = myHits[t] /\ view'[t] = view[t]
    BY <1>1, <1>2 DEF TypeOK
  <2>2. Known(t)' \in Nat /\ Known(t) <= Known(t)'
    BY <2>1, SumsOfHits DEF Known
  <2>3. QED BY <2>1, <2>2, SumsOfHits, BackedByMore
<1>3. ASSUME NEW t \in Sessions PROVE BackedBy(view[t], Known(t))'
  <2>1. CASE t = s
    BY <1>1, <2>1 DEF BackedBy, TypeOK
  <2>2. CASE t # s
    <3>1. BackedBy(view[t], Known(t)')
      BY <1>2, <2>2 DEF Backed, TypeOK, Copy
    <3>2. QED BY <1>2, <2>2, <3>1 DEF BackedBy
  <2>3. QED BY <2>1, <2>2
<1>4. ASSUME NEW t \in Sessions, holder' = t PROVE BackedBy(uncommitted, Known(t))'
  <2>1. t # s /\ holder = t /\ uncommitted' = uncommitted
    BY <1>1, <1>4, PatternAssumption
  <2>2. BackedBy(uncommitted, Known(t)')
    BY <1>2, <2>1 DEF Backed, TypeOK, Copy
  <2>3. QED BY <2>1, <2>2 DEF BackedBy
<1>5. BackedBy(row, SumFunction(hits))'
  OBVIOUS
<1>6. QED BY <1>3, <1>4, <1>5 DEF Backed

LEMMA BackedStep == TypeOK /\ Linked /\ Backed /\ [Next]_vars => Backed'
<1> SUFFICES ASSUME TypeOK, Linked, Backed, [Next]_vars PROVE Backed'
  OBVIOUS
<1>1. ASSUME NEW s \in Sessions, Looks(s) PROVE Backed'
  BY <1>1, GotType, GotBacked, CopyBackedNoHit DEF Looks, NoHitStep
<1>2. ASSUME NEW s \in Sessions, Writes(s) PROVE Backed'
  <2>1. PICK b \in BOOLEAN : CopyStep(s, WithCatchall(Got(s), b)) /\ myHits' = myHits
    BY <1>2 DEF Writes, NoHitStep
  <2>2. WithCatchall(Got(s), b) \in Copy /\ BackedBy(WithCatchall(Got(s), b), Known(s))
    BY GotType, GotBacked, SumsOfHits, CatchallType, CatchallBacked DEF Copy
  <2>3. QED BY <2>1, <2>2, CopyBackedNoHit
<1>3. ASSUME NEW s \in Sessions, Hints(s) PROVE Backed'
  <2>1. PICK p \in Patterns : CopyStep(s, WithHint(Got(s), p)) /\ myHits' = myHits
    BY <1>3 DEF Hints, NoHitStep
  <2>2. WithHint(Got(s), p) \in Copy /\ BackedBy(WithHint(Got(s), p), Known(s))
    BY GotType, GotBacked, SumsOfHits, HelpersType, HelpersBacked DEF Copy
  <2>3. QED BY <2>1, <2>2, CopyBackedNoHit
<1>4. ASSUME NEW s \in Sessions, Confirms(s) PROVE Backed'
  BY <1>4, CopyBackedHit DEF Confirms
<1>5. ASSUME NEW s \in Sessions, Begin(s) PROVE Backed'
  BY <1>5 DEF Begin, memory, Backed, BackedBy, Known
<1>6. ASSUME NEW s \in Sessions, Commit(s) PROVE Backed'
  <2>1. Close(s) /\ row' = Now(s) /\ hits' = [p \in Patterns |-> hits[p] + myHits[s][p]]
    BY <1>6 DEF Commit, Now
  <2>2. SumFunction([p \in Patterns |-> hits[p] + myHits[s][p]]) = Known(s)
    <3>1. hits \in [Patterns -> Nat] /\ myHits[s] \in [Patterns -> Nat]
      BY DEF TypeOK
    <3>2. QED BY <3>1, PatternAssumption, SumAdd DEF Known
  <2>3. SumFunction(hits)' = Known(s) /\ SumFunction(hits) <= Known(s)
    BY <2>1, <2>2, SumsOfHits DEF Known
  <2>4. BackedBy(row', Known(s))
    BY <2>1, GotBacked
  <2>5. QED BY <2>1, <2>3, <2>4, SumsOfHits, BackedClose
<1>7. ASSUME NEW s \in Sessions, StopEarly(s) PROVE Backed'
  <2>1. Close(s) /\ row' = Now(s) /\ hits' = hits /\ Preparing(s)
    BY <1>7 DEF StopEarly, Now, Preparing, Places
  <2>2. Known(s) = SumFunction(hits)
    <3>1. SumFunction(NoHits) = 0
      BY PatternAssumption, SumOfZeros DEF NoHits
    <3>2. QED BY <2>1, <3>1, SumsOfHits DEF Known, Linked, LinkedAt
  <2>3. BackedBy(row', SumFunction(hits))
    BY <2>1, <2>2, GotBacked
  <2>4. QED BY <2>1, <2>3, SumsOfHits, BackedClose
<1>8. ASSUME NEW s \in Sessions, Rollback(s) PROVE Backed'
  <2>1. Close(s) /\ row' = row /\ hits' = hits
    BY <1>8 DEF Rollback
  <2>2. QED BY <2>1, SumsOfHits, BackedClose DEF Backed
<1>9. ASSUME Expire PROVE Backed'
  <2>1. \A t \in Sessions : holder # t /\ view[t] = NoRow
    BY <1>9 DEF Expire, Linked, LinkedAt
  <2>2. row' \in Rows /\ row'.conf = row.conf /\ row'.pattern = row.pattern /\ row # NoRow
    BY <1>9 DEF Expire, TypeOK, Rows
  <2>3. BackedBy(row', SumFunction(hits))
    BY <2>2 DEF Backed, BackedBy
  <2>4. QED BY <1>9, <2>1, <2>3 DEF Expire, Backed, BackedBy
<1>10. CASE UNCHANGED vars
  BY <1>10 DEF vars, memory, Backed, BackedBy, Known
<1>11. QED
  BY <1>1, <1>2, <1>3, <1>4, <1>5, <1>6, <1>7, <1>8, <1>9, <1>10, BackedFlush, StepKinds

-------------------------------------------------------------------------------
(* What a quiet run adds *)

(* A hit gives a format one more, or brings it in with one. *)
LEMMA HitConf ==
  ASSUME NEW r \in Copy, NEW p \in Patterns, NEW n \in Nat, BackedBy(r, n),
         NEW v, v = WithHit(r, p)
  PROVE  \/ v.conf = 1 /\ v.pattern = p
         \/ r # NoRow /\ v.pattern = r.pattern /\ v.pattern = p /\ v.conf = r.conf + 1
         \/ r # NoRow /\ v.pattern = r.pattern /\ v.conf <= r.conf
<1>1. CASE r = NoRow
  BY <1>1 DEF WithHit
<1>2. CASE r \in Rows
  <2>1. r # NoRow /\ r.conf \in Nat /\ (r.pattern = NoPattern => r.conf = 0)
    BY <1>2, RowsAreRows DEF BackedBy
  <2>2. CASE r.pattern \in {NoPattern, p}
    <3>1. v.pattern = p /\ v.conf = r.conf + 1
      BY <1>2, <2>1, <2>2 DEF WithHit, Rows
    <3>2. QED BY <2>1, <2>2, <3>1
  <2>3. CASE r.pattern \notin {NoPattern, p} /\ Less1(r.conf) < Threshold
    BY <1>2, <2>1, <2>3 DEF WithHit, Rows
  <2>4. CASE r.pattern \notin {NoPattern, p} /\ ~(Less1(r.conf) < Threshold)
    <3>1. v.pattern = r.pattern /\ v.conf = Less1(r.conf)
      BY <1>2, <2>1, <2>4 DEF WithHit, Rows
    <3>2. QED BY <2>1, <3>1 DEF Less1
  <2>5. QED BY <2>2, <2>3, <2>4
<1>3. QED BY <1>1, <1>2 DEF Copy

LEMMA QuietInit == Init => Quietly
BY PatternAssumption DEF Init, Quietly, QuietAt, GoodFor, EarnedBy

(* More confirmations do no harm. *)
LEMMA EarnedByMore ==
  ASSUME NEW r \in Copy, NEW h \in [Patterns -> Nat], NEW k \in [Patterns -> Nat],
         \A p \in Patterns : h[p] <= k[p], EarnedBy(r, h)
  PROVE  EarnedBy(r, k)
BY DEF EarnedBy, Copy, Rows

LEMMA TogetherType ==
  ASSUME TypeOK, NEW s \in Sessions
  PROVE  /\ hits \in [Patterns -> Nat] /\ myHits[s] \in [Patterns -> Nat]
         /\ Together(s) \in [Patterns -> Nat]
         /\ \A p \in Patterns : /\ Together(s)[p] = hits[p] + myHits[s][p]
                                /\ hits[p] <= Together(s)[p]
<1>1. hits \in [Patterns -> Nat] /\ myHits[s] \in [Patterns -> Nat]
  BY DEF TypeOK
<1>2. QED BY <1>1 DEF Together

(* What a session reads, or has. *)
LEMMA GotQuiet ==
  ASSUME TypeOK, Linked, EarnedBy(row, hits), NEW s \in Sessions, QuietAt(s)
  PROVE  /\ GotBase(s) # NoRow => GotBase(s) = Now(s)
         /\ GotBase(s) = NoRow => row = NoRow \/ view[s] = NoRow
         /\ GoodFor(Got(s), s) /\ GoodFor(GotBase(s), s)
<1>1. CASE view[s] # NoRow
  BY <1>1 DEF Got, GotBase, QuietAt
<1>2. CASE view[s] = NoRow
  <2>1. holder # s
    BY <1>2 DEF Linked, LinkedAt, NoLess
  <2>2. GotBase(s) = row /\ Got(s) = row /\ Now(s) = row
    BY <1>2, <2>1 DEF Got, GotBase, Now
  <2>3. row \in Copy
    BY DEF TypeOK, Copy
  <2>4. EarnedBy(row, Together(s))
    BY <2>3, TogetherType, EarnedByMore
  <2>5. QED BY <1>2, <2>2, <2>4 DEF GoodFor
<1>3. QED BY <1>1, <1>2

(* A change of the copy to one whose confidence is earned. *)
LEMMA CopyQuiet ==
  ASSUME TypeOK, Linked, Quietly, quiet, NEW s \in Sessions, NEW v \in Copy, CopyStep(s, v),
         \A t \in Sessions \ {s} : myHits'[t] = myHits[t],
         NEW b, b = GotBase(s), GoodFor(b, s)', GoodFor(v, s)'
  PROVE  Quietly'
<1>1. /\ row' = row /\ holder' = holder /\ uncommitted' = uncommitted /\ hits' = hits
      /\ view' = [view EXCEPT ![s] = v] /\ base' = [base EXCEPT ![s] = GotBase(s)]
      /\ pc[s] # "idle"
  BY DEF CopyStep, memory
<1>2. ASSUME NEW t \in Sessions, pc'[t] # "idle" PROVE pc[t] # "idle"
  BY <1>2 DEF CopyStep, TypeOK
<1>3. EarnedBy(row, hits)'
  BY <1>1 DEF Quietly, EarnedBy
<1>4. ASSUME NEW t \in Sessions PROVE QuietAt(t)'
  <2>1. CASE t = s
    <3>1. view'[s] = v /\ base'[s] = b /\ Now(s)' = Now(s)
      BY <1>1 DEF TypeOK, Now
    <3>2. b # NoRow => b = Now(s)
      BY GotQuiet DEF Quietly
    <3>3. b = NoRow => row = NoRow
      BY GotQuiet DEF Quietly, GotBase
    <3>4. GoodFor(view[s], s)' /\ GoodFor(base[s], s)'
      BY <3>1 DEF GoodFor
    <3>5. QED BY <1>1, <2>1, <3>1, <3>2, <3>3, <3>4 DEF QuietAt
  <2>2. CASE t # s
    <3>1. view'[t] = view[t] /\ base'[t] = base[t] /\ Now(t)' = Now(t) /\ myHits'[t] = myHits[t]
      BY <1>1, <2>2 DEF TypeOK, Now
    <3>2. Together(t)' = Together(t)
      BY <1>1, <3>1 DEF Together
    <3>3. QED BY <1>1, <3>1, <3>2 DEF Quietly, QuietAt, GoodFor, EarnedBy
  <2>3. QED BY <2>1, <2>2
<1>5. QED BY <1>2, <1>3, <1>4 DEF Quietly

(* The cases of CopyQuiet: no confirmation, with the confidence and the format
   the copy had. *)
LEMMA CopyQuietNoHit ==
  ASSUME TypeOK, Linked, Backed, Quietly, quiet, NEW s \in Sessions, NEW v \in Copy, CopyStep(s, v),
         myHits' = myHits,
         v = Got(s) \/ (v.conf = 0 /\ Got(s) = NoRow)
                   \/ (Got(s) # NoRow /\ v.conf = Got(s).conf /\ v.pattern = Got(s).pattern)
  PROVE  Quietly'
<1> DEFINE b == GotBase(s)
<1>1. GoodFor(Got(s), s) /\ GoodFor(b, s)
  BY GotQuiet DEF Quietly
<1>2. hits' = hits /\ row' = row /\ Together(s)' = Together(s)
  BY DEF CopyStep, memory, Together
<1>3. GoodFor(v, s)
  <2>1. CASE v.conf = 0 /\ Got(s) = NoRow
    <3>1. \A p \in Patterns : 0 <= Together(s)[p] /\ 0 <= myHits[s][p]
      BY TogetherType
    <3>2. QED BY <2>1, <3>1 DEF GoodFor, EarnedBy, Copy, Rows
  <2>2. QED BY <1>1, <2>1 DEF GoodFor, EarnedBy
<1> HIDE DEF b
<1>4. \A r : GoodFor(r, s) => (row' # NoRow /\ r # NoRow /\ r.pattern # row'.pattern => EarnedBy(r, myHits'[s]))
                            /\ EarnedBy(r, Together(s)')
  BY <1>2 DEF GoodFor
<1>5. PICK c : c = b
  OBVIOUS
<1>6. GoodFor(c, s)' /\ GoodFor(v, s)'
  BY <1>1, <1>3, <1>4, <1>5 DEF GoodFor
<1>7. QED BY <1>5, <1>6, CopyQuiet DEF b

LEMMA CopyQuietHit ==
  ASSUME TypeOK, Linked, Backed, Quietly, quiet, NEW s \in Sessions, NEW p \in Patterns,
         CopyStep(s, WithHit(Got(s), p)), myHits' = [myHits EXCEPT ![s][p] = @ + 1]
  PROVE  Quietly'
<1>1. PICK g \in Copy, c \in Copy, v \in Copy : g = Got(s) /\ c = GotBase(s) /\ v = WithHit(g, p)
  BY GotType, HelpersType DEF Copy
<1>2. GoodFor(g, s) /\ GoodFor(c, s)
  BY <1>1, GotQuiet DEF Quietly
<1>3. hits' = hits /\ row' = row
  BY DEF CopyStep, memory
<1> DEFINE h == Together(s)
           k == Together(s)'
           m == myHits[s]
           n == myHits'[s]
<1>4. /\ h \in [Patterns -> Nat] /\ k \in [Patterns -> Nat] /\ m \in [Patterns -> Nat] /\ n \in [Patterns -> Nat]
      /\ n = [m EXCEPT ![p] = @ + 1]
      /\ \A q \in Patterns : h[q] = hits[q] + m[q] /\ k[q] = hits[q] + n[q] /\ hits[q] \in Nat
  <2>1. n = [m EXCEPT ![p] = @ + 1] /\ m \in [Patterns -> Nat] /\ hits \in [Patterns -> Nat]
    BY DEF TypeOK
  <2>2. n \in [Patterns -> Nat]
    BY <2>1
  <2>3. h = [q \in Patterns |-> hits[q] + m[q]] /\ k = [q \in Patterns |-> hits[q] + n[q]]
    BY <1>3 DEF Together
  <2> HIDE DEF h, k, m, n
  <2>4. QED BY <2>1, <2>2, <2>3
<1> HIDE DEF h, k, m, n
<1>5. /\ \A q \in Patterns : h[q] <= k[q] /\ m[q] <= n[q]
      /\ k[p] = h[p] + 1 /\ n[p] = m[p] + 1 /\ 1 <= k[p] /\ 1 <= n[p]
  BY <1>4
<1>6. \A r \in Copy : (EarnedBy(r, h) => EarnedBy(r, k)) /\ (EarnedBy(r, m) => EarnedBy(r, n))
  BY <1>4, <1>5, EarnedByMore
<1>7. /\ EarnedBy(c, h)
      /\ row # NoRow /\ c # NoRow /\ c.pattern # row.pattern => EarnedBy(c, m)
      /\ EarnedBy(g, h)
      /\ row # NoRow /\ g # NoRow /\ g.pattern # row.pattern => EarnedBy(g, m)
  BY <1>2 DEF GoodFor, h, m
<1>8. \/ v.conf = 1 /\ v.pattern = p
      \/ g # NoRow /\ v.pattern = g.pattern /\ v.pattern = p /\ v.conf = g.conf + 1
      \/ g # NoRow /\ v.pattern = g.pattern /\ v.conf <= g.conf
  BY <1>1, GotBacked, SumsOfHits, HitConf
<1>9. \A f \in [Patterns -> Nat], e \in [Patterns -> Nat] :
        /\ \A q \in Patterns : e[q] <= f[q]
        /\ f[p] = e[p] + 1
        /\ g # NoRow /\ v.pattern = g.pattern => EarnedBy(g, e)
        => EarnedBy(v, f)
  <2>1. ASSUME NEW f \in [Patterns -> Nat], NEW e \in [Patterns -> Nat], \A q \in Patterns : e[q] <= f[q],
               f[p] = e[p] + 1, g # NoRow /\ v.pattern = g.pattern => EarnedBy(g, e), v # NoRow, v.pattern # NoPattern
        PROVE  v.conf <= f[v.pattern]
    <3>1. v \in Rows /\ v.pattern \in Patterns /\ v.conf \in Nat
      BY <2>1, RowsAreRows DEF Copy
    <3>2. g # NoRow => g.conf \in Nat
      BY RowsAreRows DEF Copy
    <3>3. CASE v.conf = 1 /\ v.pattern = p
      BY <2>1, <3>3
    <3>4. CASE g # NoRow /\ v.pattern = g.pattern /\ v.pattern = p /\ v.conf = g.conf + 1
      <4>1. g.conf <= e[p]
        BY <2>1, <3>4 DEF EarnedBy
      <4>2. QED BY <2>1, <3>2, <3>4, <4>1
    <3>5. CASE g # NoRow /\ v.pattern = g.pattern /\ v.conf <= g.conf
      <4>1. g.conf <= e[v.pattern]
        BY <2>1, <3>5 DEF EarnedBy
      <4>2. e[v.pattern] <= f[v.pattern] /\ e[v.pattern] \in Nat /\ f[v.pattern] \in Nat
        BY <2>1, <3>1
      <4>3. QED BY <3>1, <3>2, <3>5, <4>1, <4>2
    <3>6. QED BY <1>8, <3>3, <3>4, <3>5
  <2>2. QED BY <2>1 DEF EarnedBy
<1>10. EarnedBy(v, k)
  BY <1>4, <1>5, <1>7, <1>9
<1>11. row # NoRow /\ v # NoRow /\ v.pattern # row.pattern => EarnedBy(v, n)
  BY <1>4, <1>5, <1>7, <1>9
<1>12. GoodFor(c, s)' /\ GoodFor(v, s)'
  <2>1. k = Together(s)' /\ n = myHits'[s]
    BY DEF k, n
  <2>2. QED BY <1>3, <1>6, <1>7, <1>10, <1>11, <2>1 DEF GoodFor
<1>13. \A t \in Sessions \ {s} : myHits'[t] = myHits[t]
  BY DEF TypeOK
<1>14. QED BY <1>1, <1>12, <1>13, CopyQuiet

(* With nobody else about, an UPDATE makes the row what the copy is. *)
LEMMA UpdatedQuiet ==
  ASSUME TypeOK, Linked, NEW s \in Sessions, base[s] # NoRow, base[s] = Now(s)
  PROVE  Updated(s) = view[s]
<1>1. Now(s) \in Rows /\ view[s] \in Rows
  BY UpdatedNoLess
<1>2. /\ Updated(s) \in Rows
      /\ \A f \in {"pattern", "conf", "catchall", "fresh"} : Updated(s)[f] = view[s][f]
  BY <1>1, UpdatedType
<1>3. \A a, b \in Rows : a.pattern = b.pattern /\ a.conf = b.conf /\ a.catchall = b.catchall /\ a.fresh = b.fresh => a = b
  BY DEF Rows
<1>4. QED BY <1>1, <1>2, <1>3

LEMMA QuietFlush ==
  ASSUME TypeOK, Linked, Quietly, quiet, NEW s \in Sessions, Flush(s)
  PROVE  Quietly'
<1>1. /\ row' = row /\ hits' = hits /\ view' = view /\ myHits' = myHits
      /\ LinkedAt(s) /\ QuietAt(s) /\ pc[s] = "flush" /\ view[s] # NoRow
  BY DEF Flush, Linked, LinkedAt, Quietly
<1>2. \A t \in Sessions : pc'[t] # "idle" => pc[t] # "idle"
  BY DEF Flush, TypeOK
<1>3. \A t \in Sessions : Together(t)' = Together(t)
  BY <1>1 DEF Together
<1>4. ASSUME NEW t \in Sessions, base'[t] \in {base[t], view[t]} PROVE GoodFor(view[t], t)' /\ GoodFor(base[t], t)'
  BY <1>1, <1>3, <1>4 DEF Quietly, QuietAt, GoodFor
<1>5. CASE base[s] = NoRow /\ row # NoRow
  <2>1. holder' = holder /\ uncommitted' = uncommitted /\ base' = base
    BY <1>5 DEF Flush
  <2>2. ASSUME NEW t \in Sessions PROVE QuietAt(t)'
    <3>1. Now(t)' = Now(t)
      BY <1>1, <2>1 DEF Now
    <3>2. QED BY <1>1, <1>4, <2>1, <3>1 DEF Quietly, QuietAt
  <2>3. QED BY <1>1, <1>2, <2>2 DEF Quietly, EarnedBy
<1>6. CASE ~(base[s] = NoRow /\ row # NoRow)
  <2>1. /\ holder' = s /\ base' = [base EXCEPT ![s] = view[s]] /\ holder \in {NoSession, s}
        /\ uncommitted' = view[s]
    BY <1>1, <1>6, UpdatedQuiet DEF Flush, LockFree, QuietAt
  <2>2. ASSUME NEW t \in Sessions PROVE QuietAt(t)'
    <3>1. CASE t = s
      <4>1. base'[s] = view[s] /\ Now(s)' = view[s]
        BY <2>1 DEF TypeOK, Now
      <4>2. QED BY <1>1, <1>4, <3>1, <4>1 DEF QuietAt
    <3>2. CASE t # s
      <4>1. base'[t] = base[t] /\ Now(t)' = row /\ Now(t) = row
        BY <1>1, <2>1, <3>2, PatternAssumption DEF TypeOK, Now
      <4>2. QED BY <1>1, <1>4, <4>1 DEF Quietly, QuietAt
    <3>3. QED BY <3>1, <3>2
  <2>3. QED BY <1>1, <1>2, <2>2 DEF Quietly, EarnedBy
<1>7. QED BY <1>5, <1>6

(* With nobody in a session there is nothing to say of copies. *)
LEMMA AllIdleQuiet ==
  ASSUME \A t \in Sessions : view[t] = NoRow /\ base[t] = NoRow /\ pc[t] = "idle", EarnedBy(row, hits)
  PROVE  Quietly
BY DEF Quietly, QuietAt, GoodFor, EarnedBy

LEMMA QuietClose ==
  ASSUME TypeOK, Linked, Quietly, quiet, NEW s \in Sessions, pc[s] # "idle", Close(s), EarnedBy(row, hits)'
  PROVE  Quietly'
<1>1. /\ pc' = [pc EXCEPT ![s] = "idle"] /\ view' = [view EXCEPT ![s] = NoRow]
      /\ base' = [base EXCEPT ![s] = NoRow]
  BY DEF Close
<1>2. \A t \in Sessions \ {s} : pc[t] = "idle" /\ view[t] = NoRow /\ base[t] = NoRow
  BY DEF Quietly, Linked, LinkedAt
<1>3. \A t \in Sessions : pc'[t] = "idle" /\ view'[t] = NoRow /\ base'[t] = NoRow
  BY <1>1, <1>2 DEF TypeOK
<1>4. QED BY <1>3, AllIdleQuiet DEF Quietly, QuietAt, GoodFor, EarnedBy

(* What a quiet session leaves in the row. *)
LEMMA NowEarned ==
  ASSUME TypeOK, Linked, Quietly, quiet, NEW s \in Sessions
  PROVE  /\ EarnedBy(Now(s), Together(s))
         /\ row # NoRow /\ Now(s) # NoRow /\ Now(s).pattern # row.pattern => EarnedBy(Now(s), myHits[s])
<1>1. CASE holder = s
  BY <1>1 DEF Linked, LinkedAt, Quietly, QuietAt, GoodFor
<1>2. CASE holder # s
  <2>1. Now(s) = row /\ row \in Copy /\ EarnedBy(row, hits)
    BY <1>2 DEF Now, Quietly, TypeOK, Copy
  <2>2. EarnedBy(row, Together(s))
    BY <2>1, TogetherType, EarnedByMore
  <2>3. QED BY <2>1, <2>2
<1>3. QED BY <1>1, <1>2

(* Nothing makes a run quiet again. *)
LEMMA QuietStays == TypeOK /\ [Next]_vars /\ quiet' => quiet
<1> SUFFICES ASSUME TypeOK, [Next]_vars, quiet' PROVE quiet
  OBVIOUS
<1>1. CASE UNCHANGED vars
  BY <1>1 DEF vars, bounds
<1>2. ASSUME NEW s \in Sessions, Looks(s) \/ Writes(s) \/ Hints(s) \/ Confirms(s) PROVE quiet
  BY <1>2 DEF Looks, Writes, Hints, Confirms
<1>3. ASSUME NEW s \in Sessions, Begin(s) \/ Flush(s) \/ Commit(s) \/ StopEarly(s) \/ Rollback(s) PROVE quiet
  BY <1>3 DEF Begin, Flush, Commit, StopEarly, Rollback, bounds
<1>4. Expire => quiet
  BY DEF Expire
<1>5. QED BY <1>1, <1>2, <1>3, <1>4, StepKinds

LEMMA QuietStep == TypeOK /\ Linked /\ Backed /\ Quietly /\ [Next]_vars => Quietly'
<1> SUFFICES ASSUME TypeOK, Linked, Backed, Quietly, [Next]_vars, quiet' PROVE Quietly'
  BY DEF Quietly
<1>0. quiet
  BY QuietStays
<1>1. ASSUME NEW s \in Sessions, Looks(s) PROVE Quietly'
  BY <1>0, <1>1, GotType, CopyQuietNoHit DEF Looks, NoHitStep
<1>2. ASSUME NEW s \in Sessions, Writes(s) PROVE Quietly'
  <2>1. PICK b \in BOOLEAN : CopyStep(s, WithCatchall(Got(s), b)) /\ myHits' = myHits
    BY <1>2 DEF Writes, NoHitStep
  <2>2. PICK v \in Copy : v = WithCatchall(Got(s), b)
    BY GotType, CatchallType DEF Copy
  <2>3. \/ v.conf = 0 /\ Got(s) = NoRow
        \/ Got(s) # NoRow /\ v.conf = Got(s).conf /\ v.pattern = Got(s).pattern
    <3>1. CASE Got(s) = NoRow
      BY <2>2, <3>1 DEF WithCatchall
    <3>2. CASE Got(s) # NoRow
      <4>1. Got(s) \in Rows
        BY <3>2, GotType DEF Copy
      <4>2. QED BY <2>2, <3>2, <4>1 DEF WithCatchall, Rows
    <3>3. QED BY <3>1, <3>2
  <2>4. QED BY <1>0, <2>1, <2>2, <2>3, CopyQuietNoHit
<1>3. ASSUME NEW s \in Sessions, Hints(s) PROVE Quietly'
  BY <1>3 DEF Hints
<1>4. ASSUME NEW s \in Sessions, Confirms(s) PROVE Quietly'
  BY <1>0, <1>4, CopyQuietHit DEF Confirms
<1>5. ASSUME NEW s \in Sessions, Begin(s) PROVE Quietly'
  <2>1. \A t \in Sessions : pc[t] = "idle" /\ view[t] = NoRow /\ base[t] = NoRow
    BY <1>5 DEF Begin, Linked, LinkedAt
  <2>2. view' = view /\ base' = base /\ row' = row /\ hits' = hits /\ \E n \in PCs : pc' = [pc EXCEPT ![s] = n]
    BY <1>5 DEF Begin, memory, PCs
  <2>3. \A t \in Sessions : pc'[t] # "idle" => t = s
    BY <2>1, <2>2 DEF TypeOK
  <2>4. QED BY <1>0, <2>1, <2>2, <2>3 DEF Quietly, QuietAt, GoodFor, EarnedBy
<1>6. ASSUME NEW s \in Sessions, Flush(s) PROVE Quietly'
  BY <1>0, <1>6, QuietFlush
<1>7. ASSUME NEW s \in Sessions, Commit(s) PROVE Quietly'
  <2>1. Close(s) /\ pc[s] # "idle" /\ row' = Now(s) /\ hits' = Together(s)
    BY <1>7 DEF Commit, Now, Together
  <2>2. EarnedBy(row, hits)'
    BY <1>0, <2>1, NowEarned DEF EarnedBy
  <2>3. QED BY <1>0, <2>1, <2>2, QuietClose
<1>8. ASSUME NEW s \in Sessions, StopEarly(s) PROVE Quietly'
  <2>1. Close(s) /\ pc[s] # "idle" /\ row' = Now(s) /\ hits' = hits /\ Preparing(s)
    BY <1>8 DEF StopEarly, Now, Preparing, Places
  <2>2. Together(s) = hits
    <3>1. \A p \in Patterns : hits[p] + myHits[s][p] = hits[p]
      BY <2>1 DEF Linked, LinkedAt, NoHits, TypeOK
    <3>2. QED BY <3>1 DEF Together, TypeOK
  <2>3. EarnedBy(row, hits)'
    BY <1>0, <2>1, <2>2, NowEarned DEF EarnedBy
  <2>4. QED BY <1>0, <2>1, <2>3, QuietClose
<1>9. ASSUME NEW s \in Sessions, Rollback(s) PROVE Quietly'
  <2>1. Close(s) /\ pc[s] # "idle" /\ row' = row /\ hits' = hits
    BY <1>9 DEF Rollback
  <2>2. QED BY <1>0, <2>1, QuietClose DEF Quietly, EarnedBy
<1>10. ASSUME Expire PROVE Quietly'
  <2>1. \A t \in Sessions : pc[t] = "idle" /\ view[t] = NoRow /\ base[t] = NoRow
    BY <1>10 DEF Expire, Linked, LinkedAt
  <2>2. row' \in Rows /\ row'.conf = row.conf /\ row'.pattern = row.pattern /\ row # NoRow
    BY <1>10 DEF Expire, TypeOK, Rows
  <2>3. UNCHANGED <<pc, view, base, hits>>
    BY <1>10 DEF Expire
  <2>4. EarnedBy(row, hits)'
    BY <1>0, <2>2, <2>3 DEF Quietly, EarnedBy
  <2>5. QED BY <2>1, <2>3, <2>4, AllIdleQuiet DEF Quietly, QuietAt, GoodFor, EarnedBy
<1>11. CASE UNCHANGED vars
  BY <1>11 DEF vars, memory, bounds, Quietly, QuietAt, GoodFor, EarnedBy, Together, Now
<1>12. QED
  BY <1>1, <1>2, <1>3, <1>4, <1>5, <1>6, <1>7, <1>8, <1>9, <1>10, <1>11, StepKinds

-------------------------------------------------------------------------------
(* The theorems *)

LEMMA InvHolds == Spec => []Inv
<1>1. Init => Inv
  BY TypeInit, LinkedInit, BackedInit, QuietInit DEF Inv
<1>2. Inv /\ [Next]_vars => Inv'
  BY TypeStep, LinkedStep, BackedStep, QuietStep DEF Inv
<1>3. QED BY <1>1, <1>2, PTL DEF Spec

(* Types: rows of domain_patterns (models.py 85-96) are rows, in the table and in every
   session's copies, whatever columns an UPDATE names. *)
THEOREM TypeCorrect == Spec => []TypeOK
<1>1. Inv => TypeOK
  BY DEF Inv
<1>2. QED BY <1>1, InvHolds, PTL

(* record_hit, upsert_catchall and remember_deduced_pattern (patterns.py 33-106, 307-339):
   the committed confidence never exceeds the confirmations committed, however
   many sessions overlap and however stale their copies are. *)
THEOREM ConfidenceIsBacked == Spec => []ConfidenceBacked
<1>1. Inv => ConfidenceBacked
  BY DEF Inv, Backed, BackedBy, ConfidenceBacked
<1>2. QED BY <1>1, InvHolds, PTL

(* trusted_pattern (patterns.py 109-116): with one session after another and no deduced
   format, the format of a trusted row was confirmed at least Threshold times. *)
THEOREM TrustIsEarned == Spec => []TrustEarnedInQuiet
<1>1. Inv => TrustEarnedInQuiet
  <2> SUFFICES ASSUME Inv, quiet, Trusted(row) # NoPattern PROVE hits[Trusted(row)] >= Threshold
    BY DEF TrustEarnedInQuiet, TrustEarned
  <2>1. row # NoRow /\ row.conf >= Threshold /\ Trusted(row) = row.pattern
    BY RowAssumption DEF Trusted, Inv, TypeOK, Rows
  <2>2. row.conf <= hits[row.pattern]
    BY <2>1 DEF Inv, Quietly, EarnedBy
  <2>3. row.conf \in Nat /\ hits[row.pattern] \in Nat /\ Threshold \in Nat
    BY <2>1, RowAssumption, RowsAreRows DEF Inv, TypeOK
  <2>4. QED BY <2>1, <2>2, <2>3
<1>2. QED BY <1>1, InvHolds, PTL

(* record_hit (patterns.py 62-106): in such a run a trusted format gives way to another
   one only in a commit that brings at least Threshold confirmations of the new one. *)
THEOREM TrustIsKept == Spec => TrustNotOverwritten
<1> DEFINE old == Trusted(row)
           new == Trusted(row')
           Kept == quiet' /\ NoPattern \notin {old, new} /\ old # new => hits'[new] - hits[new] >= Threshold
<1>1. Inv /\ [Next]_vars => [Kept]_vars
  <2> SUFFICES ASSUME Inv, [Next]_vars, quiet', NoPattern \notin {old, new}, old # new
               PROVE  hits'[new] - hits[new] >= Threshold
    OBVIOUS
  <2>0. quiet /\ TypeOK /\ Linked /\ Quietly /\ TypeOK'
    BY QuietStays, TypeStep DEF Inv
  <2>1. /\ row # NoRow /\ row' # NoRow /\ old = row.pattern /\ new = row'.pattern
        /\ new \in Patterns /\ row'.conf \in Nat /\ row'.conf >= Threshold
    BY <2>0, RowAssumption, RowsAreRows DEF Trusted, TypeOK
  <2> HIDE DEF old, new
  <2>2. ASSUME NEW s \in Sessions, row' = Now(s), Commit(s) \/ StopEarly(s) PROVE hits'[new] - hits[new] >= Threshold
    <3>1. row'.conf <= myHits[s][new]
      BY <2>0, <2>1, <2>2, NowEarned, RowAssumption DEF EarnedBy
    <3>2. myHits[s][new] \in Nat /\ hits[new] \in Nat /\ Threshold \in Nat \ {0}
      BY <2>0, <2>1, RowAssumption DEF TypeOK
    <3>3. CASE Commit(s)
      <4>1. hits'[new] = hits[new] + myHits[s][new]
        BY <2>1, <3>3 DEF Commit
      <4>2. QED BY <2>1, <3>1, <3>2, <4>1
    <3>4. CASE StopEarly(s)
      <4>1. myHits[s][new] = 0
        BY <2>0, <2>1, <3>4 DEF StopEarly, Preparing, Places, Linked, LinkedAt, NoHits
      <4>2. QED BY <2>1, <3>1, <3>2, <4>1
    <3>5. QED BY <2>2, <3>3, <3>4
  <2>3. ASSUME NEW s \in Sessions, Commit(s) \/ StopEarly(s) PROVE row' = Now(s)
    BY <2>3 DEF Commit, StopEarly, Now
  <2>4. row' # row
    BY <2>1 DEF old, new
  <2>5. ASSUME Expire PROVE FALSE
    BY <2>0, <2>1, <2>5 DEF Expire, TypeOK, Rows, old, new
  <2>6. ASSUME NEW s \in Sessions, Looks(s) \/ Writes(s) \/ Hints(s) \/ Confirms(s) \/ Begin(s) \/ Flush(s) \/ Rollback(s)
        PROVE  FALSE
    BY <2>4, <2>6 DEF Looks, Writes, Hints, Confirms, CopyStep, Begin, Flush, Rollback, memory
  <2>7. ~UNCHANGED vars
    BY <2>4 DEF vars, memory
  <2>8. QED BY <2>0, <2>2, <2>3, <2>5, <2>6, <2>7, StepKinds
<1>2. QED BY <1>1, InvHolds, PTL DEF Spec, TrustNotOverwritten

================================================================================
