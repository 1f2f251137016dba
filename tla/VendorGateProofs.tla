---------------------------- MODULE VendorGateProofs ----------------------------
(* The semaphores of the vendor gate, for every number of vendors, requests,
   reconfigurations and permits. *)
EXTENDS VendorGate, FiniteSetTheorems, TLAPS

USE DEF Idle, Waiting, Sending, Backoff, Returned, Raised, Cancelled, InFlightPCs

(* Who is in a line, and that nobody is in it twice. *)
Line(q) == {q[i] : i \in DOMAIN q}
Once(q) == \A i, j \in DOMAIN q : q[i] = q[j] => i = j

(***************************************************************************)
(* Lines                                                                   *)
(***************************************************************************)

LEMMA AppendLine ==
  ASSUME NEW S, NEW q \in Seq(S), NEW r \in S, r \notin Line(q), Once(q)
  PROVE  /\ Append(q, r) \in Seq(S) /\ Append(q, r) # << >>
         /\ Line(Append(q, r)) = Line(q) \cup {r} /\ Once(Append(q, r))
<1>1. /\ Append(q, r) \in Seq(S) /\ Len(Append(q, r)) = Len(q) + 1
      /\ DOMAIN Append(q, r) = 1 .. Len(q) + 1 /\ DOMAIN q = 1 .. Len(q)
      /\ Append(q, r)[Len(q) + 1] = r /\ Len(q) \in Nat
      /\ \A i \in 1 .. Len(q) : Append(q, r)[i] = q[i]
  OBVIOUS
<1>2. Line(Append(q, r)) = Line(q) \cup {r}
  BY <1>1 DEF Line
<1>3. \A i \in 1 .. Len(q) : q[i] # r
  BY <1>1 DEF Line
<1>4. Once(Append(q, r))
  BY <1>1, <1>3 DEF Once
<1>5. QED BY <1>1, <1>2, <1>4

LEMMA TailLine ==
  ASSUME NEW S, NEW q \in Seq(S), q # << >>, Once(q)
  PROVE  /\ Head(q) \in Line(q) /\ Head(q) \in S
         /\ Tail(q) \in Seq(S) /\ Line(Tail(q)) = Line(q) \ {Head(q)} /\ Once(Tail(q))
<1>1. /\ Len(q) \in Nat \ {0} /\ DOMAIN q = 1 .. Len(q) /\ Head(q) = q[1]
      /\ Tail(q) \in Seq(S) /\ DOMAIN Tail(q) = 1 .. Len(q) - 1
      /\ \A i \in 1 .. Len(q) - 1 : Tail(q)[i] = q[i + 1]
  OBVIOUS
<1>2. Head(q) \in Line(q) /\ Head(q) \in S
  BY <1>1 DEF Line
<1>3. Line(Tail(q)) \subseteq Line(q) \ {Head(q)}
  BY <1>1 DEF Line, Once
<1>4. ASSUME NEW x \in Line(q), x # Head(q) PROVE x \in Line(Tail(q))
  <2>1. PICK i \in 1 .. Len(q) : x = q[i]
    BY <1>1 DEF Line
  <2>2. i - 1 \in 1 .. Len(q) - 1 /\ Tail(q)[i - 1] = x
    BY <1>1, <1>4, <2>1
  <2>3. QED BY <1>1, <2>2 DEF Line
<1>5. Once(Tail(q))
  BY <1>1 DEF Once
<1>6. QED BY <1>1, <1>2, <1>3, <1>4, <1>5

LEMMA RemoveLine ==
  ASSUME NEW S, NEW q \in Seq(S), Once(q), NEW i \in DOMAIN q
  PROVE  /\ Without(q, i) \in Seq(S) /\ q # << >>
         /\ Line(Without(q, i)) = Line(q) \ {q[i]} /\ Once(Without(q, i))
<1>1. PICK n \in Nat : n = Len(q) /\ DOMAIN q = 1 .. n /\ n # 0 /\ i \in 1 .. n /\ q # << >>
  OBVIOUS
<1>2. PICK k : k = Without(q, i)
  OBVIOUS
<1>3. /\ DOMAIN k = 1 .. n - 1
      /\ \A j \in 1 .. n - 1 : j < i => k[j] = q[j]
      /\ \A j \in 1 .. n - 1 : j >= i => k[j] = q[j + 1]
      /\ k \in Seq(S)
  <2>1. k = [j \in 1 .. n - 1 |-> IF j < i THEN q[j] ELSE q[j + 1]]
    BY <1>1, <1>2 DEF Without
  <2>2. \A j \in 1 .. n - 1 : j \in 1 .. n /\ j + 1 \in 1 .. n
    BY <1>1
  <2>3. \A j \in 1 .. n : q[j] \in S
    BY <1>1
  <2>4. \A j \in 1 .. n - 1 : (IF j < i THEN q[j] ELSE q[j + 1]) \in S
    BY <2>2, <2>3
  <2>5. n - 1 \in Nat
    BY <1>1
  <2>6. k \in Seq(S)
    BY <2>1, <2>4, <2>5
  <2>7. QED BY <2>1, <2>6
<1>4. ASSUME NEW j \in 1 .. n - 1 PROVE k[j] \in Line(q) /\ k[j] # q[i]
  <2>1. CASE j < i
    BY <1>1, <1>3, <2>1 DEF Line, Once
  <2>2. CASE j >= i
    <3>1. k[j] = q[j + 1] /\ j + 1 \in 1 .. n /\ j + 1 # i
      BY <1>1, <1>3, <2>2
    <3>2. QED BY <1>1, <3>1 DEF Line, Once
  <2>3. QED BY <1>1, <2>1, <2>2
<1>5. ASSUME NEW x \in Line(q), x # q[i] PROVE x \in Line(k)
  <2>1. PICK j \in 1 .. n : x = q[j]
    BY <1>1 DEF Line
  <2>2. CASE j < i
    <3>1. j \in 1 .. n - 1 /\ k[j] = x
      BY <1>1, <1>3, <2>1, <2>2
    <3>2. QED BY <1>3, <3>1 DEF Line
  <2>3. CASE j > i
    <3>1. PICK m \in 1 .. n - 1 : j = m + 1
      BY <1>1, <2>3
    <3>2. k[m] = x
      BY <1>1, <1>3, <2>1, <2>3, <3>1
    <3>3. QED BY <1>3, <3>2 DEF Line
  <2>4. QED BY <1>1, <1>5, <2>1, <2>2, <2>3
<1>6. Line(k) = Line(q) \ {q[i]}
  BY <1>3, <1>4, <1>5 DEF Line
<1>7. ASSUME NEW j \in 1 .. n - 1, NEW m \in 1 .. n - 1, k[j] = k[m] PROVE j = m
  <2>1. \A a, b \in 1 .. n : q[a] = q[b] => a = b
    BY <1>1 DEF Once
  <2>2. j + 1 \in 1 .. n /\ m + 1 \in 1 .. n /\ j \in 1 .. n /\ m \in 1 .. n
    BY <1>1
  <2>3. PICK a \in 1 .. n, b \in 1 .. n :
          /\ k[j] = q[a] /\ a = IF j < i THEN j ELSE j + 1
          /\ k[m] = q[b] /\ b = IF m < i THEN m ELSE m + 1
    <3>1. PICK a \in 1 .. n : k[j] = q[a] /\ a = IF j < i THEN j ELSE j + 1
      BY <1>1, <1>3, <2>2
    <3>2. PICK b \in 1 .. n : k[m] = q[b] /\ b = IF m < i THEN m ELSE m + 1
      BY <1>1, <1>3, <2>2
    <3>3. QED BY <3>1, <3>2
  <2>4. a = b
    BY <1>7, <2>1, <2>3
  <2>5. QED BY <1>1, <2>3, <2>4
<1>8. Once(k)
  BY <1>3, <1>7 DEF Once
<1>9. QED BY <1>1, <1>2, <1>3, <1>6, <1>8

(***************************************************************************)
(* The invariant                                                           *)
(***************************************************************************)

(* Whoever waits or holds has a semaphore, and every semaphore that somebody knows
   has been created: a new one has no holder and no line. *)
Placed ==
  /\ \A r \in Requests : pc[r] \in {Waiting, Sending, Backoff} => slot[r] \in Sems
  /\ \A r \in Requests : slot[r] \in Sems => Created(slot[r])
  /\ \A v \in Vendors : bucket[v] \in Sems => Created(bucket[v])

GateInv == TypeOK /\ Placed /\ LineIsExact /\ NoIdlePermit /\ PermitsConserved

USE DEF PCs

LEMMA GateInit == Init => GateInv
<1> SUFFICES ASSUME Init PROVE GateInv
  OBVIOUS
<1>1. TypeOK
  <2>1. limit \in [Vendors -> Nat \ {0}]
    BY GateAssumption DEF Init
  <2>2. QED BY <2>1 DEF Init, TypeOK
<1>2. Placed /\ NoIdlePermit
  BY GateAssumption DEF Init, Placed, NoIdlePermit
<1>3. LineIsExact
  BY DEF Init, LineIsExact
<1>4. PermitsConserved
  <2>1. \A s \in Sems : Holders(s) = {}
    BY DEF Init, Holders
  <2>2. Cardinality({}) = 0
    BY FS_EmptySet
  <2>3. \A s \in Sems : free[s] = 0 /\ size[s] = 0
    BY DEF Init
  <2>4. QED BY <2>1, <2>2, <2>3 DEF PermitsConserved
<1>5. QED BY <1>1, <1>2, <1>3, <1>4 DEF GateInv

LEMMA HoldersFinite ==
  ASSUME NEW s PROVE IsFiniteSet(Holders(s)) /\ Cardinality(Holders(s)) \in Nat
BY GateAssumption, FS_Subset, FS_CardinalityType DEF Holders

(* What a line is, said with Line and Once. *)
LEMMA LineFacts ==
  ASSUME GateInv, NEW s \in Sems
  PROVE  /\ queue[s] \in Seq(Requests) /\ Once(queue[s])
         /\ Line(queue[s]) = {r \in Requests : pc[r] = Waiting /\ slot[r] = s}
BY DEF GateInv, TypeOK, LineIsExact, Line, Once

(* A new semaphore is nobody's. *)
LEMMA NewSem ==
  ASSUME GateInv, NEW s \in Sems, ~Created(s)
  PROVE  queue[s] = << >> /\ Holders(s) = {}
<1>1. Line(queue[s]) = {}
  BY LineFacts DEF GateInv, Placed
<1>2. queue[s] = << >>
  BY <1>1, LineFacts, TailLine
<1>3. Holders(s) = {}
  BY DEF GateInv, Placed, Holders
<1>4. QED BY <1>2, <1>3

(* The semaphores nobody touches. *)
LEMMA OtherSem ==
  ASSUME GateInv, NEW s \in Sems, size'[s] = size[s], free'[s] = free[s], queue'[s] = queue[s],
         \A r \in Requests :
           \/ slot'[r] = slot[r] /\ (pc[r] = Waiting <=> pc'[r] = Waiting)
              /\ (pc[r] \in InFlightPCs <=> pc'[r] \in InFlightPCs)
           \/ (slot[r] # s \/ pc[r] \notin {Waiting, Sending, Backoff})
              /\ (slot'[r] # s \/ pc'[r] \notin {Waiting, Sending, Backoff})
  PROVE  /\ free'[s] + Cardinality(Holders(s)') = size'[s]
         /\ queue'[s] # << >> => free'[s] = 0
         /\ Line(queue'[s]) = {r \in Requests : pc'[r] = Waiting /\ slot'[r] = s}
         /\ Once(queue'[s])
<1>1. Holders(s)' = Holders(s)
  BY DEF Holders
<1>2. {r \in Requests : pc'[r] = Waiting /\ slot'[r] = s}
        = {r \in Requests : pc[r] = Waiting /\ slot[r] = s}
  OBVIOUS
<1>3. QED
  BY <1>1, <1>2, LineFacts DEF GateInv, PermitsConserved, NoIdlePermit

(* The invariant after a step, from what is true of each semaphore. *)
LEMMA EachSem ==
  ASSUME TypeOK', Placed',
         \A s \in Sems :
           /\ free'[s] + Cardinality(Holders(s)') = size'[s]
           /\ queue'[s] # << >> => free'[s] = 0
           /\ Line(queue'[s]) = {r \in Requests : pc'[r] = Waiting /\ slot'[r] = s}
           /\ Once(queue'[s])
  PROVE  GateInv'
BY DEF GateInv, PermitsConserved, NoIdlePermit, LineIsExact, Line, Once

(***************************************************************************)
(* The steps                                                               *)
(***************************************************************************)

LEMMA ConfigureGate == ASSUME GateInv, Configure PROVE GateInv'
<1>1. PICK raw \in [Vendors -> Settings] : limit' = [v \in Vendors |-> Clamp(raw[v])]
  BY DEF Configure
<1>2. ASSUME NEW v \in Vendors PROVE Clamp(raw[v]) \in Nat \ {0}
  <2>1. PICK n \in Int : n = raw[v]
    BY GateAssumption
  <2>2. Cap \in Nat \ {0}
    BY GateAssumption
  <2>3. Clamp(n) \in Nat \ {0}
    BY <2>2 DEF Clamp
  <2>4. QED BY <2>1, <2>3
<1>3. TypeOK' /\ Placed'
  BY <1>1, <1>2, GateAssumption DEF Configure, GateInv, TypeOK, Placed, Created
<1>4. UNCHANGED <<size, free, queue, pc, slot>>
  BY DEF Configure
<1>5. QED BY <1>3, <1>4, OtherSem, EachSem

(* Between requests: the retry loop keeps its slot. *)
LEMMA LoopGate == ASSUME GateInv, NEW r \in Requests, Retry(r) \/ Resend(r) PROVE GateInv'
<1>1. /\ pc[r] \in InFlightPCs /\ UNCHANGED <<size, free, queue, slot, bucket, limit>>
      /\ \E place \in InFlightPCs : pc' = [pc EXCEPT ![r] = place]
  BY DEF Retry, Resend
<1>2. /\ pc' \in [Requests -> PCs] /\ pc'[r] \in InFlightPCs
      /\ \A q \in Requests \ {r} : pc'[q] = pc[q]
  BY <1>1 DEF GateInv, TypeOK
<1>3. attempt' \in [Requests -> Nat] /\ configures' = configures
  BY DEF Retry, Resend, GateInv, TypeOK
<1>4. TypeOK' /\ Placed'
  BY <1>1, <1>2, <1>3 DEF GateInv, TypeOK, Placed, Created
<1>5. \A q \in Requests : /\ pc[q] = Waiting <=> pc'[q] = Waiting
                          /\ pc[q] \in InFlightPCs <=> pc'[q] \in InFlightPCs
  BY <1>1, <1>2
<1>6. QED BY <1>1, <1>4, <1>5, OtherSem, EachSem

(* A request takes a permit of a semaphore, or gets in its line. *)
LEMMA EnterOnGate ==
  ASSUME GateInv, NEW r \in Requests, pc[r] = Idle, NEW s \in Sems, NEW permits \in Nat,
         EnterOn(r, s, permits, queue[s]), queue[s] # << >> => permits = 0,
         permits + Cardinality(Holders(s)) = size'[s], size'[s] # 0,
         \A z \in Sems \ {s} : size'[z] = size[z],
         size' \in [Sems -> Nat], bucket' \in [Vendors -> Sems \cup {NoSem}],
         \A v \in Vendors : bucket'[v] \in {bucket[v], NoSem, s},
         UNCHANGED <<limit, attempt, configures>>
  PROVE  GateInv'
<1>1. /\ slot' = [slot EXCEPT ![r] = s]
      /\ slot'[r] = s /\ \A q \in Requests \ {r} : slot'[q] = slot[q]
      /\ slot' \in [Requests -> Sems \cup {NoSem}]
  BY DEF EnterOn, GateInv, TypeOK
<1>2. CASE permits > 0 /\ queue[s] = << >>
  <2>1. /\ pc' = [pc EXCEPT ![r] = Sending] /\ free' = [free EXCEPT ![s] = permits - 1]
        /\ queue' = queue
    BY <1>2 DEF EnterOn
  <2>2. /\ pc'[r] = Sending /\ \A q \in Requests \ {r} : pc'[q] = pc[q]
        /\ free'[s] = permits - 1 /\ \A z \in Sems \ {s} : free'[z] = free[z]
        /\ pc' \in [Requests -> PCs] /\ free' \in [Sems -> Nat]
    BY <1>2, <2>1 DEF GateInv, TypeOK
  <2>3. TypeOK' /\ Placed'
    <3>1. TypeOK'
      BY <1>1, <2>1, <2>2 DEF GateInv, TypeOK
    <3>2. ASSUME NEW q \in Requests PROVE slot'[q] \in Sems => size'[slot'[q]] # 0
      <4>1. CASE q = r
        BY <1>1, <4>1 DEF Created
      <4>2. CASE q # r
        BY <1>1, <4>2 DEF GateInv, Placed, Created
      <4>3. QED BY <4>1, <4>2
    <3>3. \A q \in Requests : pc'[q] \in {Waiting, Sending, Backoff} => slot'[q] \in Sems
      BY <1>1, <2>2 DEF GateInv, Placed
    <3>4. ASSUME NEW v \in Vendors PROVE bucket'[v] \in Sems => size'[bucket'[v]] # 0
      BY GateAssumption DEF GateInv, Placed, Created
    <3>5. QED BY <3>1, <3>2, <3>3, <3>4 DEF Placed, Created
  <2>4. free'[s] + Cardinality(Holders(s)') = size'[s]
    <3>1. Holders(s)' = Holders(s) \cup {r} /\ r \notin Holders(s)
      BY <1>1, <2>2 DEF Holders
    <3>2. Cardinality(Holders(s)') = Cardinality(Holders(s)) + 1
      BY <3>1, HoldersFinite, FS_AddElement
    <3>3. QED BY <2>2, <3>2, HoldersFinite
  <2>5. /\ {q \in Requests : pc'[q] = Waiting /\ slot'[q] = s}
             = {q \in Requests : pc[q] = Waiting /\ slot[q] = s}
        /\ Line(queue'[s]) = {q \in Requests : pc'[q] = Waiting /\ slot'[q] = s}
        /\ Once(queue'[s])
    BY <1>1, <2>1, <2>2, LineFacts
  <2>6. \A z \in Sems \ {s} :
          /\ free'[z] + Cardinality(Holders(z)') = size'[z]
          /\ queue'[z] # << >> => free'[z] = 0
          /\ Line(queue'[z]) = {q \in Requests : pc'[q] = Waiting /\ slot'[q] = z}
          /\ Once(queue'[z])
    BY <1>1, <2>1, <2>2, OtherSem
  <2>7. QED BY <1>2, <2>1, <2>3, <2>4, <2>5, <2>6, EachSem
<1>3. CASE ~(permits > 0 /\ queue[s] = << >>)
  <2>1. /\ pc' = [pc EXCEPT ![r] = Waiting] /\ free' = [free EXCEPT ![s] = permits]
        /\ queue' = [queue EXCEPT ![s] = Append(queue[s], r)]
        /\ permits = 0
    BY <1>3 DEF EnterOn
  <2>2. /\ pc'[r] = Waiting /\ \A q \in Requests \ {r} : pc'[q] = pc[q]
        /\ free'[s] = 0 /\ \A z \in Sems \ {s} : free'[z] = free[z]
        /\ pc' \in [Requests -> PCs] /\ free' \in [Sems -> Nat]
    BY <2>1 DEF GateInv, TypeOK
  <2>3. r \notin Line(queue[s])
    BY LineFacts
  <2>4. /\ queue'[s] = Append(queue[s], r) /\ \A z \in Sems \ {s} : queue'[z] = queue[z]
        /\ queue' \in [Sems -> Seq(Requests)]
    BY <2>1 DEF GateInv, TypeOK
  <2>5. TypeOK' /\ Placed'
    <3>1. TypeOK'
      BY <1>1, <2>2, <2>4 DEF GateInv, TypeOK
    <3>2. ASSUME NEW q \in Requests PROVE slot'[q] \in Sems => size'[slot'[q]] # 0
      <4>1. CASE q = r
        BY <1>1, <4>1 DEF Created
      <4>2. CASE q # r
        BY <1>1, <4>2 DEF GateInv, Placed, Created
      <4>3. QED BY <4>1, <4>2
    <3>3. \A q \in Requests : pc'[q] \in {Waiting, Sending, Backoff} => slot'[q] \in Sems
      BY <1>1, <2>2 DEF GateInv, Placed
    <3>4. ASSUME NEW v \in Vendors PROVE bucket'[v] \in Sems => size'[bucket'[v]] # 0
      BY GateAssumption DEF GateInv, Placed, Created
    <3>5. QED BY <3>1, <3>2, <3>3, <3>4 DEF Placed, Created
  <2>6. Holders(s)' = Holders(s)
    BY <1>1, <2>2 DEF Holders
  <2>7. /\ Line(queue'[s]) = {q \in Requests : pc'[q] = Waiting /\ slot'[q] = s}
        /\ Once(queue'[s])
    <3>1. Line(queue'[s]) = Line(queue[s]) \cup {r} /\ Once(queue'[s])
      BY <2>3, <2>4, LineFacts, AppendLine
    <3>2. Line(queue[s]) = {q \in Requests : pc[q] = Waiting /\ slot[q] = s}
      BY LineFacts
    <3>3. {q \in Requests : pc'[q] = Waiting /\ slot'[q] = s}
            = {q \in Requests : pc[q] = Waiting /\ slot[q] = s} \cup {r}
      BY <1>1, <2>2
    <3>4. QED BY <3>1, <3>2, <3>3
  <2>8. \A z \in Sems \ {s} :
          /\ free'[z] + Cardinality(Holders(z)') = size'[z]
          /\ queue'[z] # << >> => free'[z] = 0
          /\ Line(queue'[z]) = {q \in Requests : pc'[q] = Waiting /\ slot'[q] = z}
          /\ Once(queue'[z])
    BY <1>1, <2>2, <2>4, OtherSem
  <2>9. QED BY <2>1, <2>2, <2>5, <2>6, <2>7, <2>8, EachSem
<1>4. QED BY <1>2, <1>3

LEMMA EnterGate ==
  ASSUME GateInv, NEW r \in Requests, EnterExisting(r) \/ EnterNew(r) PROVE GateInv'
<1>1. CASE EnterExisting(r)
  <2>1. PICK s \in Sems : /\ s = bucket[VendorOf[r]] /\ pc[r] = Idle
                          /\ EnterOn(r, s, free[s], queue[s])
                          /\ UNCHANGED <<limit, bucket, size, attempt, configures>>
    BY <1>1, GateAssumption DEF EnterExisting, GateInv, TypeOK
  <2>2. /\ free[s] \in Nat /\ size[s] # 0 /\ (queue[s] # << >> => free[s] = 0)
        /\ free[s] + Cardinality(Holders(s)) = size[s]
    BY <2>1, GateAssumption DEF GateInv, TypeOK, Placed, Created, NoIdlePermit, PermitsConserved
  <2>3. size' \in [Sems -> Nat] /\ bucket' \in [Vendors -> Sems \cup {NoSem}]
    BY <2>1 DEF GateInv, TypeOK
  <2>4. QED BY <2>1, <2>2, <2>3, EnterOnGate
<1>2. CASE EnterNew(r)
  <2>1. PICK s \in Sems :
          /\ ~Created(s) /\ pc[r] = Idle
          /\ size' = [size EXCEPT ![s] = limit[VendorOf[r]]]
          /\ bucket' = [bucket EXCEPT ![VendorOf[r]] = s]
          /\ EnterOn(r, s, limit[VendorOf[r]], << >>)
          /\ UNCHANGED <<limit, attempt, configures>>
    <3>1. \A s \in Fresh : s \in Sems /\ ~Created(s)
      BY DEF Fresh
    <3>2. QED BY <1>2, <3>1 DEF EnterNew
  <2>2. queue[s] = << >> /\ Cardinality(Holders(s)) = 0
    BY <2>1, NewSem, FS_EmptySet
  <2>3. limit[VendorOf[r]] \in Nat \ {0} /\ VendorOf[r] \in Vendors
    BY GateAssumption DEF GateInv, TypeOK
  <2>4. /\ size' \in [Sems -> Nat] /\ size'[s] = limit[VendorOf[r]]
        /\ \A z \in Sems \ {s} : size'[z] = size[z]
        /\ bucket' \in [Vendors -> Sems \cup {NoSem}]
        /\ \A v \in Vendors : bucket'[v] \in {bucket[v], s}
    BY <2>1, <2>3 DEF GateInv, TypeOK
  <2>5. QED BY <2>1, <2>2, <2>3, <2>4, EnterOnGate
<1>3. QED BY <1>1, <1>2
(* A holder leaves: its permit goes to the first in line, or back. *)
LEMMA ReleaseGate ==
  ASSUME GateInv, NEW r \in Requests, pc[r] \in InFlightPCs, NEW end \in Ended,
         Release(slot[r], r, end), UNCHANGED <<limit, bucket, size, slot, attempt, configures>>
  PROVE  GateInv'
<1>1. PICK s \in Sems : s = slot[r]
  BY DEF GateInv, Placed
<1>2. r \in Holders(s) /\ end \in PCs \ {Waiting, Sending, Backoff}
  BY <1>1 DEF Holders, Ended
<1>3. CASE queue[s] = << >>
  <2>1. /\ free' = [free EXCEPT ![s] = free[s] + 1] /\ queue' = queue
        /\ pc' = [pc EXCEPT ![r] = end]
    BY <1>1, <1>3 DEF Release
  <2>2. /\ pc'[r] = end /\ \A q \in Requests \ {r} : pc'[q] = pc[q]
        /\ free'[s] = free[s] + 1 /\ \A z \in Sems \ {s} : free'[z] = free[z]
        /\ pc' \in [Requests -> PCs] /\ free' \in [Sems -> Nat]
    BY <1>2, <2>1 DEF GateInv, TypeOK
  <2>3. TypeOK' /\ Placed'
    BY <1>2, <2>1, <2>2 DEF GateInv, TypeOK, Placed, Created
  <2>4. free'[s] + Cardinality(Holders(s)') = size'[s]
    <3>1. Holders(s)' = Holders(s) \ {r}
      BY <1>2, <2>2 DEF Holders
    <3>2. Cardinality(Holders(s)') = Cardinality(Holders(s)) - 1
      BY <1>2, <3>1, HoldersFinite, FS_RemoveElement
    <3>3. free[s] \in Nat /\ free[s] + Cardinality(Holders(s)) = size[s]
      BY DEF GateInv, TypeOK, PermitsConserved
    <3>4. QED BY <2>2, <3>2, <3>3, HoldersFinite
  <2>5. \A q \in Requests : pc'[q] = Waiting <=> pc[q] = Waiting
    BY <1>2, <2>2
  <2>6. Line(queue'[s]) = {q \in Requests : pc'[q] = Waiting /\ slot'[q] = s} /\ Once(queue'[s])
    BY <2>1, <2>5, LineFacts
  <2>7. \A z \in Sems \ {s} :
          /\ free'[z] + Cardinality(Holders(z)') = size'[z]
          /\ queue'[z] # << >> => free'[z] = 0
          /\ Line(queue'[z]) = {q \in Requests : pc'[q] = Waiting /\ slot'[q] = z}
          /\ Once(queue'[z])
    BY <1>1, <2>1, <2>2, OtherSem
  <2>8. QED BY <1>3, <2>1, <2>3, <2>4, <2>6, <2>7, EachSem
<1>4. CASE queue[s] # << >>
  <2>1. PICK h \in Requests : /\ h = Head(queue[s]) /\ h \in Line(queue[s])
                              /\ Tail(queue[s]) \in Seq(Requests) /\ Once(Tail(queue[s]))
                              /\ Line(Tail(queue[s])) = Line(queue[s]) \ {h}
    BY <1>4, LineFacts, TailLine
  <2>2. pc[h] = Waiting /\ slot[h] = s /\ h # r
    BY <1>2, <2>1, LineFacts DEF Holders
  <2>3. /\ free' = free /\ queue' = [queue EXCEPT ![s] = Tail(queue[s])]
        /\ pc' = [pc EXCEPT ![r] = end, ![h] = Sending]
    BY <1>1, <1>4, <2>1 DEF Release
  <2>4. /\ pc'[r] = end /\ pc'[h] = Sending /\ \A q \in Requests \ {r, h} : pc'[q] = pc[q]
        /\ pc' \in [Requests -> PCs]
    BY <1>2, <2>2, <2>3 DEF GateInv, TypeOK
  <2>5. /\ queue'[s] = Tail(queue[s]) /\ \A z \in Sems \ {s} : queue'[z] = queue[z]
        /\ queue' \in [Sems -> Seq(Requests)]
    BY <2>1, <2>3 DEF GateInv, TypeOK
  <2>6. TypeOK' /\ Placed'
    <3>1. TypeOK'
      BY <2>3, <2>4, <2>5 DEF GateInv, TypeOK
    <3>2. \A q \in Requests : pc'[q] \in {Waiting, Sending, Backoff}
                                => pc[q] \in {Waiting, Sending, Backoff}
      BY <1>2, <2>2, <2>4
    <3>3. QED BY <3>1, <3>2 DEF GateInv, Placed, Created
  <2>7. free'[s] = 0 /\ free'[s] + Cardinality(Holders(s)') = size'[s]
    <3>1. Holders(s)' = (Holders(s) \ {r}) \cup {h} /\ h \notin Holders(s) \ {r}
      BY <1>2, <2>2, <2>4 DEF Holders
    <3>2. /\ IsFiniteSet(Holders(s) \ {r})
          /\ Cardinality(Holders(s) \ {r}) = Cardinality(Holders(s)) - 1
      BY <1>2, HoldersFinite, FS_RemoveElement
    <3>3. Cardinality(Holders(s)') = Cardinality(Holders(s) \ {r}) + 1
      BY <3>1, <3>2, FS_AddElement
    <3>4. free[s] = 0 /\ free[s] + Cardinality(Holders(s)) = size[s]
      BY <1>4 DEF GateInv, NoIdlePermit, PermitsConserved
    <3>5. QED BY <2>3, <3>2, <3>3, <3>4, HoldersFinite
  <2>8. Line(queue'[s]) = {q \in Requests : pc'[q] = Waiting /\ slot'[q] = s} /\ Once(queue'[s])
    <3>1. Line(queue[s]) = {q \in Requests : pc[q] = Waiting /\ slot[q] = s}
      BY LineFacts
    <3>2. {q \in Requests : pc'[q] = Waiting /\ slot'[q] = s}
            = {q \in Requests : pc[q] = Waiting /\ slot[q] = s} \ {h}
      BY <1>2, <2>2, <2>4
    <3>3. QED BY <2>1, <2>5, <3>1, <3>2
  <2>9. \A z \in Sems \ {s} :
          /\ free'[z] + Cardinality(Holders(z)') = size'[z]
          /\ queue'[z] # << >> => free'[z] = 0
          /\ Line(queue'[z]) = {q \in Requests : pc'[q] = Waiting /\ slot'[q] = z}
          /\ Once(queue'[z])
    <3>1. ASSUME NEW z \in Sems \ {s}, NEW q \in Requests
          PROVE  \/ slot'[q] = slot[q] /\ (pc[q] = Waiting <=> pc'[q] = Waiting)
                    /\ (pc[q] \in InFlightPCs <=> pc'[q] \in InFlightPCs)
                 \/ (slot[q] # z \/ pc[q] \notin {Waiting, Sending, Backoff})
                    /\ (slot'[q] # z \/ pc'[q] \notin {Waiting, Sending, Backoff})
      BY <1>1, <2>2, <2>4
    <3>2. QED BY <2>3, <2>5, <3>1, OtherSem
  <2>10. QED BY <2>6, <2>7, <2>8, <2>9, EachSem
<1>5. QED BY <1>3, <1>4

(* A request that is cancelled while it waits leaves the line. *)
LEMMA LeaveGate ==
  ASSUME GateInv, NEW r \in Requests, pc[r] = Waiting, NEW i \in DOMAIN queue[slot[r]],
         queue[slot[r]][i] = r, queue' = [queue EXCEPT ![slot[r]] = Without(@, i)],
         pc' = [pc EXCEPT ![r] = Cancelled], free' = free,
         UNCHANGED <<limit, bucket, size, slot, attempt, configures>>
  PROVE  GateInv'
<1>1. PICK s \in Sems : s = slot[r]
  BY DEF GateInv, Placed
<1>2. PICK line \in Seq(Requests) : line = Without(queue[s], i)
  BY <1>1, LineFacts, RemoveLine
<1>3. Line(line) = Line(queue[s]) \ {r} /\ Once(line) /\ queue[s] # << >>
  BY <1>1, <1>2, LineFacts, RemoveLine
<1>4. /\ queue'[s] = line /\ \A z \in Sems \ {s} : queue'[z] = queue[z]
      /\ queue' \in [Sems -> Seq(Requests)]
  BY <1>1, <1>2 DEF GateInv, TypeOK
<1>5. /\ pc'[r] = Cancelled /\ \A q \in Requests \ {r} : pc'[q] = pc[q]
      /\ pc' \in [Requests -> PCs]
  BY DEF GateInv, TypeOK
<1>6. TypeOK' /\ Placed'
  BY <1>4, <1>5 DEF GateInv, TypeOK, Placed, Created
<1>7. free'[s] = 0 /\ free'[s] + Cardinality(Holders(s)') = size'[s]
  <2>1. Holders(s)' = Holders(s)
    BY <1>5 DEF Holders
  <2>2. QED BY <1>3, <2>1 DEF GateInv, NoIdlePermit, PermitsConserved
<1>8. Line(queue'[s]) = {q \in Requests : pc'[q] = Waiting /\ slot'[q] = s} /\ Once(queue'[s])
  <2>1. Line(queue[s]) = {q \in Requests : pc[q] = Waiting /\ slot[q] = s}
    BY LineFacts
  <2>2. {q \in Requests : pc'[q] = Waiting /\ slot'[q] = s}
          = {q \in Requests : pc[q] = Waiting /\ slot[q] = s} \ {r}
    BY <1>5
  <2>3. QED BY <1>3, <1>4, <2>1, <2>2
<1>9. \A z \in Sems \ {s} :
        /\ free'[z] + Cardinality(Holders(z)') = size'[z]
        /\ queue'[z] # << >> => free'[z] = 0
        /\ Line(queue'[z]) = {q \in Requests : pc'[q] = Waiting /\ slot'[q] = z}
        /\ Once(queue'[z])
  BY <1>1, <1>4, <1>5, OtherSem
<1>10. QED BY <1>6, <1>7, <1>8, <1>9, EachSem

LEMMA GateNext == ASSUME GateInv, [Next]_vars PROVE GateInv'
<1>1. CASE Configure
  BY <1>1, ConfigureGate
<1>2. ASSUME NEW r \in Requests, EnterExisting(r) \/ EnterNew(r) PROVE GateInv'
  BY <1>2, EnterGate
<1>3. ASSUME NEW r \in Requests, Retry(r) \/ Resend(r) PROVE GateInv'
  BY <1>3, LoopGate
<1>4. ASSUME NEW r \in Requests, Respond(r) \/ Raise(r) PROVE GateInv'
  BY <1>4, ReleaseGate DEF Respond, Raise, Ended
<1>5. ASSUME NEW r \in Requests, Cancel(r) PROVE GateInv'
  <2>1. CASE pc[r] \in InFlightPCs /\ Release(slot[r], r, Cancelled)
    BY <1>5, <2>1, ReleaseGate DEF Cancel, Ended
  <2>2. CASE ~(pc[r] \in InFlightPCs /\ Release(slot[r], r, Cancelled))
    BY <1>5, <2>2, LeaveGate DEF Cancel
  <2>3. QED BY <2>1, <2>2
<1>6. CASE UNCHANGED vars
  <2>1. UNCHANGED <<limit, bucket, size, free, queue, pc, slot, attempt, configures>>
    BY <1>6 DEF vars
  <2>2. TypeOK' /\ Placed'
    BY <2>1 DEF GateInv, TypeOK, Placed, Created
  <2>3. QED BY <2>1, <2>2, OtherSem, EachSem
<1>7. QED BY <1>1, <1>2, <1>3, <1>4, <1>5, <1>6 DEF Next

LEMMA GateAlways == Spec => []GateInv
<1>1. Init => GateInv
  BY GateInit
<1>2. GateInv /\ [Next]_vars => GateInv'
  BY GateNext
<1>3. QED BY <1>1, <1>2, PTL DEF Spec

(* limits.vendor_slot and request_with_backoff: whatever is configured, entered,
   retried or cancelled, every variable of the gate keeps its type. *)
THEOREM GateTypes == Spec => []TypeOK
<1>1. GateInv => TypeOK
  BY DEF GateInv
<1>2. QED BY <1>1, GateAlways, PTL

(* limits.vendor_semaphore: the free permits of a semaphore and the requests that
   hold one add up to the limit it was made with, hand-overs, backoff, errors and
   cancellations included, also for a semaphore a later run has forgotten. *)
THEOREM PermitsAreConserved == Spec => []PermitsConserved
<1>1. GateInv => PermitsConserved
  BY DEF GateInv
<1>2. QED BY <1>1, GateAlways, PTL

(* limits.vendor_slot: no request waits at a semaphore that has a permit to give. *)
THEOREM NobodyWaitsForNothing == Spec => []NoIdlePermit
<1>1. GateInv => NoIdlePermit
  BY DEF GateInv
<1>2. QED BY <1>1, GateAlways, PTL

(* limits.vendor_slot: a line holds exactly the requests that wait at its semaphore,
   each once: a cancelled request is never handed a permit. *)
THEOREM LinesAreExact == Spec => []LineIsExact
<1>1. GateInv => LineIsExact
  BY DEF GateInv
<1>2. QED BY <1>1, GateAlways, PTL
=================================================================================
