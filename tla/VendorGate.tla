------------------------------ MODULE VendorGate ------------------------------
(***************************************************************************)
(* The per-vendor gate in front of every Hunter and verifier HTTP call     *)
(* (src/src/finder/limits.py).  A request enters `vendor_slot`, which looks *)
(* the vendor's semaphore up (creating it when there is none), queues on   *)
(* it, and keeps the slot through the whole retry loop of                  *)
(* request_with_backoff.  Every execute_run calls configure_from_settings, *)
(* which forgets the semaphores of the running loop: the next request      *)
(* makes a new one, while the requests of the old one still hold and queue *)
(* on theirs.                                                              *)
(*                                                                         *)
(* One event loop, so steps interleave only at awaits.  A semaphore is an  *)
(* id of Sems that is never reused: in the code too, an old semaphore      *)
(* lives on in the requests that hold it.                                  *)
(***************************************************************************)
EXTENDS Integers, FiniteSets, Sequences

CONSTANTS
  Vendors,      \* VENDOR_VERIFIER, VENDOR_HUNTER
  Requests,     \* calls of request_with_backoff
  VendorOf,     \* the `vendor` argument of each call
  Sems,         \* ids for the semaphores that get created (bounds them)
  NoSem,        \* "no semaphore in the bucket"
  DefaultLimit, \* limits._DEFAULTS
  Settings,     \* raw limits the configuration may give, out of range included
  Cap,          \* CONCURRENCY_CAP
  MaxRetries,   \* max_retries
  MaxConfigures \* bound on the reconfigurations explored

ASSUME GateAssumption ==
  /\ VendorOf \in [Requests -> Vendors]
  /\ NoSem \notin Sems
  /\ Cap \in Nat \ {0}
  /\ DefaultLimit \in [Vendors -> 1 .. Cap]
  /\ Settings \subseteq Int
  /\ MaxRetries \in Nat
  /\ MaxConfigures \in Nat
  /\ IsFiniteSet(Requests)

VARIABLES
  limit,      \* _limits: vendor -> in-flight cap
  bucket,     \* _semaphores[loop]: vendor -> semaphore, or NoSem
  size,       \* what each semaphore was created with; 0 = not created yet
  free,       \* asyncio.Semaphore._value
  queue,      \* asyncio.Semaphore._waiters, first come first served
  pc,         \* where each request is
  slot,       \* the semaphore a request queues on or holds
  attempt,    \* `attempt` of the retry loop
  configures  \* reconfigurations so far (bound only)

vars == <<limit, bucket, size, free, queue, pc, slot, attempt, configures>>

Idle == "idle"           \* not called yet
Waiting == "waiting"     \* in Semaphore.acquire
Sending == "sending"     \* awaiting client.request
Backoff == "backoff"     \* awaiting asyncio.sleep(delay), slot still held
Returned == "returned"   \* a response was returned (also a retryable one, at the end)
Raised == "raised"       \* the last transport error was raised
Cancelled == "cancelled" \* the task was cancelled, at shutdown
PCs == {Idle, Waiting, Sending, Backoff, Returned, Raised, Cancelled}
Ended == {Returned, Raised, Cancelled}
InFlightPCs == {Sending, Backoff}

Holders(s) == {r \in Requests : pc[r] \in InFlightPCs /\ slot[r] = s}
InFlight(v) == {r \in Requests : pc[r] \in InFlightPCs /\ VendorOf[r] = v}
Created(s) == size[s] # 0

-------------------------------------------------------------------------------
(* max(1, min(n, cap)): a setting outside 1..Cap is pulled back into it. *)
Clamp_NoFloor(n) == IF n > Cap THEN Cap ELSE n
Clamp(n) == IF n < 1 THEN 1 ELSE IF n > Cap THEN Cap ELSE n

Init ==
  /\ limit = DefaultLimit
  /\ bucket = [v \in Vendors |-> NoSem]
  /\ size = [s \in Sems |-> 0]
  /\ free = [s \in Sems |-> 0]
  /\ queue = [s \in Sems |-> << >>]
  /\ pc = [r \in Requests |-> Idle]
  /\ slot = [r \in Requests |-> NoSem]
  /\ attempt = [r \in Requests |-> 0]
  /\ configures = 0

(* configure_vendor_limits for every vendor at once, as configure_from_settings
   calls it at the start of every run: the limits are clamped and the bucket of
   the running loop is dropped, whoever still holds a slot of it. *)
Configure ==
  /\ configures < MaxConfigures
  /\ configures' = configures + 1
  /\ \E raw \in [Vendors -> Settings] :
       limit' = [v \in Vendors |-> Clamp(raw[v])]
  /\ bucket' = [v \in Vendors |-> NoSem]
  /\ UNCHANGED <<size, free, queue, pc, slot, attempt>>

(* `async with vendor_semaphore(vendor)`: s is the semaphore found in the
   bucket, or a new one of vendor_limit(vendor) permits.  Semaphore.acquire
   takes a permit only when one is free and nobody is in line. *)
EnterOn(r, s, permits, line) ==
  /\ slot' = [slot EXCEPT ![r] = s]
  /\ IF permits > 0 /\ line = << >>
     THEN /\ pc' = [pc EXCEPT ![r] = Sending]
          /\ free' = [free EXCEPT ![s] = permits - 1]
          /\ queue' = queue
     ELSE /\ pc' = [pc EXCEPT ![r] = Waiting]
          /\ free' = [free EXCEPT ![s] = permits]
          /\ queue' = [queue EXCEPT ![s] = Append(line, r)]

EnterExisting(r) ==
  LET s == bucket[VendorOf[r]] IN
  /\ pc[r] = Idle
  /\ s # NoSem
  /\ EnterOn(r, s, free[s], queue[s])
  /\ UNCHANGED <<limit, bucket, size, attempt, configures>>

(* The id of the next semaphore: which one it gets does not matter. *)
Fresh == LET unused == {s \in Sems : ~Created(s)} IN
         IF unused = {} THEN {} ELSE {CHOOSE s \in unused : TRUE}

EnterNew(r) ==
  LET v == VendorOf[r] IN
  /\ pc[r] = Idle
  /\ bucket[v] = NoSem
  /\ \E s \in Fresh :
       /\ size' = [size EXCEPT ![s] = limit[v]]
       /\ bucket' = [bucket EXCEPT ![v] = s]
       /\ EnterOn(r, s, limit[v], << >>)
  /\ UNCHANGED <<limit, attempt, configures>>

(* Leaving the slot, the whole of Semaphore.release: the permit goes to the
   request first in line, or back to the semaphore. *)
Release_Forgets(s, r, end) ==
  /\ free' = [free EXCEPT ![s] = @ + 1]
  /\ queue' = queue
  /\ pc' = [pc EXCEPT ![r] = end]

Release_HandsAndFrees(s, r, end) ==
  /\ free' = [free EXCEPT ![s] = @ + 1]
  /\ queue' = IF queue[s] = << >> THEN queue ELSE [queue EXCEPT ![s] = Tail(@)]
  /\ pc' = IF queue[s] = << >>
           THEN [pc EXCEPT ![r] = end]
           ELSE [pc EXCEPT ![r] = end, ![Head(queue[s])] = Sending]

Release(s, r, end) ==
  IF queue[s] = << >>
  THEN /\ free' = [free EXCEPT ![s] = @ + 1]
       /\ queue' = queue
       /\ pc' = [pc EXCEPT ![r] = end]
  ELSE /\ free' = free
       /\ queue' = [queue EXCEPT ![s] = Tail(@)]
       /\ pc' = [pc EXCEPT ![r] = end, ![Head(queue[s])] = Sending]

(* client.request came back with a status that is not retried, or with a
   retryable one on the last attempt, which is returned all the same. *)
Respond(r) ==
  /\ pc[r] = Sending
  /\ Release(slot[r], r, Returned)
  /\ UNCHANGED <<limit, bucket, size, slot, attempt, configures>>

(* A 429/5xx or an httpx.HTTPError with attempts left: sleep a jittered delay,
   without leaving the slot. *)
Retry(r) ==
  /\ pc[r] = Sending
  /\ attempt[r] < MaxRetries
  /\ pc' = [pc EXCEPT ![r] = Backoff]
  /\ UNCHANGED <<limit, bucket, size, free, queue, slot, attempt, configures>>

(* An httpx.HTTPError on the last attempt is raised out of the slot. *)
Raise(r) ==
  /\ pc[r] = Sending
  /\ attempt[r] >= MaxRetries
  /\ Release(slot[r], r, Raised)
  /\ UNCHANGED <<limit, bucket, size, slot, attempt, configures>>

Resend(r) ==
  /\ pc[r] = Backoff
  /\ pc' = [pc EXCEPT ![r] = Sending]
  /\ attempt' = [attempt EXCEPT ![r] = @ + 1]
  /\ UNCHANGED <<limit, bucket, size, free, queue, slot, configures>>

Cancel_LeavesLine(r) ==
  /\ \/ /\ pc[r] \in InFlightPCs
        /\ Release(slot[r], r, Cancelled)
     \/ /\ pc[r] = Waiting
        /\ pc' = [pc EXCEPT ![r] = Cancelled]
        /\ UNCHANGED <<queue, free>>
  /\ UNCHANGED <<limit, bucket, size, slot, attempt, configures>>

(* Semaphore._waiters.remove *)
Without(line, i) == [j \in 1 .. Len(line) - 1 |-> IF j < i THEN line[j] ELSE line[j + 1]]

(* The API's lifespan cancels the tasks of its runs: a holder leaves its slot
   through the `async with`, a waiter leaves the line. *)
Cancel(r) ==
  /\ \/ /\ pc[r] \in InFlightPCs
        /\ Release(slot[r], r, Cancelled)
     \/ /\ pc[r] = Waiting
        /\ \E i \in DOMAIN queue[slot[r]] :
             /\ queue[slot[r]][i] = r
             /\ queue' = [queue EXCEPT ![slot[r]] = Without(@, i)]
        /\ pc' = [pc EXCEPT ![r] = Cancelled]
        /\ free' = free
  /\ UNCHANGED <<limit, bucket, size, slot, attempt, configures>>

Next ==
  \/ Configure
  \/ \E r \in Requests :
       \/ EnterExisting(r)
       \/ EnterNew(r)
       \/ Respond(r)
       \/ Retry(r)
       \/ Raise(r)
       \/ Resend(r)
       \/ Cancel(r)

(* Fairness: httpx calls carry a timeout, so a call that was sent comes back
   (Respond or, on the last attempt, Raise), and a sleep ends.  Nothing obliges
   a request to be made, a run to reconfigure or the server to shut down. *)
Fairness ==
  \A r \in Requests : WF_vars(Respond(r) \/ Retry(r) \/ Raise(r)) /\ WF_vars(Resend(r))

Spec == Init /\ [][Next]_vars
FairSpec == Spec /\ Fairness

-------------------------------------------------------------------------------
TypeOK ==
  /\ limit \in [Vendors -> Nat \ {0}]
  /\ bucket \in [Vendors -> Sems \cup {NoSem}]
  /\ size \in [Sems -> Nat]
  /\ free \in [Sems -> Nat]
  /\ queue \in [Sems -> Seq(Requests)]
  /\ pc \in [Requests -> PCs]
  /\ slot \in [Requests -> Sems \cup {NoSem}]
  /\ attempt \in [Requests -> Nat]
  /\ configures \in Nat

(* No permit is lost or minted: the free permits of a semaphore and the
   requests that hold one always add up to what it was created with, over
   queueing, hand-over to the next in line, backoff and cancellation. *)
PermitsConserved ==
  \A s \in Sems : free[s] + Cardinality(Holders(s)) = size[s]

(* Nobody waits at a semaphore that has a permit to give: a hand-over that
   forgot the line would leave the requests of a whole domain asleep. *)
NoIdlePermit ==
  \A s \in Sems : queue[s] # << >> => free[s] = 0

(* A line holds each waiting request once, and exactly the requests that wait
   at this semaphore: nobody is woken twice, and nobody who was cancelled. *)
LineIsExact ==
  \A s \in Sems :
    /\ {queue[s][i] : i \in DOMAIN queue[s]} = {r \in Requests : pc[r] = Waiting /\ slot[r] = s}
    /\ \A i, j \in DOMAIN queue[s] : queue[s][i] = queue[s][j] => i = j

(* Every request that got in line is answered, fails or is cancelled, although
   others back off while they hold the slots it waits for. *)
EveryRequestEnds ==
  \A r \in Requests : pc[r] # Idle ~> pc[r] \in Ended

(* README.md:69-70: "Vendor semaphores sit in front of Hunter and verifier HTTP
   so raising domain concurrency cannot exceed those vendor limits." *)
VendorLimitHeld ==
  \A v \in Vendors : Cardinality(InFlight(v)) <= limit[v]
===============================================================================
