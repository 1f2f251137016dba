--------------------------- MODULE HunterCacheProofs ---------------------------
(* Hunter's budget and the two stores of its answers, for any number of domains,
   executions, sessions, days, retries and outages. *)
EXTENDS HunterCache, TLAPS

(***************************************************************************)
(* The invariant                                                           *)
(***************************************************************************)

Pending == {"posting", "flush"}
InCall == {"searching", "finding"}

(* Rows are never deleted, and a lock is given back when its session ends: so a
   session that holds an object, or names columns in an UPDATE, has a row to update,
   and an INSERT names every column. *)
Rooted ==
  /\ \A d \in Domains : \A s \in Sessions : holder[d] = s => uncommitted[d] # NoRow
  /\ \A s \in Sessions : view[s] # NoRow /\ "domain" \notin dirty[s] => Got(s, into[s]) # NoRow
  /\ \A s \in Sessions : "domain" \in dirty[s] => Columns \subseteq dirty[s]
  /\ \A s \in Sessions : pc[s] \in Pending => view[s] # NoRow
  /\ \A s \in Sessions : pc[s] \notin Pending \cup {"rollback"} => into[s] = Dom(s) /\ dirty[s] = {}

CacheInv == TypeOK /\ Rooted

(* Hunter said it of this domain, each column of it, or nobody knows when. *)
Said(d, row) ==
  row # NoRow => \A f \in Columns : \E said \in replies[d] :
                   said[f] = row[f] \/ (f = "fetched" /\ said.fetched = Undated)

AllSaid ==
  /\ \A d \in Domains : Said(d, local[d]) /\ Said(d, uncommitted[d]) /\ Said(d, remote[d])
  /\ \A s \in Sessions : Said(into[s], view[s]) /\ Said(Dom(s), ctx[s]) /\ Said(Dom(s), own[s])

(* As long as the last answer of a session is fresh, it is about to write it, with
   its date, or finds it under its own lock, and so asks nobody. *)
AtHand ==
  \A s \in Sessions : Fresh(last[s]) =>
    \/ /\ pc[s] \in Pending /\ into[s] = Dom(s)
       /\ view[s].fetched = last[s].fetched /\ "fetched" \in dirty[s]
    \/ /\ pc[s] \notin Pending \cup {"remote", "ask", "searching"}
       /\ holder[Dom(s)] = s /\ uncommitted[Dom(s)].fetched = last[s].fetched
    \/ pc[s] = "rollback"

(* A call is made under a claim, and the claims of an execution are told apart. *)
ClaimsApart ==
  /\ \A r \in Runs : used[r] <= MaxCalls
  /\ \A s \in Sessions :
       /\ claim[s] \in 0 .. used[RunOf[s]] /\ tries[s] <= MaxRetries + 1
       /\ pc[s] \in InCall <=> claim[s] # 0
       /\ claim[s] = 0 => tries[s] = 0
       /\ \A z \in Sessions \ {s} : RunOf[z] = RunOf[s] /\ claim[s] # 0 => claim[z] # claim[s]

(***************************************************************************)
(* Rows                                                                    *)
(***************************************************************************)

LEMMA RowOf ==
  ASSUME NEW a \in Answers, today \in 0 .. LastDay
  PROVE  HunterRow(a, today) \in Rows
BY HunterAssumption DEF HunterRow, Rows, RowsDated

LEMMA RowTypes ==
  /\ Rows \subseteq RemoteRows /\ NoRow \notin RemoteRows /\ NoRow \notin Rows
  /\ \A row \in RemoteRows : row.fetched # Undated => row \in Rows
BY NoHunterRow, HunterAssumption DEF Rows, RemoteRows, RowsDated

LEMMA CopiedRow ==
  ASSUME today \in 0 .. LastDay, NEW row \in RemoteRows \cup {NoRow}
  PROVE  Copied(row) \in MaybeRow
<1>1. CASE row # NoRow /\ row.fetched = Undated
  BY <1>1 DEF Copied, MaybeRow, Rows, RemoteRows, RowsDated
<1>2. CASE ~(row # NoRow /\ row.fetched = Undated)
  BY <1>2, RowTypes DEF Copied, MaybeRow
<1>3. QED BY <1>1, <1>2

LEMMA GotTyped ==
  ASSUME TypeOK, NEW s \in Sessions
  PROVE  Dom(s) \in Domains /\ \A d \in Domains : Got(s, d) \in MaybeRow
BY HunterAssumption DEF TypeOK, Dom, Got

(* What put_local leaves pending. *)
LEMMA PutPending ==
  ASSUME CacheInv, NEW s \in Sessions, NEW d \in Domains, NEW row \in Rows,
         NEW time \in SUBSET {"fetched"}, pc[s] \notin Pending \cup {"rollback"},
         PutLocal(s, d, row, time)
  PROVE  /\ view' = [view EXCEPT ![s] = row] /\ into' = [into EXCEPT ![s] = d]
         /\ dirty'[s] \in SUBSET (Columns \cup {"domain"})
         /\ dirty' = [dirty EXCEPT ![s] = dirty'[s]]
         /\ "domain" \in dirty'[s] => Columns \subseteq dirty'[s]
         /\ "domain" \notin dirty'[s] => Got(s, d) # NoRow
         /\ "fetched" \in time => "fetched" \in dirty'[s]
<1> DEFINE found == IF d = Dom(s) /\ view[s] # NoRow THEN view[s] ELSE Got(s, d)
           differ == {f \in Columns : row[f] # found[f]}
           names == IF found = NoRow THEN Columns \cup {"domain"}
                    ELSE IF differ = {} THEN time ELSE differ \cup {"fetched"}
<1>1. /\ view' = [view EXCEPT ![s] = row] /\ into' = [into EXCEPT ![s] = d]
      /\ dirty' = [dirty EXCEPT ![s] = names]
  BY DEF PutLocal
<1>2. dirty'[s] = names
  BY <1>1 DEF CacheInv, TypeOK
<1>3. names \in SUBSET (Columns \cup {"domain"}) /\ ("fetched" \in time => "fetched" \in names)
  BY DEF Columns
<1>4. "domain" \in names <=> found = NoRow
  BY DEF Columns
<1>5. found # NoRow => Got(s, d) # NoRow
  BY DEF CacheInv, Rooted
<1>6. "domain" \in names => Columns \subseteq names
  BY <1>4
<1>7. QED BY <1>1, <1>2, <1>3, <1>4, <1>5, <1>6

LEMMA CacheInit == Init => CacheInv
<1> SUFFICES ASSUME Init PROVE CacheInv
  OBVIOUS
<1>1. PICK start \in Stored :
        /\ local = [d \in Domains |-> start[d].local]
        /\ remote = [d \in Domains |-> start[d].remote]
        /\ replies = [d \in Domains |-> {start[d].local, start[d].remote} \ {NoRow}]
  BY DEF Init
<1>2. \A d \in Domains : /\ start[d].local \in RowsDated({0}) \cup {NoRow}
                         /\ start[d].remote \in RowsDated({0, Undated}) \cup {NoRow}
  BY HunterAssumption
<1>3. RowsDated({0}) \subseteq Rows /\ RowsDated({0, Undated}) \subseteq RemoteRows
  BY HunterAssumption DEF RowsDated, Rows, RemoteRows
<1>4. /\ local \in [Domains -> MaybeRow] /\ remote \in [Domains -> RemoteRows \cup {NoRow}]
      /\ replies \in [Domains -> SUBSET RemoteRows] /\ today \in 0 .. LastDay
  <2>1. \A d \in Domains : /\ start[d].local \in MaybeRow /\ start[d].local \in RemoteRows \cup {NoRow}
                           /\ start[d].remote \in RemoteRows \cup {NoRow}
    BY <1>2, <1>3, RowTypes DEF MaybeRow
  <2>2. today \in 0 .. LastDay
    BY HunterAssumption DEF Init
  <2>3. QED BY <1>1, <2>1, <2>2
<1>5. TypeOK
  BY <1>4, HunterAssumption DEF Init, TypeOK, PCs, MaybeRow, Dom
<1>6. Rooted
  BY HunterAssumption DEF Init, Rooted, Dom, Pending
<1>7. QED BY <1>5, <1>6 DEF CacheInv

(***************************************************************************)
(* Types and roots                                                         *)
(***************************************************************************)

(* One session moves; what the others found is still there. *)
LEMMA RootedKept ==
  ASSUME CacheInv, NEW s \in Sessions,
         \A d \in Domains : \A z \in Sessions : holder'[d] = z => uncommitted'[d] # NoRow,
         \A z \in Sessions \ {s} : /\ UNCHANGED <<view[z], dirty[z], into[z], pc[z]>>
                                   /\ \A d \in Domains : Got(z, d) # NoRow => Got(z, d)' # NoRow,
         view'[s] # NoRow /\ "domain" \notin dirty'[s] => Got(s, into[s])' # NoRow,
         "domain" \in dirty'[s] => Columns \subseteq dirty'[s],
         pc'[s] \in Pending => view'[s] # NoRow,
         pc'[s] \notin Pending \cup {"rollback"} => into'[s] = Dom(s) /\ dirty'[s] = {}
  PROVE  Rooted'
<1>1. \A z \in Sessions \ {s} : view'[z] # NoRow /\ "domain" \notin dirty'[z] => Got(z, into[z])' # NoRow
  <2>1. ASSUME NEW z \in Sessions \ {s}, view'[z] # NoRow /\ "domain" \notin dirty'[z]
        PROVE  Got(z, into[z])' # NoRow
    <3>1. into[z] \in Domains /\ into'[z] = into[z] /\ Got(z, into[z]) # NoRow
      BY <2>1 DEF CacheInv, TypeOK, Rooted
    <3>2. Got(z, into[z])' = IF holder'[into[z]] = z THEN uncommitted'[into[z]] ELSE local'[into[z]]
      BY <3>1 DEF Got
    <3>3. Got(z, into[z])' # NoRow
      BY <3>1, <3>2 DEF Got
    <3>4. QED BY <3>3
  <2>2. QED BY <2>1
<1>2. \A z \in Sessions \ {s} :
        /\ "domain" \in dirty'[z] => Columns \subseteq dirty'[z]
        /\ pc'[z] \in Pending => view'[z] # NoRow
        /\ pc'[z] \notin Pending \cup {"rollback"} => into'[z] = Dom(z) /\ dirty'[z] = {}
  BY DEF CacheInv, Rooted
<1>3. QED BY <1>1, <1>2 DEF Rooted, Dom

(* The stores stay. *)
LEMMA RootedStill ==
  ASSUME CacheInv, NEW s \in Sessions, UNCHANGED stores,
         \A z \in Sessions \ {s} : UNCHANGED <<view[z], dirty[z], into[z], pc[z]>>,
         view'[s] # NoRow /\ "domain" \notin dirty'[s] => Got(s, into'[s]) # NoRow,
         "domain" \in dirty'[s] => Columns \subseteq dirty'[s],
         pc'[s] \in Pending => view'[s] # NoRow,
         pc'[s] \notin Pending \cup {"rollback"} => into'[s] = Dom(s) /\ dirty'[s] = {}
  PROVE  Rooted'
<1>1. \A z \in Sessions, d \in Domains : Got(z, d)' = Got(z, d)
  BY DEF stores, Got
<1>2. Got(s, into[s])' = Got(s, into'[s])
  BY DEF stores, Got
<1>3. \A d \in Domains : \A z \in Sessions : holder'[d] = z => uncommitted'[d] # NoRow
  BY DEF stores, CacheInv, Rooted
<1>4. QED BY <1>1, <1>2, <1>3, RootedKept

(* The steps that put nothing in hand, or forget what was there. *)
LEMMA ControlCache ==
  ASSUME CacheInv, NEW s \in Sessions,
         \/ Begin(s) \/ LocalHit(s) \/ LocalMiss(s) \/ RemoteMiss(s) \/ RemoteDown(s) \/ Ask(s)
         \/ CapReached(s) \/ Send(s) \/ Unanswered(s) \/ FlushFails(s) \/ Confirm(s)
         \/ LastResort(s) \/ AskFinder(s) \/ SkipFinder(s) \/ FinderReturned(s)
  PROVE  CacheInv'
<1>1. pc[s] \in PCs /\ back[s] \in {"idle", "people", "finder"} /\ Got(s, Dom(s)) \in MaybeRow
      /\ Dom(s) \in Domains /\ NoRow \in MaybeRow
  BY GotTyped DEF CacheInv, TypeOK, MaybeRow
<1>2. /\ UNCHANGED <<today, stores, replies, last>>
      /\ opened' \in Nat /\ outages' \in Nat
      /\ back' \in [Sessions -> {"idle", "people", "finder"}] /\ people' \in [Sessions -> Nat]
  BY DEF Begin, LocalHit, LocalMiss, RemoteMiss, RemoteDown, Ask, CapReached, Send, Unanswered,
     FlushFails, Confirm, LastResort, AskFinder, SkipFinder, FinderReturned, NextPerson,
     bounds, CacheInv, TypeOK
<1>3. ctx' \in [Sessions -> MaybeRow] /\ own' \in [Sessions -> MaybeRow]
  BY <1>1 DEF Begin, LocalHit, LocalMiss, RemoteMiss, RemoteDown, Ask, CapReached, Send, Unanswered,
     FlushFails, Confirm, LastResort, AskFinder, SkipFinder, FinderReturned, NextPerson, Served,
     served, CacheInv, TypeOK
<1>4. /\ used' \in [Runs -> Nat] /\ claim' \in [Sessions -> Nat] /\ tries' \in [Sessions -> Nat]
  <2>1. CASE Ask(s) \/ AskFinder(s)
    <3>1. /\ RunOf[s] \in Runs /\ used' = [used EXCEPT ![RunOf[s]] = @ + 1] /\ tries' = tries
          /\ claim' = [claim EXCEPT ![s] = used'[RunOf[s]]]
      BY <2>1, HunterAssumption DEF Ask, AskFinder, Claims, Claimed
    <3>2. used' \in [Runs -> Nat]
      BY <3>1 DEF CacheInv, TypeOK
    <3>3. QED BY <3>1, <3>2 DEF CacheInv, TypeOK
  <2>2. CASE Send(s)
    BY <2>2 DEF Send, CacheInv, TypeOK
  <2>3. CASE Unanswered(s) \/ FinderReturned(s)
    BY <2>3 DEF Unanswered, FinderReturned, Returned, CacheInv, TypeOK
  <2>4. CASE ~(Ask(s) \/ AskFinder(s) \/ Send(s) \/ Unanswered(s) \/ FinderReturned(s))
    <3>1. UNCHANGED call
      BY <2>4 DEF Begin, LocalHit, LocalMiss, RemoteMiss, RemoteDown, CapReached, FlushFails, Confirm,
         LastResort, SkipFinder
    <3>2. QED BY <3>1 DEF call, CacheInv, TypeOK
  <2>5. QED BY <2>1, <2>2, <2>3, <2>4
<1>5. \E place \in PCs \ Pending :
        /\ pc' = [pc EXCEPT ![s] = place]
        /\ place # "rollback" => pc[s] \notin Pending \cup {"rollback"}
  BY <1>1 DEF Begin, LocalHit, LocalMiss, RemoteMiss, RemoteDown, Ask, CapReached, Send, Unanswered,
     FlushFails, Confirm, LastResort, AskFinder, SkipFinder, FinderReturned, NextPerson, GoTo,
     PCs, Pending, CacheInv, TypeOK
<1>6. \/ UNCHANGED copies
      \/ Forget(s)
      \/ /\ into' = into /\ dirty' = dirty /\ pc[s] \notin Pending \cup {"rollback"}
         /\ \E kept \in {Got(s, Dom(s)), NoRow} : view' = [view EXCEPT ![s] = kept]
  BY DEF Begin, LocalHit, LocalMiss, RemoteMiss, RemoteDown, Ask, CapReached, Send, Unanswered,
     FlushFails, Confirm, LastResort, AskFinder, SkipFinder, FinderReturned, Pending
<1>7. /\ into' \in [Sessions -> Domains] /\ view' \in [Sessions -> MaybeRow]
      /\ dirty' \in [Sessions -> SUBSET (Columns \cup {"domain"})]
  BY <1>1, <1>6 DEF copies, Forget, CacheInv, TypeOK
<1>8. TypeOK'
  <2>1. pc' \in [Sessions -> PCs]
    BY <1>5 DEF CacheInv, TypeOK
  <2>2. QED BY <1>2, <1>3, <1>4, <1>7, <2>1 DEF stores, CacheInv, TypeOK
<1>9. /\ \A z \in Sessions \ {s} : UNCHANGED <<view[z], dirty[z], into[z], pc[z]>>
      /\ pc'[s] \notin Pending
      /\ pc'[s] # "rollback" => pc[s] \notin Pending \cup {"rollback"}
  BY <1>5, <1>6 DEF copies, Forget, CacheInv, TypeOK
<1>10. /\ view'[s] # NoRow /\ "domain" \notin dirty'[s] => Got(s, into'[s]) # NoRow
       /\ "domain" \in dirty'[s] => Columns \subseteq dirty'[s]
       /\ pc'[s] \notin Pending \cup {"rollback"} => into'[s] = Dom(s) /\ dirty'[s] = {}
  <2>1. CASE UNCHANGED copies
    BY <1>9, <2>1 DEF copies, CacheInv, Rooted
  <2>2. CASE Forget(s)
    BY <2>2 DEF Forget, CacheInv, TypeOK
  <2>3. ASSUME into' = into /\ dirty' = dirty /\ pc[s] \notin Pending \cup {"rollback"},
               \E kept \in {Got(s, Dom(s)), NoRow} : view' = [view EXCEPT ![s] = kept]
        PROVE  <1>10!:
    <3>1. into'[s] = Dom(s) /\ dirty'[s] = {} /\ view'[s] \in {Got(s, Dom(s)), NoRow}
      BY <2>3 DEF CacheInv, TypeOK, Rooted
    <3>2. QED BY <3>1
  <2>4. QED BY <1>6, <2>1, <2>2, <2>3
<1>11. Rooted'
  BY <1>2, <1>9, <1>10, RootedStill
<1>12. QED BY <1>8, <1>11 DEF CacheInv

(* A row comes in, from Supabase or from Hunter. *)
LEMMA Incoming ==
  ASSUME CacheInv, NEW s \in Sessions, RemoteHit(s) \/ Answered(s)
  PROVE  \E row \in Rows, d \in Domains, time \in SUBSET {"fetched"} :
           /\ Served(s, row) /\ PutLocal(s, d, row, time) /\ Fresh(row)
           /\ pc[s] \notin Pending \cup {"rollback"}
           /\ \/ /\ RemoteHit(s) /\ row = Copied(remote[Dom(s)]) /\ d = Dom(s)
                 /\ UNCHANGED <<call, replies, last>>
              \/ /\ Answered(s) /\ time = {"fetched"} /\ row.fetched = today
                 /\ replies' = [e \in Domains |-> replies[e] \cup IF e \in {d, Dom(s)} THEN {row} ELSE {}]
                 /\ last' = [last EXCEPT ![s] = IF d = Dom(s) THEN row ELSE @]
                 /\ Returned(s)
<1>1. CASE RemoteHit(s)
  <2>1. Copied(remote[Dom(s)]) \in Rows
    BY <1>1, GotTyped, CopiedRow DEF RemoteHit, Fresh, CacheInv, TypeOK, MaybeRow
  <2>2. PICK time \in SUBSET {"fetched"} : PutLocal(s, Dom(s), Copied(remote[Dom(s)]), time)
    BY <1>1 DEF RemoteHit
  <2>3. /\ Served(s, Copied(remote[Dom(s)])) /\ Fresh(Copied(remote[Dom(s)]))
        /\ UNCHANGED <<call, replies, last>> /\ pc[s] = "remote"
    BY <1>1 DEF RemoteHit
  <2>4. QED BY <1>1, <2>1, <2>2, <2>3, GotTyped DEF Pending, CacheInv
<1>2. CASE Answered(s)
  <2>1. PICK a \in Answers, d \in Named[Dom(s)] :
          /\ Served(s, HunterRow(a, today)) /\ PutLocal(s, d, HunterRow(a, today), {"fetched"})
          /\ replies' = [e \in Domains |->
               replies[e] \cup IF e \in {d, Dom(s)} THEN {HunterRow(a, today)} ELSE {}]
          /\ last' = [last EXCEPT ![s] = IF d = Dom(s) THEN HunterRow(a, today) ELSE @]
    BY <1>2 DEF Answered
  <2>2. /\ HunterRow(a, today) \in Rows /\ HunterRow(a, today).fetched = today /\ d \in Domains
        /\ Returned(s) /\ pc[s] = "searching"
    BY <1>2, RowOf, GotTyped, HunterAssumption DEF Answered, HunterRow, CacheInv, TypeOK
  <2>3. today - today < Ttl
    BY HunterAssumption DEF CacheInv, TypeOK
  <2>4. Fresh(HunterRow(a, today))
    BY <2>2, <2>3, RowTypes DEF Fresh
  <2>5. QED BY <1>2, <2>1, <2>2, <2>4 DEF Pending
<1>3. QED BY <1>1, <1>2

LEMMA IncomingCache ==
  ASSUME CacheInv, NEW s \in Sessions, RemoteHit(s) \/ Answered(s) PROVE CacheInv'
<1>1. PICK row \in Rows, d \in Domains, time \in SUBSET {"fetched"} :
        /\ Served(s, row) /\ PutLocal(s, d, row, time) /\ pc[s] \notin Pending \cup {"rollback"}
        /\ \/ UNCHANGED <<call, replies, last>>
           \/ /\ replies' = [e \in Domains |-> replies[e] \cup IF e \in {d, Dom(s)} THEN {row} ELSE {}]
              /\ last' = [last EXCEPT ![s] = IF d = Dom(s) THEN row ELSE @]
              /\ Returned(s)
  BY Incoming
<1>2. /\ view' = [view EXCEPT ![s] = row] /\ into' = [into EXCEPT ![s] = d]
      /\ dirty'[s] \in SUBSET (Columns \cup {"domain"})
      /\ dirty' = [dirty EXCEPT ![s] = dirty'[s]]
      /\ "domain" \in dirty'[s] => Columns \subseteq dirty'[s]
      /\ "domain" \notin dirty'[s] => Got(s, d) # NoRow
  BY <1>1, PutPending
<1>3. /\ UNCHANGED <<today, stores, back, people, bounds>>
      /\ \E place \in Pending : pc' = [pc EXCEPT ![s] = place]
  BY DEF RemoteHit, Answered, GoTo, Pending
<1>4. ctx' \in [Sessions -> MaybeRow] /\ own' \in [Sessions -> MaybeRow]
  BY <1>1 DEF Served, MaybeRow, CacheInv, TypeOK
<1>5. /\ replies' \in [Domains -> SUBSET RemoteRows] /\ last' \in [Sessions -> MaybeRow]
      /\ used' \in [Runs -> Nat] /\ claim' \in [Sessions -> Nat] /\ tries' \in [Sessions -> Nat]
  BY <1>1, RowTypes DEF Returned, call, MaybeRow, CacheInv, TypeOK
<1>6. /\ view' \in [Sessions -> MaybeRow] /\ into' \in [Sessions -> Domains]
      /\ dirty' \in [Sessions -> SUBSET (Columns \cup {"domain"})] /\ pc' \in [Sessions -> PCs]
  BY <1>2, <1>3 DEF MaybeRow, CacheInv, TypeOK, PCs, Pending
<1>7. TypeOK'
  BY <1>3, <1>4, <1>5, <1>6 DEF CacheInv, TypeOK, stores, bounds
<1>8. /\ \A z \in Sessions \ {s} : UNCHANGED <<view[z], dirty[z], into[z], pc[z]>>
      /\ pc'[s] \in Pending /\ view'[s] = row /\ into'[s] = d /\ row # NoRow
  BY <1>2, <1>3, RowTypes DEF CacheInv, TypeOK
<1>9. Rooted'
  BY <1>2, <1>3, <1>8, RootedStill
<1>10. QED BY <1>7, <1>9 DEF CacheInv

LEMMA PostCache == ASSUME CacheInv, NEW s \in Sessions, Post(s) PROVE CacheInv'
<1>1. /\ view[s] \in Rows /\ into[s] \in Domains
      /\ UNCHANGED <<today, local, uncommitted, holder, call, back, copies, served, people, replies,
                     last, opened>>
      /\ pc' = [pc EXCEPT ![s] = "flush"] /\ pc[s] = "posting"
  BY DEF Post, GoTo, Pending, CacheInv, TypeOK, Rooted, MaybeRow
<1>2. remote' \in [Domains -> RemoteRows \cup {NoRow}] /\ outages' \in Nat
  BY <1>1, RowTypes DEF Post, Posted, CacheInv, TypeOK
<1>3. TypeOK'
  BY <1>1, <1>2 DEF call, copies, served, CacheInv, TypeOK, PCs
<1>4. \A z \in Sessions, d \in Domains : Got(z, d)' = Got(z, d)
  BY <1>1 DEF Got
<1>5. Rooted'
  <2>1. /\ \A z \in Sessions \ {s} : UNCHANGED <<view[z], dirty[z], into[z], pc[z]>>
        /\ UNCHANGED <<view[s], dirty[s], into[s]>> /\ pc'[s] = "flush"
        /\ Got(s, into[s])' = Got(s, into[s])
    BY <1>1 DEF copies, Got, CacheInv, TypeOK
  <2>2. /\ view'[s] # NoRow /\ "domain" \notin dirty'[s] => Got(s, into[s])' # NoRow
        /\ "domain" \in dirty'[s] => Columns \subseteq dirty'[s]
        /\ pc'[s] \in Pending => view'[s] # NoRow
        /\ pc'[s] \notin Pending \cup {"rollback"} => into'[s] = Dom(s) /\ dirty'[s] = {}
    BY <1>1, <2>1, RowTypes DEF Pending, CacheInv, Rooted
  <2>3. \A d \in Domains : \A z \in Sessions : holder'[d] = z => uncommitted'[d] # NoRow
    BY <1>1 DEF CacheInv, Rooted
  <2>4. QED BY <1>4, <2>1, <2>2, <2>3, RootedKept
<1>6. QED BY <1>3, <1>5 DEF CacheInv

(* The row that the columns of a statement leave: each column the session's own, or
   the one the row has now. *)
LEMMA WrittenRow ==
  ASSUME CacheInv, NEW s \in Sessions, pc[s] = "flush"
  PROVE  /\ Written(s) \in Rows
         /\ \A f \in Columns : \/ f \in dirty[s] /\ Written(s)[f] = view[s][f]
                               \/ /\ Got(s, into[s]) # NoRow
                                  /\ Written(s)[f] = Got(s, into[s])[f]
<1>1. view[s] \in Rows /\ into[s] \in Domains
  BY DEF CacheInv, TypeOK, Rooted, Pending, MaybeRow
<1>2. Written(s) = [f \in Columns |-> IF f \in dirty[s] THEN view[s][f] ELSE Got(s, into[s])[f]]
  BY DEF Written
<1>3. Got(s, into[s]) \in Rows \/ Columns \subseteq dirty[s]
  BY <1>1, GotTyped, RowTypes DEF CacheInv, Rooted, MaybeRow
<1>4. \A f \in Columns : \/ f \in dirty[s] /\ Written(s)[f] = view[s][f]
                         \/ /\ Got(s, into[s]) \in Rows
                            /\ Written(s)[f] = Got(s, into[s])[f]
  BY <1>2, <1>3
<1>5. \A row \in Rows : row.pattern \in BOOLEAN /\ row.acceptAll \in BOOLEAN /\ row.fetched \in 0 .. LastDay
  BY DEF Rows, RowsDated
<1>6. PICK p, q, r : p = Written(s)["pattern"] /\ q = Written(s)["acceptAll"] /\ r = Written(s)["fetched"]
  OBVIOUS
<1>7. p \in BOOLEAN /\ q \in BOOLEAN /\ r \in 0 .. LastDay
  BY <1>1, <1>4, <1>5, <1>6 DEF Columns
<1>8. Written(s) = [pattern |-> p, acceptAll |-> q, fetched |-> r]
  BY <1>2, <1>6 DEF Columns
<1>9. Written(s) \in Rows
  BY <1>7, <1>8 DEF Rows, RowsDated
<1>10. QED BY <1>4, <1>9, RowTypes

(* What the flush leaves in the table, under the session's lock. *)
LEMMA FlushWrites ==
  ASSUME CacheInv, NEW s \in Sessions, Flush(s)
  PROVE  /\ into[s] \in Domains
         /\ \/ dirty[s] = {} /\ UNCHANGED <<holder, uncommitted>>
            \/ /\ dirty[s] # {} /\ holder[into[s]] \in {NoSession, s}
               /\ holder'[into[s]] = s /\ uncommitted'[into[s]] = Written(s)
               /\ Written(s) \in Rows /\ Written(s) # NoRow
         /\ \A d \in Domains \ {into[s]} : UNCHANGED <<holder[d], uncommitted[d]>>
         /\ holder' \in [Domains -> Sessions \cup {NoSession}]
         /\ uncommitted' \in [Domains -> MaybeRow]
         /\ \A z \in Sessions \ {s} : \A d \in Domains :
              Got(z, d)' = Got(z, d) /\ (holder'[d] = z <=> holder[d] = z)
<1>1. into[s] \in Domains /\ Written(s) \in Rows /\ Written(s) # NoRow /\ local' = local
  BY WrittenRow, RowTypes DEF Flush, CacheInv, TypeOK
<1>2. CASE dirty[s] = {}
  BY <1>1, <1>2 DEF Flush, Got, CacheInv, TypeOK
<1>3. CASE dirty[s] # {}
  <2>1. /\ holder[into[s]] \in {NoSession, s}
        /\ holder' = [holder EXCEPT ![into[s]] = s]
        /\ uncommitted' = [uncommitted EXCEPT ![into[s]] = Written(s)]
    BY <1>3 DEF Flush, LockFree
  <2>2. /\ holder'[into[s]] = s /\ uncommitted'[into[s]] = Written(s)
        /\ \A d \in Domains \ {into[s]} : UNCHANGED <<holder[d], uncommitted[d]>>
        /\ holder' \in [Domains -> Sessions \cup {NoSession}]
        /\ uncommitted' \in [Domains -> MaybeRow]
    BY <1>1, <2>1 DEF CacheInv, TypeOK, MaybeRow
  <2>3. \A z \in Sessions \ {s} : \A d \in Domains :
          Got(z, d)' = Got(z, d) /\ (holder'[d] = z <=> holder[d] = z)
    BY <1>1, <2>1, <2>2, HunterAssumption DEF Got
  <2>4. QED BY <1>1, <1>3, <2>1, <2>2, <2>3
<1>4. QED BY <1>2, <1>3

LEMMA FlushCache == ASSUME CacheInv, NEW s \in Sessions, Flush(s) PROVE CacheInv'
<1>1. /\ UNCHANGED <<today, local, remote, call, back, served, people, replies, last, bounds>>
      /\ pc' = [pc EXCEPT ![s] = back[s]] /\ Forget(s) /\ pc[s] = "flush"
      /\ back[s] \in {"idle", "people", "finder"} /\ Dom(s) \in Domains
  BY GotTyped DEF Flush, GoTo, CacheInv, TypeOK
<1>2. /\ into' \in [Sessions -> Domains] /\ view' \in [Sessions -> MaybeRow]
      /\ dirty' \in [Sessions -> SUBSET (Columns \cup {"domain"})] /\ pc' \in [Sessions -> PCs]
  BY <1>1 DEF Forget, CacheInv, TypeOK, MaybeRow, PCs
<1>3. TypeOK'
  BY <1>1, <1>2, FlushWrites DEF call, served, bounds, CacheInv, TypeOK
<1>4. /\ \A z \in Sessions \ {s} : UNCHANGED <<view[z], dirty[z], into[z], pc[z]>>
      /\ into'[s] = Dom(s) /\ view'[s] = NoRow /\ dirty'[s] = {} /\ pc'[s] \notin Pending
  BY <1>1 DEF Forget, Pending, CacheInv, TypeOK
<1>5. \A d \in Domains : \A z \in Sessions : holder'[d] = z => uncommitted'[d] # NoRow
  BY FlushWrites DEF CacheInv, Rooted
<1>6. Rooted'
  BY <1>4, <1>5, FlushWrites, RootedKept
<1>7. QED BY <1>3, <1>6 DEF CacheInv

(* The end of a session, with or without its rows. *)
LEMMA CloseCache ==
  ASSUME CacheInv, NEW s \in Sessions, Commit(s) \/ Rollback(s) PROVE CacheInv'
<1>1. /\ Close(s) /\ UNCHANGED <<today, remote, replies, opened>> /\ outages' \in Nat
      /\ Dom(s) \in Domains
      /\ \/ local' = local
         \/ local' = [d \in Domains |-> Got(s, d)]
  BY GotTyped DEF Commit, Rollback, bounds, CacheInv, TypeOK
<1>2. local' \in [Domains -> MaybeRow]
  BY <1>1, GotTyped DEF CacheInv, TypeOK
<1>3. /\ into' \in [Sessions -> Domains] /\ view' \in [Sessions -> MaybeRow]
      /\ dirty' \in [Sessions -> SUBSET (Columns \cup {"domain"})] /\ pc' \in [Sessions -> PCs]
      /\ back' \in [Sessions -> {"idle", "people", "finder"}] /\ people' \in [Sessions -> Nat]
      /\ ctx' \in [Sessions -> MaybeRow] /\ own' \in [Sessions -> MaybeRow]
      /\ last' \in [Sessions -> MaybeRow]
  BY <1>1 DEF Close, Forget, CacheInv, TypeOK, PCs, MaybeRow
<1>4. /\ holder' \in [Domains -> Sessions \cup {NoSession}]
      /\ uncommitted' \in [Domains -> MaybeRow]
      /\ used' \in [Runs -> Nat] /\ claim' \in [Sessions -> Nat] /\ tries' \in [Sessions -> Nat]
  BY <1>1 DEF Close, Returned, CacheInv, TypeOK, MaybeRow
<1>5. TypeOK'
  BY <1>1, <1>2, <1>3, <1>4 DEF CacheInv, TypeOK
<1>6. \A d \in Domains : local[d] # NoRow => local'[d] # NoRow
  BY <1>1 DEF Got, CacheInv, Rooted
<1>7. /\ \A z \in Sessions \ {s} : UNCHANGED <<view[z], dirty[z], into[z], pc[z]>>
      /\ into'[s] = Dom(s) /\ view'[s] = NoRow /\ dirty'[s] = {} /\ pc'[s] \notin Pending
  BY <1>1 DEF Close, Forget, Pending, CacheInv, TypeOK
<1>8. \A z \in Sessions \ {s} : \A d \in Domains :
        /\ holder'[d] = z <=> holder[d] = z
        /\ holder[d] = z => uncommitted'[d] = uncommitted[d]
  <2>1. NoSession \notin Sessions
    BY HunterAssumption
  <2>2. \A d \in Domains : /\ holder'[d] = IF holder[d] = s THEN NoSession ELSE holder[d]
                           /\ uncommitted'[d] = IF holder[d] = s THEN NoRow ELSE uncommitted[d]
    BY <1>1 DEF Close
  <2>3. QED BY <2>1, <2>2
<1>9. \A d \in Domains : holder'[d] # s
  BY <1>1, HunterAssumption DEF Close
<1>10. \A z \in Sessions \ {s} : \A d \in Domains : Got(z, d) # NoRow => Got(z, d)' # NoRow
  BY <1>6, <1>8 DEF Got
<1>11. \A d \in Domains : \A z \in Sessions : holder'[d] = z => uncommitted'[d] # NoRow
  BY <1>8, <1>9 DEF CacheInv, Rooted
<1>12. Rooted'
  BY <1>7, <1>10, <1>11, RootedKept
<1>13. QED BY <1>5, <1>12 DEF CacheInv

LEMMA StillCache == ASSUME CacheInv, Tomorrow \/ UNCHANGED vars PROVE CacheInv'
<1>1. /\ UNCHANGED <<local, uncommitted, holder, remote, used, claim, tries, pc, back, into, view,
                     dirty, ctx, own, people, replies, last, opened, outages>>
      /\ today' \in 0 .. LastDay
  BY HunterAssumption DEF Tomorrow, vars, stores, call, copies, served, bounds, CacheInv, TypeOK
<1>2. TypeOK'
  BY <1>1 DEF CacheInv, TypeOK
<1>3. Rooted'
  BY <1>1 DEF CacheInv, Rooted, Got
<1>4. QED BY <1>2, <1>3 DEF CacheInv

LEMMA CacheNext == ASSUME CacheInv, [Next]_vars PROVE CacheInv'
BY ControlCache, IncomingCache, PostCache, FlushCache, CloseCache, StillCache
   DEF Next, Work, Resolve

LEMMA CacheAlways == Spec => []CacheInv
BY CacheInit, CacheNext, PTL DEF Spec

(* hunter_cache.py and hunter.py: the rows of both stores, of every copy and of what
   Hunter said keep their shape, the columns an UPDATE merges included, and no
   undated row of Supabase gets into the local table. *)
THEOREM CacheTypes == Spec => []TypeOK
<1>1. CacheInv => TypeOK
  BY DEF CacheInv
<1>2. QED BY <1>1, CacheAlways, PTL

(***************************************************************************)
(* The budget                                                              *)
(***************************************************************************)

(* The steps outside of calls. *)
LEMMA NoCall ==
  ASSUME CacheInv, [Next]_vars,
         ~ \E s \in Sessions : \/ Ask(s) \/ AskFinder(s) \/ Send(s) \/ Answered(s) \/ Unanswered(s)
                               \/ FinderReturned(s) \/ Commit(s) \/ Rollback(s)
  PROVE  /\ UNCHANGED call
         /\ \A s \in Sessions : pc'[s] \in InCall <=> pc[s] \in InCall
<1>1. CASE UNCHANGED vars
  BY <1>1 DEF vars
<1>2. CASE Tomorrow
  BY <1>2 DEF Tomorrow
<1>3. ASSUME NEW s \in Sessions,
             \/ Begin(s) \/ LocalHit(s) \/ LocalMiss(s) \/ RemoteHit(s) \/ RemoteMiss(s)
             \/ RemoteDown(s) \/ CapReached(s) \/ Post(s) \/ Flush(s) \/ FlushFails(s) \/ Confirm(s)
             \/ LastResort(s) \/ SkipFinder(s)
      PROVE  UNCHANGED call /\ \A z \in Sessions : pc'[z] \in InCall <=> pc[z] \in InCall
  <2>1. /\ UNCHANGED call /\ pc[s] \notin InCall
        /\ \E place \in PCs \ InCall : pc' = [pc EXCEPT ![s] = place]
    BY <1>3 DEF Begin, LocalHit, LocalMiss, RemoteHit, RemoteMiss, RemoteDown, CapReached, Post,
       Flush, FlushFails, Confirm, LastResort, SkipFinder, NextPerson, GoTo, InCall, PCs,
       CacheInv, TypeOK
  <2>2. QED BY <2>1 DEF CacheInv, TypeOK
<1>4. QED BY <1>1, <1>2, <1>3 DEF Next, Work, Resolve

LEMMA ClaimsNext == ASSUME CacheInv, ClaimsApart, [Next]_vars PROVE ClaimsApart'
<1>1. ASSUME NEW s \in Sessions, Ask(s) \/ AskFinder(s) PROVE ClaimsApart'
  <2>1. /\ RunOf[s] \in Runs /\ used[RunOf[s]] < MaxCalls /\ tries' = tries
        /\ used' = [used EXCEPT ![RunOf[s]] = @ + 1]
        /\ claim' = [claim EXCEPT ![s] = used'[RunOf[s]]]
        /\ pc[s] \notin InCall /\ \E place \in InCall : pc' = [pc EXCEPT ![s] = place]
    BY <1>1, HunterAssumption DEF Ask, AskFinder, Claims, Claimed, GoTo, InCall
  <2>2. /\ used \in [Runs -> Nat] /\ claim \in [Sessions -> Nat] /\ MaxCalls \in Nat
        /\ pc \in [Sessions -> PCs] /\ RunOf \in [Sessions -> Runs]
    BY HunterAssumption DEF CacheInv, TypeOK
  <2>3. /\ \A r \in Runs : used[r] <= used'[r] /\ used'[r] <= MaxCalls
        /\ used'[RunOf[s]] = used[RunOf[s]] + 1
    BY <2>1, <2>2 DEF ClaimsApart
  <2>4. /\ claim'[s] = used[RunOf[s]] + 1 /\ pc'[s] \in InCall
        /\ claim[s] = 0 /\ tries[s] = 0
        /\ \A z \in Sessions \ {s} : claim'[z] = claim[z] /\ pc'[z] = pc[z]
    BY <2>1, <2>2, <2>3 DEF ClaimsApart
  <2>5. \A z \in Sessions : RunOf[z] = RunOf[s] => claim[z] <= used[RunOf[s]]
    BY <2>2 DEF ClaimsApart
  <2>6. \A z \in Sessions :
          /\ claim'[z] \in 0 .. used'[RunOf[z]] /\ tries'[z] <= MaxRetries + 1
          /\ pc'[z] \in InCall <=> claim'[z] # 0
          /\ claim'[z] = 0 => tries'[z] = 0
    <3>1. ASSUME NEW z \in Sessions \ {s}
          PROVE  claim'[z] \in 0 .. used'[RunOf[z]]
      <4>1. claim[z] \in 0 .. used[RunOf[z]] /\ RunOf[z] \in Runs
        BY <2>2 DEF ClaimsApart
      <4>2. used[RunOf[z]] \in Nat /\ used'[RunOf[z]] \in Nat /\ used[RunOf[z]] <= used'[RunOf[z]]
        BY <2>1, <2>2, <2>3, <4>1
      <4>3. QED BY <2>4, <4>1, <4>2
    <3>2. claim'[s] \in 0 .. used'[RunOf[s]] /\ claim'[s] # 0
      BY <2>1, <2>2, <2>3, <2>4
    <3>3. QED BY <2>1, <2>4, <3>1, <3>2 DEF ClaimsApart
  <2>7. \A z, y \in Sessions : z # y /\ RunOf[y] = RunOf[z] /\ claim'[z] # 0 => claim'[y] # claim'[z]
    <3>1. \A z \in Sessions \ {s} : RunOf[z] = RunOf[s] => claim'[z] # claim'[s]
      BY <2>1, <2>2, <2>4, <2>5
    <3>2. QED BY <2>4, <3>1 DEF ClaimsApart
  <2>8. QED BY <2>3, <2>6, <2>7 DEF ClaimsApart
<1>2. ASSUME NEW s \in Sessions, Send(s) PROVE ClaimsApart'
  <2>1. /\ tries' = [tries EXCEPT ![s] = @ + 1] /\ tries[s] <= MaxRetries /\ pc[s] \in InCall
        /\ UNCHANGED <<used, claim, pc>> /\ tries \in [Sessions -> Nat] /\ MaxRetries \in Nat
    BY <1>2, HunterAssumption DEF Send, InCall, CacheInv, TypeOK
  <2>2. /\ tries'[s] <= MaxRetries + 1 /\ claim[s] # 0
        /\ \A z \in Sessions \ {s} : tries'[z] = tries[z]
    BY <2>1 DEF ClaimsApart
  <2>3. QED BY <2>1, <2>2 DEF ClaimsApart
<1>3. ASSUME NEW s \in Sessions,
             Answered(s) \/ Unanswered(s) \/ FinderReturned(s) \/ Commit(s) \/ Rollback(s)
      PROVE  ClaimsApart'
  <2>1. back[s] = "idle" \/ back[s] = "people" \/ back[s] = "finder"
    BY DEF CacheInv, TypeOK
  <2>2. /\ Returned(s) /\ \E place \in PCs \ InCall : pc' = [pc EXCEPT ![s] = place]
    BY <1>3, <2>1 DEF Answered, Unanswered, FinderReturned, Commit, Rollback, Close, GoTo, NextPerson,
       InCall, PCs
  <2>3. /\ used' = used /\ claim'[s] = 0 /\ tries'[s] = 0 /\ pc'[s] \notin InCall
        /\ \A z \in Sessions \ {s} : claim'[z] = claim[z] /\ tries'[z] = tries[z] /\ pc'[z] = pc[z]
    BY <2>2 DEF Returned, CacheInv, TypeOK
  <2>4. used[RunOf[s]] \in Nat /\ MaxRetries \in Nat
    BY HunterAssumption DEF CacheInv, TypeOK
  <2>5. QED BY <2>3, <2>4 DEF ClaimsApart
<1>4. CASE /\ UNCHANGED call
           /\ \A s \in Sessions : pc'[s] \in InCall <=> pc[s] \in InCall
  BY <1>4 DEF call, ClaimsApart
<1>5. QED BY <1>1, <1>2, <1>3, <1>4, NoCall

(* HunterBudget.consume and request_with_backoff (hunter.py 91-112, limits.py
   131-159): over all domains of an execution, every request goes out under a claim
   that no other call has and that max_hunter_calls allows, at the most max_retries
   + 1 under one. *)
THEOREM BudgetIsHeld == Spec => []BudgetHeld
<1>1. Init => ClaimsApart
  BY HunterAssumption DEF Init, ClaimsApart, InCall
<1>2. CacheInv /\ ClaimsApart => BudgetHeld
  <2>1. ASSUME CacheInv, ClaimsApart, NEW s \in Sessions, tries[s] # 0
        PROVE  /\ claim[s] \in 1 .. used[RunOf[s]] /\ tries[s] <= MaxRetries + 1
               /\ \A z \in Sessions \ {s} : RunOf[z] = RunOf[s] => claim[z] # claim[s]
    <3>1. claim[s] # 0 /\ claim[s] \in 0 .. used[RunOf[s]] /\ used[RunOf[s]] \in Nat
      BY <2>1, HunterAssumption DEF ClaimsApart, CacheInv, TypeOK
    <3>2. QED BY <2>1, <3>1 DEF ClaimsApart
  <2>2. QED BY <2>1 DEF ClaimsApart, BudgetHeld
<1>3. QED BY <1>1, <1>2, CacheAlways, ClaimsNext, PTL DEF Spec

(***************************************************************************)
(* What Hunter said                                                        *)
(***************************************************************************)

(* Rows are only copied, and Hunter takes nothing back. *)
LEMMA CopySaid ==
  ASSUME CacheInv, AllSaid, \A d \in Domains : replies[d] \subseteq replies'[d],
         \A d \in Domains : /\ Said(d, local'[d]) /\ Said(d, uncommitted'[d]) /\ Said(d, remote'[d]),
         \A s \in Sessions : /\ into'[s] \in Domains /\ Said(into'[s], view'[s])
                             /\ Said(Dom(s), ctx'[s]) /\ Said(Dom(s), own'[s])
  PROVE  AllSaid'
<1>1. \A d \in Domains : \A row : Said(d, row) =>
        (row # NoRow => \A f \in Columns : \E said \in replies'[d] :
           said[f] = row[f] \/ (f = "fetched" /\ said.fetched = Undated))
  BY DEF Said
<1>2. \A d \in Domains : Said(d, local[d])' /\ Said(d, uncommitted[d])' /\ Said(d, remote[d])'
  BY <1>1 DEF Said
<1>3. \A s \in Sessions : Dom(s) \in Domains
  BY GotTyped DEF CacheInv
<1>4. \A s \in Sessions : Said(into[s], view[s])' /\ Said(Dom(s), ctx[s])' /\ Said(Dom(s), own[s])'
  BY <1>1, <1>3 DEF Said, Dom
<1>5. QED BY <1>2, <1>4 DEF AllSaid, Dom

LEMMA GotSaid ==
  ASSUME CacheInv, AllSaid, NEW s \in Sessions, NEW d \in Domains PROVE Said(d, Got(s, d)) /\ Said(d, NoRow)
BY DEF AllSaid, Got, Said

LEMMA CopiedSaid ==
  ASSUME CacheInv, NEW d \in Domains, NEW row \in RemoteRows \cup {NoRow}, Said(d, row)
  PROVE  Said(d, Copied(row))
<1>1. CASE row # NoRow /\ row.fetched = Undated
  <2>1. /\ Copied(row) = [row EXCEPT !.fetched = today] /\ row \in RemoteRows
    BY <1>1 DEF Copied
  <2>2. Copied(row).pattern = row.pattern /\ Copied(row).acceptAll = row.acceptAll
    BY <2>1 DEF RemoteRows, RowsDated
  <2>3. \A f \in Columns : \E said \in replies[d] :
          said[f] = row[f] \/ (f = "fetched" /\ said.fetched = Undated)
    BY <1>1 DEF Said
  <2>4. \E said \in replies[d] : said.fetched = Undated
    BY <1>1, <2>3 DEF Columns
  <2>5. \A f \in Columns : f = "fetched" \/ Copied(row)[f] = row[f]
    BY <2>2 DEF Columns
  <2>6. QED BY <2>3, <2>4, <2>5 DEF Said
<1>2. CASE ~(row # NoRow /\ row.fetched = Undated)
  BY <1>2 DEF Copied
<1>3. QED BY <1>1, <1>2

LEMMA IncomingSaid ==
  ASSUME CacheInv, AllSaid, NEW s \in Sessions, RemoteHit(s) \/ Answered(s) PROVE AllSaid'
<1>1. PICK row \in Rows, d \in Domains, time \in SUBSET {"fetched"} :
        /\ Served(s, row) /\ PutLocal(s, d, row, time) /\ pc[s] \notin Pending \cup {"rollback"}
        /\ \/ /\ row = Copied(remote[Dom(s)]) /\ d = Dom(s) /\ replies' = replies
           \/ replies' = [e \in Domains |-> replies[e] \cup IF e \in {d, Dom(s)} THEN {row} ELSE {}]
  BY Incoming
<1>2. /\ \A e \in Domains : replies[e] \subseteq replies'[e] /\ UNCHANGED stores
      /\ view' = [view EXCEPT ![s] = row] /\ into' = [into EXCEPT ![s] = d]
      /\ Dom(s) \in Domains
  BY <1>1, PutPending, GotTyped DEF RemoteHit, Answered, CacheInv
<1> DEFINE Heard(e, known) ==
             known # NoRow => \A f \in Columns : \E said \in replies'[e] :
               said[f] = known[f] \/ (f = "fetched" /\ said.fetched = Undated)
<1>3. \A e \in {d, Dom(s)} : Heard(e, row)
  <2>1. CASE row = Copied(remote[Dom(s)]) /\ d = Dom(s) /\ replies' = replies
    <3>1. remote[Dom(s)] \in RemoteRows \cup {NoRow} /\ Said(Dom(s), remote[Dom(s)])
      BY <1>2 DEF AllSaid, CacheInv, TypeOK
    <3>2. Said(Dom(s), row)
      BY <1>2, <2>1, <3>1, CopiedSaid
    <3>3. QED BY <2>1, <3>2 DEF Said
  <2>2. CASE replies' = [e \in Domains |-> replies[e] \cup IF e \in {d, Dom(s)} THEN {row} ELSE {}]
    <3>1. \A e \in {d, Dom(s)} : row \in replies'[e]
      BY <1>2, <2>2
    <3>2. QED BY <3>1
  <2>3. QED BY <1>1, <2>1, <2>2
<1>4. \A e \in Domains : \A known : Said(e, known) => Heard(e, known)
  BY <1>2 DEF Said
<1> HIDE DEF Heard
<1>5. \A e \in Domains : Said(e, local[e])' /\ Said(e, uncommitted[e])' /\ Said(e, remote[e])'
  <2>1. \A e \in Domains : /\ Said(e, local'[e]) /\ Said(e, uncommitted'[e]) /\ Said(e, remote'[e])
    BY <1>2 DEF stores, AllSaid
  <2>2. \A e \in Domains : Heard(e, local'[e]) /\ Heard(e, uncommitted'[e]) /\ Heard(e, remote'[e])
    BY <1>4, <2>1
  <2>3. QED BY <2>2 DEF Said, Heard
<1>6. ASSUME NEW z \in Sessions
      PROVE  Said(into[z], view[z])' /\ Said(Dom(z), ctx[z])' /\ Said(Dom(z), own[z])'
  <2>1. CASE z = s
    <3>1. /\ into'[z] = d /\ view'[z] = row
          /\ ctx'[z] = row \/ ctx'[z] = ctx[z]
          /\ own'[z] = row \/ own'[z] = own[z]
      BY <1>1, <1>2, <2>1 DEF Served, CacheInv, TypeOK
    <3>2. Said(Dom(z), ctx[z]) /\ Said(Dom(z), own[z])
      BY DEF AllSaid
    <3>3. Said(into[z], view[z])'
      BY <1>3, <3>1 DEF Said, Heard
    <3>4. Said(Dom(z), ctx[z])'
      <4>1. CASE ctx'[z] = row
        BY <1>3, <2>1, <4>1 DEF Said, Heard, Dom
      <4>2. CASE ctx'[z] = ctx[z]
        <5>1. Heard(Dom(z), ctx[z])
          BY <1>2, <1>4, <2>1, <3>2
        <5>2. QED BY <4>2, <5>1 DEF Said, Heard, Dom
      <4>3. QED BY <3>1, <4>1, <4>2
    <3>5. Said(Dom(z), own[z])'
      <4>1. CASE own'[z] = row
        BY <1>3, <2>1, <4>1 DEF Said, Heard, Dom
      <4>2. CASE own'[z] = own[z]
        <5>1. Heard(Dom(z), own[z])
          BY <1>2, <1>4, <2>1, <3>2
        <5>2. QED BY <4>2, <5>1 DEF Said, Heard, Dom
      <4>3. QED BY <3>1, <4>1, <4>2
    <3>6. QED BY <3>3, <3>4, <3>5
  <2>2. CASE z # s
    <3>1. into'[z] = into[z] /\ view'[z] = view[z] /\ ctx'[z] = ctx[z] /\ own'[z] = own[z]
      BY <1>1, <1>2, <2>2 DEF Served, CacheInv, TypeOK
    <3>2. /\ Said(into[z], view[z]) /\ Said(Dom(z), ctx[z]) /\ Said(Dom(z), own[z])
          /\ into[z] \in Domains /\ Dom(z) \in Domains
      BY GotTyped DEF AllSaid, CacheInv, TypeOK
    <3>3. Heard(into[z], view[z]) /\ Heard(Dom(z), ctx[z]) /\ Heard(Dom(z), own[z])
      BY <1>4, <3>2
    <3>4. QED BY <3>1, <3>3 DEF Said, Heard, Dom
  <2>3. QED BY <2>1, <2>2
<1>7. QED BY <1>5, <1>6 DEF AllSaid, Dom

LEMMA ControlSaid ==
  ASSUME CacheInv, AllSaid, NEW s \in Sessions,
         \/ Begin(s) \/ LocalHit(s) \/ LocalMiss(s) \/ RemoteMiss(s) \/ RemoteDown(s) \/ Ask(s)
         \/ CapReached(s) \/ Send(s) \/ Unanswered(s) \/ FlushFails(s) \/ Confirm(s)
         \/ LastResort(s) \/ AskFinder(s) \/ SkipFinder(s) \/ FinderReturned(s)
  PROVE  AllSaid'
<1>1. Said(Dom(s), Got(s, Dom(s))) /\ Dom(s) \in Domains
  BY GotTyped, GotSaid DEF CacheInv
<1>2. UNCHANGED <<stores, replies>>
  BY DEF Begin, LocalHit, LocalMiss, RemoteMiss, RemoteDown, Ask, CapReached, Send, Unanswered,
     FlushFails, Confirm, LastResort, AskFinder, SkipFinder, FinderReturned
<1>3. \/ UNCHANGED copies
      \/ Forget(s)
      \/ /\ into' = into /\ dirty' = dirty /\ into[s] = Dom(s)
         /\ \E kept \in {Got(s, Dom(s)), NoRow} : view' = [view EXCEPT ![s] = kept]
  BY DEF Begin, LocalHit, LocalMiss, RemoteMiss, RemoteDown, Ask, CapReached, Send, Unanswered,
     FlushFails, Confirm, LastResort, AskFinder, SkipFinder, FinderReturned, Pending, CacheInv, Rooted
<1>4. \E row \in {ctx[s], Got(s, Dom(s)), NoRow} : ctx' = [ctx EXCEPT ![s] = row]
  BY DEF Begin, LocalHit, LocalMiss, RemoteMiss, RemoteDown, Ask, CapReached, Send, Unanswered,
     FlushFails, Confirm, LastResort, AskFinder, SkipFinder, FinderReturned, Served, served,
     CacheInv, TypeOK
<1>5. \E row \in {own[s], Got(s, Dom(s)), NoRow} : own' = [own EXCEPT ![s] = row]
  BY DEF Begin, LocalHit, LocalMiss, RemoteMiss, RemoteDown, Ask, CapReached, Send, Unanswered,
     FlushFails, Confirm, LastResort, AskFinder, SkipFinder, FinderReturned, Served, served,
     CacheInv, TypeOK
<1>6. \A z \in Sessions : /\ into[z] \in Domains /\ Said(into[z], view[z])
                          /\ Said(Dom(z), ctx[z]) /\ Said(Dom(z), own[z])
                          /\ \A d \in Domains : Said(d, NoRow)
  BY DEF AllSaid, CacheInv, TypeOK, Said
<1>7. \A z \in Sessions : into'[z] \in Domains /\ Said(into'[z], view'[z])
  <2>1. CASE UNCHANGED copies
    BY <1>6, <2>1 DEF copies
  <2>2. CASE Forget(s)
    BY <1>1, <1>6, <2>2 DEF Forget, CacheInv, TypeOK
  <2>3. CASE /\ into' = into /\ into[s] = Dom(s)
             /\ \E kept \in {Got(s, Dom(s)), NoRow} : view' = [view EXCEPT ![s] = kept]
    BY <1>1, <1>6, <2>3 DEF CacheInv, TypeOK
  <2>4. QED BY <1>3, <2>1, <2>2, <2>3
<1>8. \A z \in Sessions : Said(Dom(z), ctx'[z]) /\ Said(Dom(z), own'[z])
  BY <1>1, <1>4, <1>5, <1>6 DEF CacheInv, TypeOK
<1>9. \A d \in Domains : /\ replies[d] \subseteq replies'[d]
                         /\ Said(d, local'[d]) /\ Said(d, uncommitted'[d]) /\ Said(d, remote'[d])
  BY <1>2 DEF stores, AllSaid
<1>10. QED BY <1>7, <1>8, <1>9, CopySaid

LEMMA PostSaid == ASSUME CacheInv, AllSaid, NEW s \in Sessions, Post(s) PROVE AllSaid'
<1>1. /\ UNCHANGED <<local, uncommitted, copies, served, replies>>
      /\ remote' = remote \/ remote' = [remote EXCEPT ![into[s]] = view[s]]
  BY DEF Post, Posted
<1>2. \A d \in Domains : Said(d, remote'[d])
  BY <1>1 DEF AllSaid, CacheInv, TypeOK
<1>3. \A z \in Sessions : /\ into'[z] \in Domains /\ Said(into'[z], view'[z])
                          /\ Said(Dom(z), ctx'[z]) /\ Said(Dom(z), own'[z])
  BY <1>1 DEF copies, served, AllSaid, CacheInv, TypeOK
<1>4. \A d \in Domains : replies[d] \subseteq replies'[d] /\ Said(d, local'[d]) /\ Said(d, uncommitted'[d])
  BY <1>1 DEF AllSaid
<1>5. QED BY <1>2, <1>3, <1>4, CopySaid

(* A statement may leave the columns of two answers in one row. *)
LEMMA FlushSaid == ASSUME CacheInv, AllSaid, NEW s \in Sessions, Flush(s) PROVE AllSaid'
<1>1. /\ UNCHANGED <<local, remote, served, replies>> /\ Forget(s) /\ pc[s] = "flush"
      /\ Dom(s) \in Domains /\ into[s] \in Domains
  BY GotTyped DEF Flush, CacheInv, TypeOK
<1>2. Said(into[s], Written(s))
  <2>1. Said(into[s], view[s]) /\ Said(into[s], Got(s, into[s])) /\ view[s] # NoRow
    BY <1>1, GotSaid DEF AllSaid, CacheInv, Rooted, Pending
  <2>2. \A f \in Columns :
          \/ Written(s)[f] = view[s][f]
          \/ Got(s, into[s]) # NoRow /\ Written(s)[f] = Got(s, into[s])[f]
    BY <1>1, WrittenRow
  <2>3. QED BY <2>1, <2>2 DEF Said
<1>3. \A d \in Domains : Said(d, uncommitted'[d])
  <2>1. uncommitted'[into[s]] \in {uncommitted[into[s]], Written(s)}
    BY FlushWrites
  <2>2. \A d \in Domains \ {into[s]} : uncommitted'[d] = uncommitted[d]
    BY FlushWrites
  <2>3. QED BY <1>2, <2>1, <2>2 DEF AllSaid
<1>4. \A z \in Sessions : /\ into'[z] \in Domains /\ Said(into'[z], view'[z])
                          /\ Said(Dom(z), ctx'[z]) /\ Said(Dom(z), own'[z])
  <2>1. \A d \in Domains : Said(d, NoRow)
    BY DEF Said
  <2>2. QED BY <1>1, <2>1 DEF Forget, served, AllSaid, CacheInv, TypeOK
<1>5. \A d \in Domains : replies[d] \subseteq replies'[d] /\ Said(d, local'[d]) /\ Said(d, remote'[d])
  BY <1>1 DEF AllSaid
<1>6. QED BY <1>3, <1>4, <1>5, CopySaid

LEMMA CloseSaid ==
  ASSUME CacheInv, AllSaid, NEW s \in Sessions, Commit(s) \/ Rollback(s) PROVE AllSaid'
<1>1. /\ Close(s) /\ UNCHANGED <<remote, replies>>
      /\ local' = local \/ local' = [d \in Domains |-> Got(s, d)]
      /\ Dom(s) \in Domains
  BY GotTyped DEF Commit, Rollback, CacheInv
<1>2. \A d \in Domains : Said(d, NoRow) /\ Said(d, Got(s, d))
  BY GotSaid
<1>3. \A d \in Domains : /\ replies[d] \subseteq replies'[d]
                         /\ Said(d, local'[d]) /\ Said(d, uncommitted'[d]) /\ Said(d, remote'[d])
  BY <1>1, <1>2 DEF Close, AllSaid
<1>4. \A z \in Sessions : /\ into'[z] \in Domains /\ Said(into'[z], view'[z])
                          /\ Said(Dom(z), ctx'[z]) /\ Said(Dom(z), own'[z])
  BY <1>1, <1>2, GotTyped DEF Close, Forget, AllSaid, CacheInv, TypeOK
<1>5. QED BY <1>3, <1>4, CopySaid

LEMMA StillSaid == ASSUME AllSaid, Tomorrow \/ UNCHANGED vars PROVE AllSaid'
<1>1. UNCHANGED <<local, uncommitted, remote, into, view, ctx, own, replies>>
  BY DEF Tomorrow, vars, stores, copies, served
<1>2. QED BY <1>1 DEF AllSaid, Said

LEMMA SaidNext == ASSUME CacheInv, AllSaid, [Next]_vars PROVE AllSaid'
BY IncomingSaid, ControlSaid, PostSaid, FlushSaid, CloseSaid, StillSaid DEF Next, Work, Resolve

LEMMA SaidInit == Init => AllSaid
<1> SUFFICES ASSUME Init PROVE AllSaid
  OBVIOUS
<1>1. PICK start \in Stored :
        /\ local = [d \in Domains |-> start[d].local]
        /\ remote = [d \in Domains |-> start[d].remote]
        /\ replies = [d \in Domains |-> {start[d].local, start[d].remote} \ {NoRow}]
  BY DEF Init
<1>2. \A d \in Domains : \A row : row = NoRow \/ row \in replies[d] => Said(d, row)
  BY DEF Said
<1>3. \A d \in Domains : local[d] = NoRow \/ local[d] \in replies[d]
  BY <1>1
<1>4. \A d \in Domains : remote[d] = NoRow \/ remote[d] \in replies[d]
  BY <1>1
<1>5. \A d \in Domains : uncommitted[d] = NoRow
  BY DEF Init
<1>6. \A s \in Sessions : view[s] = NoRow /\ ctx[s] = NoRow /\ own[s] = NoRow /\ into[s] \in Domains
  BY HunterAssumption DEF Init, Dom
<1>7. QED BY <1>2, <1>3, <1>4, <1>5, <1>6, HunterAssumption DEF AllSaid, Dom

(* Whoever hands a row to a session has just looked at its date. *)
LEMMA HandedFresh ==
  ASSUME CacheInv, [Next]_vars, NEW s \in Sessions,
         NEW row \in {ctx'[s], own'[s]} \ {ctx[s], own[s], NoRow}
  PROVE  Fresh(row) /\ today' = today
<1>1. PICK z \in Sessions :
        LocalHit(z) \/ RemoteHit(z) \/ CapReached(z) \/ Answered(z) \/ Unanswered(z)
  <2>1. CASE Tomorrow \/ UNCHANGED vars
    BY <2>1 DEF Tomorrow, vars, served
  <2>2. ASSUME NEW z \in Sessions,
               \/ Begin(z) \/ LocalMiss(z) \/ RemoteMiss(z) \/ RemoteDown(z) \/ Ask(z) \/ Send(z)
               \/ Post(z) \/ Flush(z) \/ FlushFails(z) \/ LastResort(z) \/ AskFinder(z)
               \/ SkipFinder(z) \/ FinderReturned(z) \/ UNCHANGED served
        PROVE  FALSE
    BY <2>2 DEF Begin, LocalMiss, RemoteMiss, RemoteDown, Ask, Send, Post, Flush, FlushFails,
       LastResort, AskFinder, SkipFinder, FinderReturned, served
  <2>3. ASSUME NEW z \in Sessions, Confirm(z) \/ Commit(z) \/ Rollback(z)
        PROVE  FALSE
    <3>1. /\ ctx' = ctx \/ ctx' = [ctx EXCEPT ![z] = NoRow]
          /\ own' = [own EXCEPT ![z] = NoRow]
      BY <2>3 DEF Confirm, Commit, Rollback, Close
    <3>2. QED BY <3>1 DEF CacheInv, TypeOK
  <2>4. QED BY <2>1, <2>2, <2>3 DEF Next, Work, Resolve
<1>2. PICK given : Served(z, given) /\ (given = NoRow \/ Fresh(given)) /\ today' = today
  <2>1. CASE LocalHit(z)
    BY <2>1 DEF LocalHit
  <2>2. CASE RemoteHit(z) \/ Answered(z)
    <3>1. \E given \in Rows : Served(z, given) /\ Fresh(given)
      BY <2>2, Incoming
    <3>2. QED BY <2>2, <3>1 DEF RemoteHit, Answered
  <2>3. CASE CapReached(z) \/ Unanswered(z)
    BY <2>3 DEF CapReached, Unanswered
  <2>4. QED BY <1>1, <2>1, <2>2, <2>3
<1>3. row = given
  BY <1>2 DEF Served, CacheInv, TypeOK
<1>4. QED BY <1>2, <1>3

(* is_fresh, put_local, put_supabase and dict_to_pattern (hunter_cache.py 61-70,
   85-129, 193-220): through both stores, the copies between them, re-dated rows and
   rows that two answers share, what a session is given Hunter said, less than Ttl
   days ago unless nobody knows when. *)
THEOREM ServedFresh == Spec => ServedIsFresh
<1>1. ASSUME CacheInv, CacheInv', AllSaid', [Next]_vars
      PROVE  HandsFreshRows
  <2> SUFFICES ASSUME NEW s \in Sessions, NEW row \in {ctx'[s], own'[s]} \ {ctx[s], own[s], NoRow}
               PROVE  today' - row.fetched < Ttl /\ SaidOf(s, row)'
    BY DEF HandsFreshRows
  <2>1. Fresh(row) /\ today' = today
    BY <1>1, HandedFresh
  <2>2. /\ Said(Dom(s), ctx[s])' /\ Said(Dom(s), own[s])'
        /\ row # NoRow
    BY <1>1 DEF AllSaid, Dom
  <2>3. SaidOf(s, row)'
    BY <2>2 DEF Said, SaidOf, Dom
  <2>4. QED BY <2>1, <2>3 DEF Fresh
<1>2. Spec => []AllSaid
  BY SaidInit, SaidNext, CacheAlways, PTL DEF Spec
<1>3. CacheInv /\ CacheInv' /\ AllSaid' /\ [Next]_vars => [HandsFreshRows]_vars
  BY <1>1
<1>4. QED BY <1>2, <1>3, CacheAlways, PTL DEF Spec, ServedIsFresh

(***************************************************************************)
(* One search for one answer                                               *)
(***************************************************************************)

(* A step of another session takes nothing out of a session's hand. *)
LEMMA OthersHand ==
  ASSUME CacheInv, NEW s \in Sessions, Begin(s) \/ Work(s) \/ Confirm(s) \/ LastResort(s) \/ Rollback(s)
  PROVE  /\ today' = today
         /\ \A z \in Sessions \ {s} :
              /\ UNCHANGED <<pc[z], into[z], view[z], dirty[z], last[z]>>
              /\ holder[Dom(z)] = z => UNCHANGED <<holder[Dom(z)], uncommitted[Dom(z)]>>
<1>1. CASE \/ Begin(s) \/ LocalHit(s) \/ LocalMiss(s) \/ RemoteMiss(s) \/ RemoteDown(s) \/ Ask(s)
           \/ CapReached(s) \/ Send(s) \/ Unanswered(s) \/ FlushFails(s) \/ Confirm(s)
           \/ LastResort(s) \/ AskFinder(s) \/ SkipFinder(s) \/ FinderReturned(s) \/ Post(s)
  <2>1. /\ UNCHANGED <<today, holder, uncommitted, last>>
        /\ \E place : pc' = [pc EXCEPT ![s] = place] \/ pc' = pc
    BY <1>1 DEF Begin, LocalHit, LocalMiss, RemoteMiss, RemoteDown, Ask, CapReached, Send, Unanswered,
       FlushFails, Confirm, LastResort, AskFinder, SkipFinder, FinderReturned, Post, NextPerson, GoTo,
       stores
  <2>2. \/ UNCHANGED copies \/ Forget(s)
        \/ /\ UNCHANGED <<into, dirty>> /\ \E kept : view' = [view EXCEPT ![s] = kept]
    BY <1>1 DEF Begin, LocalHit, LocalMiss, RemoteMiss, RemoteDown, Ask, CapReached, Send, Unanswered,
       FlushFails, Confirm, LastResort, AskFinder, SkipFinder, FinderReturned, Post
  <2>3. QED BY <2>1, <2>2 DEF copies, Forget, CacheInv, TypeOK
<1>2. CASE RemoteHit(s) \/ Answered(s)
  <2>1. PICK row \in Rows, d \in Domains, time \in SUBSET {"fetched"} :
          /\ PutLocal(s, d, row, time) /\ pc[s] \notin Pending \cup {"rollback"}
          /\ last' = last \/ last' = [last EXCEPT ![s] = IF d = Dom(s) THEN row ELSE @]
    BY <1>2, Incoming
  <2>2. /\ view' = [view EXCEPT ![s] = row] /\ into' = [into EXCEPT ![s] = d]
        /\ dirty' = [dirty EXCEPT ![s] = dirty'[s]]
    BY <2>1, PutPending
  <2>3. /\ UNCHANGED <<today, holder, uncommitted>> /\ \E place : pc' = [pc EXCEPT ![s] = place]
    BY <1>2 DEF RemoteHit, Answered, GoTo, stores
  <2>4. QED BY <2>1, <2>2, <2>3 DEF CacheInv, TypeOK
<1>3. CASE Flush(s)
  <2>1. UNCHANGED <<today, last>> /\ Forget(s) /\ pc' = [pc EXCEPT ![s] = back[s]]
    BY <1>3 DEF Flush, GoTo
  <2>2. \A z \in Sessions \ {s} : holder[Dom(z)] = z =>
          UNCHANGED <<holder[Dom(z)], uncommitted[Dom(z)]>>
    BY <1>3, FlushWrites, GotTyped, HunterAssumption DEF CacheInv
  <2>3. QED BY <2>1, <2>2 DEF Forget, CacheInv, TypeOK
<1>4. CASE Commit(s) \/ Rollback(s)
  <2>1. Close(s) /\ today' = today
    BY <1>4 DEF Commit, Rollback
  <2>2. \A z \in Sessions \ {s} : holder[Dom(z)] = z =>
          UNCHANGED <<holder[Dom(z)], uncommitted[Dom(z)]>>
    BY <2>1, GotTyped DEF Close, CacheInv
  <2>3. QED BY <2>1, <2>2 DEF Close, Forget, CacheInv, TypeOK
<1>5. QED BY <1>1, <1>2, <1>3, <1>4 DEF Work, Resolve

LEMMA OwnHand ==
  ASSUME CacheInv, AtHand, NEW s \in Sessions, Fresh(last[s])',
         Begin(s) \/ Work(s) \/ Confirm(s) \/ LastResort(s) \/ Rollback(s)
  PROVE  \/ /\ pc'[s] \in Pending /\ into'[s] = Dom(s)
            /\ view'[s].fetched = last'[s].fetched /\ "fetched" \in dirty'[s]
         \/ /\ pc'[s] \notin Pending \cup {"remote", "ask", "searching"}
            /\ holder'[Dom(s)] = s /\ uncommitted'[Dom(s)].fetched = last'[s].fetched
         \/ pc'[s] = "rollback"
<1>1. /\ today' = today /\ Dom(s) \in Domains /\ back[s] \in {"idle", "people", "finder"}
      /\ pc[s] \in PCs
  BY OthersHand, GotTyped DEF CacheInv, TypeOK
<1>2. last'[s] = last[s] => Fresh(last[s])
  BY <1>1 DEF Fresh
<1>3. last'[s] = last[s] /\ pc[s] \notin Pending \cup {"rollback"} =>
        /\ pc[s] \notin {"remote", "ask", "searching"}
        /\ holder[Dom(s)] = s /\ uncommitted[Dom(s)].fetched = last[s].fetched
        /\ Fresh(Got(s, Dom(s)))
  <2>1. ASSUME last'[s] = last[s], pc[s] \notin Pending \cup {"rollback"} PROVE <1>3!2
    <3>1. /\ pc[s] \notin {"remote", "ask", "searching"}
          /\ holder[Dom(s)] = s /\ uncommitted[Dom(s)].fetched = last[s].fetched
      BY <1>2, <2>1 DEF AtHand
    <3>2. Got(s, Dom(s)) = uncommitted[Dom(s)] /\ uncommitted[Dom(s)] # NoRow
      BY <1>1, <3>1 DEF Got, CacheInv, Rooted
    <3>3. Fresh(Got(s, Dom(s)))
      BY <1>2, <2>1, <3>1, <3>2 DEF Fresh
    <3>4. QED BY <3>1, <3>3
  <2>2. QED BY <2>1
<1>4. CASE \/ LocalMiss(s) \/ RemoteHit(s) \/ RemoteMiss(s) \/ RemoteDown(s) \/ Ask(s) \/ CapReached(s)
           \/ Unanswered(s)
  <2>1. last'[s] = last[s] /\ pc[s] \in {"lookup", "remote", "ask", "searching"}
    BY <1>4 DEF LocalMiss, RemoteHit, RemoteMiss, RemoteDown, Ask, CapReached, Unanswered
  <2>2. pc[s] = "lookup" => ~Fresh(Got(s, Dom(s)))
    BY <1>4 DEF LocalMiss, RemoteHit, RemoteMiss, RemoteDown, Ask, CapReached, Unanswered
  <2>3. QED BY <1>3, <2>1, <2>2 DEF Pending
<1>5. CASE \/ Begin(s) \/ LocalHit(s) \/ Confirm(s) \/ LastResort(s) \/ AskFinder(s) \/ SkipFinder(s)
           \/ FinderReturned(s)
  <2>1. /\ last'[s] = last[s] /\ pc[s] \notin Pending \cup {"rollback"}
        /\ UNCHANGED <<holder, uncommitted>>
        /\ \E place \in PCs \ (Pending \cup {"remote", "ask", "searching"}) :
             pc' = [pc EXCEPT ![s] = place]
    BY <1>1, <1>5 DEF Begin, LocalHit, Confirm, LastResort, AskFinder, SkipFinder, FinderReturned,
       NextPerson, GoTo, PCs, Pending, stores
  <2>2. QED BY <1>3, <2>1 DEF CacheInv, TypeOK
<1>6. CASE Send(s)
  BY <1>2, <1>6 DEF Send, stores, copies, AtHand
<1>7. CASE Answered(s)
  <2>1. PICK row \in Rows, d \in Domains :
          /\ PutLocal(s, d, row, {"fetched"}) /\ pc[s] \notin Pending \cup {"rollback"}
          /\ last' = [last EXCEPT ![s] = IF d = Dom(s) THEN row ELSE @]
    <3>1. ~RemoteHit(s)
      BY <1>7 DEF RemoteHit, Answered
    <3>2. QED BY <1>7, <3>1, Incoming
  <2>2. /\ view' = [view EXCEPT ![s] = row] /\ into' = [into EXCEPT ![s] = d]
        /\ "fetched" \in dirty'[s]
    BY <2>1, PutPending
  <2>3. /\ pc[s] = "searching" /\ pc' = [pc EXCEPT ![s] = "posting"]
    BY <1>7 DEF Answered, GoTo
  <2>4. d = Dom(s) /\ last'[s] = row
    BY <1>3, <2>1, <2>3 DEF CacheInv, TypeOK, Pending
  <2>5. pc'[s] \in Pending /\ into'[s] = Dom(s) /\ view'[s] = row
    BY <2>2, <2>3, <2>4 DEF CacheInv, TypeOK, Pending
  <2>6. QED BY <2>2, <2>4, <2>5
<1>8. CASE Post(s)
  <2>1. /\ last'[s] = last[s] /\ UNCHANGED <<into[s], view[s], dirty[s]>>
        /\ pc[s] = "posting" /\ pc' = [pc EXCEPT ![s] = "flush"]
    BY <1>8 DEF Post, GoTo, copies
  <2>2. /\ into[s] = Dom(s) /\ view[s].fetched = last[s].fetched /\ "fetched" \in dirty[s]
    BY <1>2, <2>1 DEF AtHand, Pending
  <2>3. QED BY <2>1, <2>2 DEF CacheInv, TypeOK, Pending
<1>9. CASE Flush(s)
  <2>1. last'[s] = last[s] /\ pc[s] = "flush" /\ pc' = [pc EXCEPT ![s] = back[s]]
    BY <1>9 DEF Flush, GoTo
  <2>2. /\ into[s] = Dom(s) /\ view[s].fetched = last[s].fetched /\ "fetched" \in dirty[s]
    BY <1>2, <2>1 DEF AtHand, Pending
  <2>3. /\ holder'[Dom(s)] = s /\ uncommitted'[Dom(s)] = Written(s)
    BY <1>9, <2>2, FlushWrites
  <2>4. Written(s)["fetched"] = view[s]["fetched"]
    BY <2>2 DEF Written, Columns
  <2>5. pc'[s] \notin Pending \cup {"remote", "ask", "searching"}
    BY <1>1, <2>1 DEF CacheInv, TypeOK, Pending
  <2>6. QED BY <2>1, <2>2, <2>3, <2>4, <2>5
<1>10. CASE FlushFails(s)
  BY <1>10 DEF FlushFails, GoTo, CacheInv, TypeOK
<1>11. CASE Commit(s) \/ Rollback(s)
  <2>1. last'[s] = NoRow
    BY <1>11 DEF Commit, Rollback, Close, CacheInv, TypeOK
  <2>2. QED BY <2>1 DEF Fresh
<1>12. QED BY <1>4, <1>5, <1>6, <1>7, <1>8, <1>9, <1>10, <1>11 DEF Work, Resolve

LEMMA HandNext == ASSUME CacheInv, AtHand, [Next]_vars PROVE AtHand'
<1>1. ASSUME NEW s \in Sessions, Begin(s) \/ Work(s) \/ Confirm(s) \/ LastResort(s) \/ Rollback(s)
      PROVE  AtHand'
  <2>1. ASSUME NEW z \in Sessions \ {s}, Fresh(last[z])'
        PROVE  \/ /\ pc'[z] \in Pending /\ into'[z] = Dom(z)
                  /\ view'[z].fetched = last'[z].fetched /\ "fetched" \in dirty'[z]
               \/ /\ pc'[z] \notin Pending \cup {"remote", "ask", "searching"}
                  /\ holder'[Dom(z)] = z /\ uncommitted'[Dom(z)].fetched = last'[z].fetched
               \/ pc'[z] = "rollback"
    <3>1. /\ UNCHANGED <<today, pc[z], into[z], view[z], dirty[z], last[z]>>
          /\ holder[Dom(z)] = z => UNCHANGED <<holder[Dom(z)], uncommitted[Dom(z)]>>
      BY <1>1, OthersHand
    <3>2. Fresh(last[z])
      BY <2>1, <3>1 DEF Fresh
    <3>3. QED BY <3>1, <3>2 DEF AtHand
  <2>2. QED BY <1>1, <2>1, OwnHand DEF AtHand, Dom
<1>2. CASE Tomorrow \/ UNCHANGED vars
  <2>1. UNCHANGED <<pc, into, view, dirty, holder, uncommitted, last>>
    BY <1>2 DEF Tomorrow, vars, stores, copies
  <2>2. ASSUME NEW s \in Sessions, Fresh(last[s])' PROVE Fresh(last[s])
    <3>1. today' = today \/ today' = today + 1
      BY <1>2 DEF Tomorrow, vars
    <3>2. /\ last[s] # NoRow /\ last'[s] = last[s] /\ today' - last[s].fetched < Ttl
          /\ last[s] \in MaybeRow
      BY <2>1, <2>2 DEF Fresh, CacheInv, TypeOK
    <3>3. last[s].fetched \in Int /\ today \in Int /\ Ttl \in Int
      BY <3>2, HunterAssumption DEF MaybeRow, Rows, RowsDated, CacheInv, TypeOK
    <3>4. today - last[s].fetched < Ttl
      BY <3>1, <3>2, <3>3
    <3>5. QED BY <3>2, <3>4 DEF Fresh
  <2>3. QED BY <2>1, <2>2 DEF AtHand, Dom
<1>3. QED BY <1>1, <1>2 DEF Next

(* resolve_hunter_pattern (hunter_cache.py 140-220) under _confirm_on_catchall: a session
   that was answered under the name it asked for has that answer in its own transaction,
   whatever columns others wrote, and so pays for no second one until it is stale. *)
THEOREM SearchesPaidOnce == Spec => AnsweredOnce
<1>1. Init => AtHand
  BY DEF Init, AtHand, Fresh
<1>2. AtHand => \A s \in Sessions : Ask(s) => ~Fresh(last[s])
  BY DEF AtHand, Ask, Pending
<1>3. AtHand => [\A s \in Sessions : Ask(s) => ~Fresh(last[s])]_vars
  BY <1>2
<1>4. Spec => []AtHand
  BY <1>1, HandNext, CacheAlways, PTL DEF Spec
<1>5. QED BY <1>3, <1>4, PTL DEF AnsweredOnce

================================================================================
