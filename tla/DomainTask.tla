------------------------------- MODULE DomainTask -------------------------------
(***************************************************************************)
(* The task of one domain (engine.py: prepare_domain, process_domain): what *)
(* is known of the domain's format, the catch-all probe, Hunter's domain   *)
(* search, and then the people one after the other, each through the       *)
(* candidate ladder, the verifier waterfall, the people found there and    *)
(* the email finder (process_person).                                      *)
(*                                                                         *)
(* An address is a model value.  The ceiling and the Hunter budget belong  *)
(* to other modules; here they may be reached at any time.  Left out: the  *)
(* columns that only report (attempts, pattern_used, hunter_confidence).   *)
(***************************************************************************)
EXTENDS Conventions, PatternRow, FinderTypes

CONSTANTS
  Addresses, NoAddress,
  People,        \* the people to look up, in the order of the run
  NoOne,         \* a found address without a name
  LooksLike,     \* [person -> addresses that localpart_matches_person accepts]
  Sighted,       \* "sighted", the format of a found address that no format makes
  Contexts,      \* what Hunter's domain search may say: [format, found, acceptAll]
  NoContext,     \* hunter_ctx.row is None
  Offers,        \* addresses that Hunter's email finder may give
  Starts,        \* [row, known, hunter]: what the databases and Hunter hold
  Known,         \* verdicts that `verifications` may hold before
  Price,         \* [vendor -> cost_usd]
  BilledBy,      \* [vendor -> the statuses it bills]
  HasSecondary   \* verifier_order names two verifiers

Vendors == {"primary", "secondary"}

ASSUME TaskAssumption ==
  /\ NoAddress \notin Addresses /\ Offers \subseteq Addresses /\ NoContext \notin Contexts
  /\ NoPattern = NoFormat /\ ToSet(Formats) \cup {Sighted} \subseteq Patterns
  /\ Sighted \notin ToSet(Formats) \cup {NoFormat}
  /\ People \in Seq(ToSet(People)) /\ People # << >> /\ IsInjective(People)
  /\ ToSet(People) \subseteq (DOMAIN Names) \cap (DOMAIN LooksLike)
  /\ NoOne \notin DOMAIN Names
  /\ Price \in [Vendors -> Nat] /\ \A vendor \in Vendors : Price[vendor] > 0
  /\ BilledBy["primary"] \cap {"catchall", "unknown", "error"} = {}
  /\ Known \subseteq [Addresses -> Storable \cup {NoVerdict}]
  /\ HasSecondary \in BOOLEAN

(* A name has the same variants under every format, and a person to look up has
   one at least (create_run settles the others).  Patterns has the formats Hunter
   gives beside the configured ones: any string, which makes an address unless it
   is punctuation only. *)
ASSUME NamesAssumption ==
  /\ \A p \in DOMAIN Names :
       /\ DOMAIN Names[p] = Patterns
       /\ \A f \in Patterns : Names[p][f] \in Seq(ToSet(Names[p][f]))
       /\ \A f, g \in Patterns : Len(Names[p][f]) = Len(Names[p][g])
  /\ \A p \in ToSet(People) :
       /\ LooksLike[p] \subseteq Addresses
       /\ \A f \in Patterns : Names[p][f] # << >> /\ ToSet(Names[p][f]) \subseteq Addresses

(* What is there before the task. *)
ASSUME StartsAssumption ==
  /\ \A s \in Starts :
       /\ s.row \in Rows \cup {NoRow} /\ s.hunter \in Contexts
       /\ s.known \in Seq(ToSet(s.known))
       /\ \A pair \in ToSet(s.known) : pair.who \in DOMAIN Names
  /\ \A c \in Contexts :
       /\ c.format \in Patterns \cup {NoFormat} /\ c.acceptAll \in BOOLEAN
       /\ c.found \in Seq(ToSet(c.found))
       /\ \A item \in ToSet(c.found) : item.who \in (DOMAIN Names) \cup {NoOne}

VARIABLES
  start,       \* what the task finds, constant
  pattern,     \* the row of domain_patterns, as the session sees it
  resolved,    \* Hunter's answer is in the session's local cache
  context,     \* hunter_ctx of prepare_domain
  conventions, \* the formats of the people found
  flag,        \* is_catchall
  pc,
  queue,       \* the people from the current one on
  ladder,      \* the candidates still to verify
  last,        \* the last verdict of the lookup
  verdict,     \* address -> `verifications` as the session sees it
  status, email, flagged, \* the person's row; flagged is domain_is_catchall
  offered,     \* the address the email finder gave for the person
  charge,      \* history: address -> what CostTracker was charged for it
  shown        \* history: who has told this task that the domain accepts all mail

row == <<status, email, flagged>>
prepared == <<start, context, conventions, flag>>
domain == <<prepared, shown>>
vars == <<domain, pattern, resolved, pc, queue, ladder, last, verdict, row, offered, charge>>

-------------------------------------------------------------------------------
(* Hunter's answer about the domain, and what it says of one person. *)

Format(c) == IF c = NoContext THEN NoFormat ELSE c.format
Found(c) == IF c = NoContext THEN << >> ELSE c.found
FoundAddresses(c) == {item.address : item \in ToSet(Found(c))}

(* match_sighted and sighted_candidate: the first of them, if there is one. *)
Sight(p, c) ==
  LET matching == {i \in DOMAIN Found(c) : Found(c)[i].address \in LooksLike[p]}
      a == Found(c)[Min(matching)].address
      f == Inferred(Names[p], a)
  IN IF matching = {} THEN << >>
     ELSE <<Candidate(a, IF f = NoFormat THEN Sighted ELSE f)>>

(* _rank_person_candidates *)
Rank(p, c) ==
  Ranked(Names[p], Trusted(pattern), pattern.pattern, conventions, Sight(p, c), Format(c))

(* resolve_hunter_pattern: the cache, or Hunter, unless the budget is used up or
   the call fails. *)
Resolve(c) ==
  /\ c = start.hunter \/ (c = NoContext /\ ~resolved)
  /\ resolved' = (resolved \/ c # NoContext)

-------------------------------------------------------------------------------
Init ==
  /\ start \in Starts
  /\ pattern = start.row
  /\ resolved = FALSE /\ context = NoContext /\ conventions = << >> /\ flag = FALSE
  /\ pc = "load"
  /\ queue = People /\ ladder = << >> /\ last = NoVerdict
  /\ verdict \in Known
  /\ status = Pending /\ email = NoAddress /\ flagged = FALSE /\ offered = NoAddress
  /\ charge = [a \in Addresses |-> 0] /\ shown = {}

(* What a step was told, whatever it makes of it. *)
Told(who, acceptAll) == shown' = IF acceptAll THEN shown \cup {who} ELSE shown

person == <<queue, ladder, last, verdict, row, offered, charge>>

(* deduce_pattern_from_known *)
Deduced == Agreed(Votes(start.known))

(* load_local_domain_pattern *)
LoadKnown ==
  /\ pc = "load" /\ pc' = "probe"
  /\ pattern' = IF Deduced = NoFormat THEN pattern ELSE WithHint(pattern, Deduced)
  /\ UNCHANGED <<domain, resolved, person>>

(* probe_catchall: what `verifications` says of the probe address never expires,
   so it may be a new answer or an old one. *)
Probe ==
  /\ pc = "probe" /\ pc' = "hunter"
  /\ IF CatchallCached(pattern)
     THEN flag' = pattern.catchall /\ pattern' = pattern
     ELSE \E b \in BOOLEAN : flag' = b /\ pattern' = WithCatchall(pattern, b)
  /\ Told("probe", flag')
  /\ UNCHANGED <<start, context, conventions, resolved, person>>

(* _conventions_from_found *)
FoundFormats(c) ==
  ToTry(Votes(Only(Found(c), {item \in ToSet(Found(c)) : item.who # NoOne})))

(* prepare_domain asks Hunter while it is still finding. *)
AskHunter ==
  /\ pc = "hunter" /\ pc' = "next"
  /\ IF pattern.pattern = NoFormat \/ flag
     THEN \E c \in {start.hunter, NoContext} : Resolve(c) /\ context' = c
     ELSE UNCHANGED <<resolved, context>>
  /\ flag' = (flag \/ (context' # NoContext /\ context'.acceptAll))
  /\ conventions' = FoundFormats(context')
  /\ pattern' = IF conventions' # << >> /\ Deduced = NoFormat
                THEN WithHint(pattern, Head(conventions')) ELSE pattern
  /\ Told("hunter", context' # NoContext /\ context'.acceptAll)
  /\ UNCHANGED <<start, person>>

(* The loop over the pending people: what the last one found out about the
   domain counts for the next. *)
FlagNow_Prepared == flag
FlagNow == flag \/ pattern.catchall

Current == Head(queue)

NextPerson ==
  /\ pc = "next"
  /\ queue' = IF status = Pending THEN queue ELSE Tail(queue)
  /\ queue' # << >>
  /\ flag' = FlagNow
  /\ ladder' = IF flag' THEN << >> ELSE Rank(Head(queue'), context)
  /\ pc' = IF flag' THEN "confirm" ELSE "ladder"
  /\ last' = NoVerdict /\ status' = Pending /\ email' = NoAddress /\ flagged' = FALSE
  /\ offered' = NoAddress
  /\ UNCHANGED <<start, context, conventions, shown, pattern, resolved, verdict, charge>>

-------------------------------------------------------------------------------
(* verify_email with WaterfallVerifier.verify *)

SecondOpinion_Always(v) == HasSecondary
SecondOpinion(v) == v \in {"catchall", "unknown"} /\ HasSecondary

(* The secondary's word counts when it is one. *)
Final(one, two) == IF two \in {"valid", "invalid", "catchall"} THEN two ELSE one
Bill(vendor, v) == IF v \in BilledBy[vendor] THEN Price[vendor] ELSE 0

Replies ==
  {[verdict |-> v, cost |-> Bill("primary", v)] : v \in {v \in Verdicts : ~SecondOpinion(v)}}
  \cup {[verdict |-> Final(v, w), cost |-> Bill("primary", v) + Bill("secondary", w)] :
          v \in {v \in Verdicts : SecondOpinion(v)}, w \in Verdicts}

(* store_verdict, unless it is an error. *)
Stored_ErrorsToo(a, v) == [verdict EXCEPT ![a] = v]
Stored(a, v) == IF v = "error" THEN verdict ELSE [verdict EXCEPT ![a] = v]

(* What `verifications` knows is free and never expires. *)
Verified(a, v) ==
  /\ IF verdict[a] # NoVerdict
     THEN v = verdict[a] /\ UNCHANGED <<verdict, charge>>
     ELSE \E reply \in Replies :
            /\ v = reply.verdict
            /\ verdict' = Stored(a, v)
            /\ charge' = [charge EXCEPT ![a] = @ + reply.cost]
  /\ last' = v

(* CostCeilingReached leaves the row pending; the loop also looks before each
   person. *)
Asks(a) == a \in Addresses /\ verdict[a] = NoVerdict
Stop ==
  /\ \/ pc = "probe" /\ ~CatchallCached(pattern)
     \/ pc = "next"
     \/ pc = "ladder" /\ ladder # << >> /\ Asks(Head(ladder).address)
     \/ pc = "offer" /\ Asks(offered)
  /\ pc' = "stopped"
  /\ UNCHANGED <<domain, pattern, resolved, person>>

-------------------------------------------------------------------------------
(* process_person *)

(* _apply_result *)
Result(s, a, accepting) ==
  /\ status' = s /\ email' = a /\ flagged' = accepting
  /\ pc' = "next"

(* The verdict on the ladder's first candidate. *)
Judge_ErrorIsMiss(c, v) ==
  /\ ladder' = Tail(ladder)
  /\ \/ v = "valid" /\ Result("valid", c.address, FALSE) /\ pattern' = WithHit(pattern, c.format)
     \/ v = "catchall" /\ pc' = "confirm" /\ pattern' = WithCatchall(pattern, TRUE) /\ UNCHANGED row
     \/ v \in {"invalid", "unknown", "error"} /\ pc' = "ladder" /\ UNCHANGED <<pattern, row>>

Judge(c, v) ==
  /\ ladder' = IF v \in {"invalid", "unknown"} THEN Tail(ladder) ELSE << >>
  /\ \/ v = "valid" /\ Result("valid", c.address, FALSE) /\ pattern' = WithHit(pattern, c.format)
     \/ v = "catchall" /\ pc' = "confirm" /\ pattern' = WithCatchall(pattern, TRUE) /\ UNCHANGED row
     \/ v = "error" /\ Result("error", NoAddress, FALSE) /\ UNCHANGED pattern
     \/ v \in {"invalid", "unknown"} /\ pc' = "ladder" /\ UNCHANGED <<pattern, row>>

Climb ==
  /\ pc = "ladder" /\ ladder # << >>
  /\ \E v \in Verdicts : Verified(Head(ladder).address, v) /\ Judge(Head(ladder), v)
  /\ Told("verifier", last' = "catchall")
  /\ UNCHANGED <<prepared, resolved, queue, offered>>

(* _confirm_on_catchall: hunter_ctx is resolved again when there is none; the
   person's own address among those found, or else a candidate among them. *)
Confirmed(p, c) ==
  LET ranked == Rank(p, c)
      seen == {i \in DOMAIN ranked : ranked[i].address \in FoundAddresses(c)}
  IN CASE Sight(p, c) # << >> -> Head(Sight(p, c)).address
       [] Sight(p, c) = << >> /\ seen # {} -> ranked[Min(seen)].address
       [] OTHER -> NoAddress

Confirm ==
  /\ pc = "confirm"
  /\ \E c \in {context, start.hunter} :
       /\ Told("hunter", c # NoContext /\ c.acceptAll)
       /\ IF context = NoContext THEN Resolve(c) ELSE c = context /\ UNCHANGED resolved
       /\ IF Confirmed(Current, c) # NoAddress
          THEN Result("valid", Confirmed(Current, c), TRUE)
          ELSE pc' = "finder" /\ UNCHANGED row
  /\ UNCHANGED <<prepared, pattern, queue, ladder, last, verdict, offered, charge>>

(* The candidates are used up: the email finder, unless Hunter gave a format. *)
LastResort_Always == pc = "ladder"
LastResort == pc = "ladder" /\ ladder = << >> /\ Format(context) = NoFormat

(* _try_email_finder: no client, no budget, no full name, a failure or no
   address; or an address, which counts at once on a domain that accepts all. *)
Finder ==
  /\ pc = "finder" \/ LastResort
  /\ \/ Result("not_found", NoAddress, pc = "finder") /\ UNCHANGED <<offered, shown>>
     \/ \E a \in Offers : \E acceptAll \in BOOLEAN :
          /\ offered' = a /\ Told("finder", acceptAll)
          /\ IF pc = "finder" \/ acceptAll THEN Result("valid", a, TRUE)
                                           ELSE pc' = "offer" /\ UNCHANGED row
  /\ UNCHANGED <<prepared, pattern, resolved, queue, ladder, last, verdict, charge>>

Nothing ==
  /\ pc = "ladder" /\ ladder = << >> /\ Format(context) # NoFormat
  /\ Result("not_found", NoAddress, FALSE)
  /\ UNCHANGED <<domain, pattern, resolved, queue, ladder, last, verdict, offered, charge>>

(* A catch-all counts for the finder's address, a miss does not. *)
JudgeFinder_Unflagged(v) ==
  /\ pattern' = IF v = "catchall" THEN WithCatchall(pattern, TRUE) ELSE pattern
  /\ IF v \in {"valid", "catchall"} THEN Result("valid", offered, FALSE)
                                    ELSE Result("not_found", NoAddress, FALSE)

JudgeFinder(v) ==
  /\ pattern' = IF v = "catchall" THEN WithCatchall(pattern, TRUE) ELSE pattern
  /\ IF v \in {"valid", "catchall"} THEN Result("valid", offered, v = "catchall")
                                    ELSE Result("not_found", NoAddress, FALSE)

Offer ==
  /\ pc = "offer"
  /\ \E v \in Verdicts : Verified(offered, v) /\ JudgeFinder(v)
  /\ Told("verifier", last' = "catchall")
  /\ UNCHANGED <<prepared, resolved, queue, ladder, offered>>

Next ==
  \/ LoadKnown \/ Probe \/ AskHunter
  \/ NextPerson \/ Stop
  \/ Climb \/ Confirm \/ Nothing \/ Finder \/ Offer

Spec == Init /\ [][Next]_vars

-------------------------------------------------------------------------------
TypeOK ==
  /\ start \in Starts
  /\ pattern \in Rows \cup {NoRow}
  /\ resolved \in BOOLEAN /\ context \in Contexts \cup {NoContext}
  /\ conventions \in Seq(ToSet(Formats)) /\ flag \in BOOLEAN
  /\ pc \in {"load", "probe", "hunter", "next", "ladder", "confirm", "finder", "offer", "stopped"}
  /\ queue \in Seq(ToSet(People)) /\ queue # << >>
  /\ \A c \in ToSet(ladder) : c.address \in Addresses /\ c.format \in Patterns
  /\ last \in Verdicts \cup {NoVerdict}
  /\ verdict \in [Addresses -> Storable \cup {NoVerdict}]
  /\ status \in {Pending, "valid", "not_found", "error"}
  /\ email \in Addresses \cup {NoAddress} /\ flagged \in BOOLEAN
  /\ offered \in Addresses \cup {NoAddress}
  /\ charge \in [Addresses -> Nat]
  /\ shown \subseteq {"probe", "hunter", "verifier", "finder"}

(* README.md:43: "Catch-all rows are never merged into valid."  What the code
   keeps of it: a valid row that is not flagged domain_is_catchall has an address
   the verifiers called valid, and a flagged one an address that was found at the
   domain or that Hunter's finder gave for this very person. *)
ValidIsVouched ==
  status = "valid" =>
    IF flagged
    THEN email = offered \/ (resolved /\ email \in FoundAddresses(start.hunter))
    ELSE verdict[email] = "valid"

(* README.md:38-39: "No2Bounce only for catch-all or unknown, because
   MillionVerifier does not bill those outcomes": over cached verdicts, second
   opinions, the email finder and people with the same address, no address is
   billed by both vendors, nor twice by one. *)
OneVendorBills == \A a \in Addresses : charge[a] \in {0, Price["primary"], Price["secondary"]}

(* README.md:26-27: "it comes back valid, the domain accepts all mail and
   per-address verification proves nothing": once the probe or the stored row,
   Hunter's domain search, or a verdict on an address of anybody has told the task
   so, it verifies no address.  One voice it does not listen to: when the email
   finder says that the domain accepts all mail, only the person's row is flagged
   (engine.py:573-588), and the next person's addresses are still bought. *)
CatchallNotBought ==
  [][verdict' # verdict \/ charge' # charge \/ (pc = "ladder" /\ last' # last)
       => shown \subseteq {"finder"}]_vars

(* hunter.py:3-4: the email finder "is last resort only": it is asked when every
   candidate has been verified and missed, or, on a catch-all domain, when nobody
   found there confirms one. *)
FinderIsLast ==
  [][offered' # offered /\ offered' # NoAddress =>
       IF pc = "finder"
       THEN resolved => Confirmed(Current, start.hunter) = NoAddress
       ELSE \A c \in ToSet(Rank(Current, context)) : verdict[c.address] \in {"invalid", "unknown"}]_vars

(* What build_ranked_candidates is for: the likely addresses come first, each once,
   and none is cut off, whatever formats, variants and sightings make the same
   ones; a trusted format leaves no others, though it leaves one address for each
   variant of the name (hunter.py:489-494) where README.md:35-36 speaks of one.  For
   names with few enough variants: a single format is cut at 4 addresses, a trusted
   one at MaxCandidates. *)
Made(p, f) == IF f = NoFormat THEN {} ELSE ToSet(Names[p][f])
Likely(p) ==
  IF Trusted(pattern) # NoPattern THEN Made(p, pattern.pattern)
  ELSE Made(p, pattern.pattern) \cup (UNION {Made(p, f) : f \in ToSet(conventions)})
       \cup Made(p, Format(context)) \cup {c.address : c \in ToSet(Sight(p, context))}
FewVariants(p) == \A f \in Patterns : Cardinality(Made(p, f)) <= Least(4, MaxCandidates)
LikelyFirst ==
  pc = "ladder" /\ last = NoVerdict /\ FewVariants(Current) =>
    LET list == [i \in DOMAIN ladder |-> ladder[i].address] IN
    /\ IsInjective(list) /\ Likely(Current) \subseteq ToSet(list)
    /\ \A i \in DOMAIN list : list[i] \in Likely(Current) <=> i <= Cardinality(Likely(Current))
    /\ Trusted(pattern) # NoPattern => ToSet(list) = Likely(Current)

(* patterns.py:223: agreeing_pattern returns "the template shared by at least
   min_agree distinct known people", whatever the order they come in and however
   many addresses one of them has; and a format that Hunter's people suggest is
   theirs, and never overrides such a one. *)
HintIsShared ==
  [][/\ pc = "load" /\ pattern' # pattern => SharedBy(start.known, pattern'.pattern, Majority)
     /\ pc = "hunter" /\ pattern' # pattern =>
          /\ \E item \in ToSet(Found(start.hunter)) :
               item.who # NoOne /\ item.address \in Made(item.who, pattern'.pattern)
          /\ Deduced = NoFormat]_vars

(* Every lookup of the task keeps the promise that FinderRun relies on. *)
Promise == INSTANCE LookupPromise
KeepsPromise == Promise!Spec

(* README.md:18-20: "candidates are generated from a frequency-ordered pattern
   list"; "The winning pattern is stored on domain_patterns so the next person at
   that domain is nearly free": what is verified for a person was made of the
   person's name by a format, found at the domain, or given by the finder. *)
CandidatesAreTheirs ==
  pc = "ladder" => \A c \in ToSet(ladder) :
    \/ \E f \in Patterns \ {Sighted} : c.address \in Made(Current, f)
    \/ c.address \in FoundAddresses(context)
================================================================================
