------------------------------- MODULE Candidates -------------------------------
(***************************************************************************)
(* Which addresses a person may have, and in what order they are tried     *)
(* (permute.py, and the ranking of hunter.py).                             *)
(*                                                                         *)
(* A name is the function that gives, for each format, the addresses this  *)
(* format makes of the name's (first, last) variants, in the order         *)
(* generate_candidates walks them; two formats may make the same address.  *)
(* A candidate is an address with the format that it is filed under.       *)
(***************************************************************************)
EXTENDS Integers, FiniteSetsExt, SequencesExt

CONSTANTS
  Formats,       \* settings.patterns, in their order
  NoFormat,
  MaxCandidates  \* max_candidates

ASSUME CandidatesAssumption ==
  /\ Formats \in Seq(ToSet(Formats)) /\ Formats # << >> /\ NoFormat \notin ToSet(Formats)
  /\ MaxCandidates \in Nat \ {0}

Candidate(a, f) == [address |-> a, format |-> f]

(* An address is tried once, under the format that made it first. *)
Add(out, c) == IF \E i \in DOMAIN out : out[i].address = c.address THEN out ELSE Append(out, c)
Distinct(s) == FoldLeft(Add, << >>, s)
Least(m, n) == IF m < n THEN m ELSE n

(* The elements of a sequence that a set has, in their order. *)
Only(s, T) == FoldLeft(LAMBDA out, x : IF x \in T THEN Append(out, x) ELSE out, << >>, s)

(* generate_candidates: name variants outside, formats inside. *)
Generated(name, formats, max) ==
  LET variant(v) == [i \in DOMAIN formats |-> Candidate(name[formats[i]][v], formats[i])]
      distinct == Distinct(FlattenSeq([v \in DOMAIN name[formats[1]] |-> variant(v)]))
  IN SubSeq(distinct, 1, Least(max, Len(distinct)))

Of(name, f, max) == IF f = NoFormat THEN << >> ELSE Generated(name, <<f>>, max)

(* infer_pattern: the format under which the name's first such candidate is
   filed. *)
Inferred(name, a) ==
  LET making(v) == {i \in DOMAIN Formats : name[Formats[i]][v] = a}
      variants == {v \in DOMAIN name[Formats[1]] : making(v) # {}}
  IN IF variants = {} THEN NoFormat ELSE Formats[Min(making(Min(variants)))]

(* The last loop of build_ranked_candidates: it stops once it has two more than
   max_candidates, but only after the candidate it has just added. *)
Filled(out, more, max) ==
  FoldLeft(LAMBDA list, c : IF Len(list) >= max + 2 THEN list ELSE Add(list, c),
           Add(out, Head(more)), Tail(more))

Ranked_Repeats(name, known, lead, conventions, sighted, hunters) ==
  Of(name, lead, 4) \o sighted \o Of(name, hunters, 4) \o Generated(name, Formats, MaxCandidates)

(* build_ranked_candidates: a trusted format alone, or the domain's format, its
   conventions, the address that was found for the person, Hunter's format and
   then all formats. *)
Ranked(name, known, lead, conventions, sighted, hunters) ==
  IF known # NoFormat THEN Of(name, known, MaxCandidates)
  ELSE LET others == Only(conventions, ToSet(Formats) \ {lead})
           likely == Distinct(Of(name, lead, 4)
                       \o FlattenSeq([i \in DOMAIN others |-> Of(name, others[i], 4)])
                       \o sighted
                       \o Of(name, hunters, 4))
       IN Filled(likely, Generated(name, Formats, MaxCandidates), MaxCandidates)
================================================================================
