------------------------------ MODULE Conventions ------------------------------
(***************************************************************************)
(* What the addresses of known people say about a domain's format          *)
(* (patterns.py:168-232).  A pair is a person with an address; the votes   *)
(* are the pairs that count, each with the format it votes for.            *)
(***************************************************************************)
EXTENDS Candidates

CONSTANTS
  Names,    \* person -> name
  Majority  \* convention_majority

ASSUME ConventionsAssumption == Majority \in Nat \ {0}

Pair(who, a) == [who |-> who, address |-> a]

(* One round of convention_votes: a person and an address count once, and only
   when a format makes the address of the name. *)
Voted_Addresses(votes, pair) ==
  LET f == Inferred(Names[pair.who], pair.address) IN
  IF f = NoFormat THEN votes ELSE Append(votes, [pair |-> pair, format |-> f])

Voted(votes, pair) ==
  LET f == Inferred(Names[pair.who], pair.address)
      counted == {votes[i].pair : i \in DOMAIN votes}
  IN IF f = NoFormat \/ \E c \in counted : c.who = pair.who \/ c.address = pair.address
     THEN votes
     ELSE Append(votes, [pair |-> pair, format |-> f])

(* convention_votes *)
Votes(pairs) == FoldLeft(Voted, << >>, pairs)

VotedFor(votes) == {votes[i].format : i \in DOMAIN votes}
Ballots(votes, f) == {i \in DOMAIN votes : votes[i].format = f}
Count(votes, f) == Cardinality(Ballots(votes, f))

(* Counter.most_common: equal counts stay in the order of their first vote. *)
Before(votes, f, g) ==
  \/ Count(votes, f) > Count(votes, g)
  \/ /\ Count(votes, f) = Count(votes, g)
     /\ Min(Ballots(votes, f)) < Min(Ballots(votes, g))

MostCommon(votes) ==
  CHOOSE ranked \in [1 .. Cardinality(VotedFor(votes)) -> VotedFor(votes)] :
    \A i, j \in DOMAIN ranked : i < j => Before(votes, ranked[i], ranked[j])

(* conventions_to_try: the formats of a majority and then those of two people;
   without a majority, whatever was seen. *)
ToTry(votes) ==
  LET strong == {f \in VotedFor(votes) : Count(votes, f) >= Majority}
      some == {f \in VotedFor(votes) \ strong : Count(votes, f) >= 2}
      ranked == MostCommon(votes)
  IN IF strong # {} THEN Only(ranked, strong) \o Only(ranked, some) ELSE ranked

(* agreeing_pattern: one format alone at the top, with a majority. *)
Agreed(votes) ==
  LET winners == {f \in VotedFor(votes) :
                    /\ Count(votes, f) >= Majority
                    /\ \A g \in VotedFor(votes) \ {f} : Count(votes, g) < Count(votes, f)}
  IN IF winners = {} THEN NoFormat ELSE CHOOSE f \in winners : TRUE

(* What a majority means, without an order: that many of the pairs have the
   format, all of different people with different addresses. *)
SharedBy(pairs, f, many) ==
  \E S \in SUBSET DOMAIN pairs :
    /\ Cardinality(S) = many
    /\ \A i \in S : pairs[i].address \in ToSet(Names[pairs[i].who][f])
    /\ \A i, j \in S :
         i # j => pairs[i].who # pairs[j].who /\ pairs[i].address # pairs[j].address
================================================================================
