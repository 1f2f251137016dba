------------------------------ MODULE MCDomainTask ------------------------------
(* Small instances of DomainTask: two people with one address in common, the
   first with two variants of the name, two formats and one that only Hunter knows,
   three known people, and an address no format makes. *)
EXTENDS DomainTask, TLC

CONSTANTS dotted, short, foreign, ana, bo, k1, k2, k3, x, y, z, u, w, s, a1, a2, a3, b1, b2, b3

MCFormats == <<dotted, short>>
MCPeople == <<ana, bo>>
MCNames ==
  LET name(inDotted, inShort, other) ==
        LET always(a) == [v \in DOMAIN inDotted |-> a] IN
        (dotted :> inDotted) @@ (short :> inShort) @@ (foreign :> always(other)) @@ (Sighted :> always(s))
  IN
  (ana :> name(<<x, y>>, <<z, x>>, w)) @@ (bo :> name(<<u>>, <<z>>, y))
  @@ (k1 :> name(<<a1, b1>>, <<b2, a2>>, s)) @@ (k2 :> name(<<a2>>, <<b2>>, s))
  @@ (k3 :> name(<<a3>>, <<b3>>, s))
MCLooksLike == (ana :> {x, y, w}) @@ (bo :> {u, w})

Row(p, conf, catchallDomain, fresh) ==
  [pattern |-> p, conf |-> conf, catchall |-> catchallDomain, fresh |-> fresh]
MCRows == {NoRow, Row(dotted, 1, FALSE, TRUE), Row(short, 2, FALSE, FALSE), Row(NoFormat, 0, TRUE, TRUE)}

MCKnownPairs ==
  {<< >>,
   <<Pair(k1, a1), Pair(k2, a2), Pair(k3, a3)>>,
   <<Pair(k1, a1), Pair(k1, b1), Pair(k2, a2)>>,    \* one person, two addresses
   <<Pair(k1, a2), Pair(k2, a2), Pair(k3, b3)>>}    \* two people, one address

Context(format, found, acceptAll) == [format |-> format, found |-> found, acceptAll |-> acceptAll]
MCContexts ==
  {Context(NoFormat, << >>, FALSE),
   Context(short, <<Pair(k3, b3)>>, FALSE),
   Context(foreign, <<Pair(NoOne, w)>>, FALSE),
   Context(NoFormat, <<Pair(NoOne, w)>>, FALSE),
   Context(NoFormat, <<Pair(k2, b2), Pair(k1, a1), Pair(ana, x)>>, FALSE),
   Context(short, <<Pair(k1, a1), Pair(k2, b2), Pair(NoOne, z)>>, TRUE)}

MCStarts == [row : MCRows, known : MCKnownPairs, hunter : MCContexts]

(* Nothing known, or one address verified by an earlier lookup. *)
MCKnown == {[a \in Addresses |-> NoVerdict]} \cup
           {[[a \in Addresses |-> NoVerdict] EXCEPT ![b] = v] : b \in {w, z}, v \in {"valid", "invalid", "catchall"}}

MCPrice == "primary" :> 1 @@ "secondary" :> 4
MCBilledBy == "primary" :> {"valid", "invalid"} @@ "secondary" :> {"valid", "invalid", "catchall"}
=================================================================================
