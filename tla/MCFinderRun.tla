------------------------------ MODULE MCFinderRun ------------------------------
(***************************************************************************)
(* Small instances of FinderRun.                                           *)
(*  Solo: one run; d1 has two people who share an address, d2 has one, d3  *)
(*        is the task of a row without a domain; one row was insufficient  *)
(*        when the run was created.                                        *)
(*  Pair: two runs with people of one domain: two people with an address   *)
(*        each, and one person who may have either address, so that they   *)
(*        buy, insert and wait for the same verdicts, in any order.        *)
(***************************************************************************)
EXTENDS FinderRun

CONSTANTS
  A, B,                  \* runs
  d1, d2, d3, f1,       \* tasks
  p1, p2, p3, p4, p5, q1,
  e1, e2, x1, x2     \* addresses; x1, x2 are the probes

Reply(s, c) == [status |-> s, cost |-> c]

SoloTasks == {d1, d2, d3}
SoloRunOf == [t \in SoloTasks |-> A]
SoloPeopleOf == [t \in SoloTasks |-> CASE t = d1 -> {p1, p2, p5}
                                       [] t = d2 -> {p3}
                                       [] OTHER -> {p4}]
SoloProbeOf == [t \in SoloTasks |-> IF t = d2 THEN x2 ELSE x1]
SoloEmailsOf == [p \in People |-> IF p \in {p1, p2} THEN {e1} ELSE {}]
SoloCreated == [p \in People |-> IF p = p5 THEN "insufficient_name" ELSE Pending]
SoloCeiling == [r \in Runs |-> 2]
SoloReplies == {Reply("valid", 1), Reply("catchall", 2), Reply("error", 0)}

PairTasks == {d1, f1}
PairRunOf == [t \in PairTasks |-> IF t = d1 THEN A ELSE B]
PairPeopleOf == [t \in PairTasks |-> IF t = d1 THEN {p1, p2} ELSE {q1}]
PairProbeOf == [t \in PairTasks |-> x1]
PairEmailsOf == [p \in People |-> CASE p = p1 -> {e1}
                                    [] p = p2 -> {e2}
                                    [] OTHER -> {e1, e2}]
PairCreated == [p \in People |-> Pending]
PairCeiling == [r \in Runs |-> NoCeiling]
PairReplies == {Reply("valid", 1), Reply("invalid", 1)}
===============================================================================
