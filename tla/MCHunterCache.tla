----------------------------- MODULE MCHunterCache -----------------------------
(* A small instance of HunterCache: run A has a task for each of two domains,
   run B one for the first domain; the first has an alias, and Hunter may answer
   for it under either name, for the second under the first only.  The tables
   are empty, or hold rows that say something else than Hunter does now, in
   Supabase without a date. *)
EXTENDS HunterCache

CONSTANTS a1, a2, b1, d1, d2, A, B

MCDomainOf == [s \in Sessions |-> IF s = a2 THEN d2 ELSE d1]
MCNamed == [d \in Domains |-> IF d = d1 THEN {d1, d2} ELSE {d1}]
MCRunOf == [s \in Sessions |-> IF s = b1 THEN B ELSE A]

Answer(pattern, acceptAll) == [pattern |-> pattern, acceptAll |-> acceptAll]
MCAnswers == {Answer(FALSE, TRUE)}

Empty == [local |-> NoRow, remote |-> NoRow]
Old == [local |-> HunterRow(Answer(TRUE, FALSE), 0), remote |-> HunterRow(Answer(TRUE, FALSE), Undated)]
MCStored == {[d \in Domains |-> Empty], [d \in Domains |-> Old]}
================================================================================
