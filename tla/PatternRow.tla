------------------------------- MODULE PatternRow -------------------------------
(***************************************************************************)
(* The row of domain_patterns of one domain, and what patterns.py makes of  *)
(* a copy of it.  sample_count and last_verified_at are left out (nothing  *)
(* reads them); catchall_checked_at is the flag `fresh`.                   *)
(***************************************************************************)
EXTENDS Naturals

CONSTANTS
  Patterns,     \* name formats
  NoPattern, NoRow,
  Threshold     \* pattern_trust_threshold

Rows == [pattern : Patterns \cup {NoPattern}, conf : Nat, catchall : BOOLEAN, fresh : BOOLEAN]

ASSUME RowAssumption ==
  /\ NoPattern \notin Patterns
  /\ NoRow \notin Rows
  /\ Threshold \in Nat \ {0}

(* trusted_pattern *)
Trusted(r) ==
  IF r = NoRow THEN NoPattern
  ELSE IF r.catchall \/ r.conf < Threshold THEN NoPattern
  ELSE r.pattern

(* catchall_is_cached *)
CatchallCached(r) == r # NoRow /\ r.fresh

Less1(n) == IF n = 0 THEN 0 ELSE n - 1

WithHit_NoFloor(r, p) ==
  IF r = NoRow THEN [pattern |-> p, conf |-> 1, catchall |-> FALSE, fresh |-> FALSE]
  ELSE IF r.pattern \in {NoPattern, p} THEN [r EXCEPT !.pattern = p, !.conf = @ + 1]
  ELSE [r EXCEPT !.conf = @ - 1]

WithHit_Overwrites(r, p) ==
  IF r = NoRow THEN [pattern |-> p, conf |-> 1, catchall |-> FALSE, fresh |-> FALSE]
  ELSE [r EXCEPT !.pattern = p, !.conf = @ + 1]

(* record_hit, as the engine and the seed call it (is_catchall False). *)
WithHit(r, p) ==
  IF r = NoRow THEN [pattern |-> p, conf |-> 1, catchall |-> FALSE, fresh |-> FALSE]
  ELSE IF r.pattern \in {NoPattern, p} THEN [r EXCEPT !.pattern = p, !.conf = @ + 1]
  ELSE IF Less1(r.conf) < Threshold THEN [r EXCEPT !.pattern = p, !.conf = 1]
  ELSE [r EXCEPT !.conf = Less1(@)]

(* remember_deduced_pattern *)
WithHint(r, p) ==
  IF r = NoRow THEN [pattern |-> p, conf |-> 0, catchall |-> FALSE, fresh |-> FALSE]
  ELSE IF Trusted(r) # NoPattern THEN r
  ELSE [r EXCEPT !.pattern = p]

(* upsert_catchall *)
WithCatchall(r, b) ==
  IF r = NoRow THEN [pattern |-> NoPattern, conf |-> 0, catchall |-> b, fresh |-> TRUE]
  ELSE [r EXCEPT !.catchall = b, !.fresh = TRUE]
=================================================================================
