--------------------------------- MODULE Ingest ---------------------------------
(***************************************************************************)
(* What becomes of the records of a request (ingest.py, create_run).  A    *)
(* record has a name as it was written and a domain, or none; NameOf is    *)
(* what normalize_person makes of the name: several ways to write it may   *)
(* give the same, and one that it cannot use gives Nameless (a person      *)
(* without variants, whose key is twice the empty string).                 *)
(***************************************************************************)
EXTENDS SequencesExt, FinderTypes

CONSTANTS
  NameOf,    \* [way to write a name -> name or Nameless]
  Nameless,
  NoDomain,
  Personal   \* settings.personal_domains

Record(written, d) == [written |-> written, domain |-> d]

Key_DomainLeftOut(record) == NameOf[record.written]
Key(record) == <<NameOf[record.written], record.domain>>

(* ingest_records: without a domain a record is dropped, with the key of an
   earlier one too. *)
Ingested(records) ==
  LET keep(rows, record) ==
        IF record.domain = NoDomain \/ \E row \in ToSet(rows) : Key(row) = Key(record)
        THEN rows ELSE Append(rows, record)
  IN FoldLeft(keep, << >>, records)

(* create_run *)
CreatedAs(record) ==
  IF NameOf[record.written] = Nameless THEN "insufficient_name"
  ELSE IF record.domain \in Personal THEN "personal_domain"
  ELSE Pending
=================================================================================
