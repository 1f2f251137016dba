-------------------------------- MODULE MCService --------------------------------
(* Small instances of Service: two runs over two domains and one connection, and a
   request to verify one person. *)
EXTENDS Service, TLC

CONSTANTS A, B, check1, d1, d2, gmail, jo, jo2, li, jr, JO, LI

(* jo and jo2 spell one name; jr is a name without a last name. *)
MCNameOf == (jo :> JO) @@ (jo2 :> JO) @@ (li :> LI) @@ (jr :> Nameless)

MCBodyOf ==
  A :> <<Record(jo, d1), Record(jo2, d1), Record(jr, d1), Record(jo, d2), Record(li, NoDomain)>>
  @@ B :> <<Record(jo, d1), Record(li, d1), Record(li, gmail)>>
=================================================================================
