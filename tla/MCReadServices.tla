--------------------------- MODULE MCReadServices ---------------------------
(***************************************************************************)
(* Five payments linked by devices, an instrument and addresses, two pairs *)
(* at the same instants: more than the lists, networks and drawings of the *)
(* instance hold.                                                          *)
(***************************************************************************)
EXTENDS ReadServices

CONSTANTS t1, t2, t3, t4, t5

Keys(c, i, d, p, a) ==
  [customer |-> c, instrument |-> i, device |-> d, ip |-> p, address |-> a]

MCTime == (t1 :> 1) @@ (t2 :> 2) @@ (t3 :> 2) @@ (t4 :> 3) @@ (t5 :> 3)

MCRef ==
  (t1 :> Keys("c1", "i1", "d1", "p1", "a1")) @@
  (t2 :> Keys("c2", "i2", "d1", "p1", "a2")) @@
  (t3 :> Keys("c1", "i3", "d2", "p1", "a3")) @@
  (t4 :> Keys("c2", "i3", "d1", "p3", "a1")) @@
  (t5 :> Keys("c1", "i1", "d1", "p3", "a2"))

MCVisited == { <<"device", "d1">> }

(* The payment itself, a customer, and identities that the drawing may     *)
(* leave far from the customer of t4 or without any relationship.          *)
MCPathStarts ==
  { t4, <<"customer", "c1">>, <<"instrument", "i1">>, <<"address", "a3">> }

(* An order of the public ids, the same for payments and entities.         *)
Ids ==
  <<t1, t2, t3, t5, t4>>
  \o << <<"customer", "c1">>, <<"customer", "c2">>,
        <<"instrument", "i1">>, <<"instrument", "i2">>, <<"instrument", "i3">>,
        <<"device", "d1">>, <<"device", "d2">>, <<"ip", "p1">>, <<"ip", "p3">>,
        <<"address", "a1">>, <<"address", "a2">>, <<"address", "a3">> >>

MCRank == [x \in ToSet(Ids) |-> CHOOSE n \in DOMAIN Ids : Ids[n] = x]

=============================================================================
