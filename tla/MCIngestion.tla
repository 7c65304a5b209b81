---------------------------- MODULE MCIngestion ----------------------------
(* Instances of Ingestion for TLC: three events whose times differ from    *)
(* their arrival order and which overlap in different tables, so that two  *)
(* requests meet on some rows and not on others.                           *)
EXTENDS Ingestion, TLC

CONSTANTS e1, e2, e3

MCEventTime == (e1 :> 2) @@ (e2 :> 1) @@ (e3 :> 3)

Keys(c, m, i, d, p, a) ==
  [customer |-> c, merchant |-> m, instrument |-> i,
   device |-> d, ip |-> p, address |-> a]

(* e1 and e2 are two customers on one device and instrument; e3 is the     *)
(* customer of e1 with another instrument at the address of e2.            *)
MCRef ==
  (e1 :> Keys("c1", "m1", "i1", "d1", "p1", "a1")) @@
  (e2 :> Keys("c2", "m1", "i1", "d1", "p2", "a2")) @@
  (e3 :> Keys("c1", "m2", "i2", "d1", "p1", "a2"))

=============================================================================
