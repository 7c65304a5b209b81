---------------------------- MODULE MCAssessment ----------------------------
(* Instances of Assessment for TLC: three payments at successive times; t1 *)
(* and t2 share a device, t2 and t3 a customer, t1 and t3 nothing, so the  *)
(* graph loop needs a second round and d1 concentrates two customers.      *)
EXTENDS Assessment, TLC

CONSTANTS t1, t2, t3

MCTime == [t \in Txns |-> CASE t = t1 -> 1 [] t = t2 -> 2 [] t = t3 -> 3]

Payment(c, i, d, p, a) ==
  [customer |-> c, instrument |-> i, device |-> d, ip |-> p, address |-> a]

MCRef ==
  [t \in Txns |->
     CASE t = t1 -> Payment("c1", "i1", "d1", "p1", "a1")
       [] t = t2 -> Payment("c2", "i2", "d1", "p2", "a2")
       [] t = t3 -> Payment("c2", "i2", "d2", "p3", "a3")]

(* Calls differ only in their names.                                       *)
Interchangeable == Permutations(Calls)

=============================================================================
