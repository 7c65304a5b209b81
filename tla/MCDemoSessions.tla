--------------------------- MODULE MCDemoSessions ---------------------------
(* Instances of DemoSessions for TLC; requests differ only in their names, *)
(* which runs without a liveness property make use of.                     *)
EXTENDS DemoSessions, TLC

Interchangeable == Permutations(Requests)

=============================================================================
