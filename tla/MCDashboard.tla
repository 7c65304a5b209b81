----------------------------- MODULE MCDashboard -----------------------------
(***************************************************************************)
(* A small operations page: an allowed and a pending payment to begin      *)
(* with, a demo session of two steps, one or two identities to explore.    *)
(***************************************************************************)
EXTENDS DemoConsole

CONSTANTS Allow, Hold, d1, d2

MCInitial == <<Allow, Pending, Absent, Absent>>
MCLinked == <<{d1}, {d1}, {d2}, {d1, d2}>>
MCDemoTx == [s \in Sessions |-> <<3, 4>>]
=============================================================================
