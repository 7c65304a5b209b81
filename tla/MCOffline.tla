------------------------------- MODULE MCOffline -------------------------------
(***************************************************************************)
(* Small inputs of the offline tools.                                      *)
(***************************************************************************)
EXTENDS Offline

CONSTANTS p1, p2, c1, c2, c3, v1, v2, Farm, Ring, k1, k2, k3, k4, u, w, s1, s2

(* Two configurations of one version, which happens when the generator's   *)
(* code has changed, and one whose data are refused.                       *)
MCDrawn ==
  LET E(i, t, s, r) == [id |-> i, time |-> t, scenario |-> s, ring |-> r] IN
  c1 :> {E(1, 2, Normal, NoRing), E(2, 1, Farm, u), E(3, 2, Normal, NoRing)}
  @@ c2 :> {E(1, 1, Normal, NoRing), E(2, 2, Normal, NoRing)}
  @@ c3 :> {E(1, 1, Farm, NoRing)}
MCExpected == c1 :> [count |-> 3, abuse |-> 1] @@ c2 :> [count |-> 2, abuse |-> 1]
              @@ c3 :> [count |-> 1, abuse |-> 1]
MCVersionOf == c1 :> v1 @@ c2 :> v1 @@ c3 :> v2
MCLaunches == [Invocations -> Configs]

(* Data sets of n rows with m rings, first seen in the order k1, k2, ...   *)
(* Two neighbours may share their time, two rings an entity.               *)
Shapes(n, m) ==
  {f \in [1 .. n -> 0 .. m] :
     /\ \A i \in 1 .. n : f[i] > 1 => \E j \in 1 .. i - 1 : f[j] = f[i] - 1
     /\ \E i \in 1 .. n : f[i] = m
     /\ Cardinality({i \in 1 .. n : f[i] = 0}) >= 3}

Rows(f, tie, links) ==
  [i \in DOMAIN f |->
     [id |-> i, time |-> IF i > tie THEN i - 1 ELSE i,
      scenario |-> IF f[i] = 0 THEN Normal ELSE IF f[i] = 2 THEN Ring ELSE Farm,
      ring |-> IF f[i] = 0 THEN NoRing ELSE << k1, k2, k3, k4 >>[f[i]],
      entities |-> IF f[i] = 0 THEN {} ELSE {f[i]} \cup links[f[i]],
      score |-> (2 * i) % 5]]

Alone(rows, all) ==
  [r \in Trainings |-> IF r = 1 THEN [rows |-> rows, all |-> all, evaluate |-> FALSE]
                       ELSE Nothing]

Unlinked == << {}, {}, {}, {} >>
MCLinks == {Unlinked, << {}, {}, {}, {1} >>, << {9}, {9}, {}, {} >>, << {}, {9}, {}, {9} >>}

(* Rings of two scenarios, twice each.                                     *)
AllScenarios ==
  LET f == << 1, 2, 0, 1, 2, 0, 1, 2, 0 >> IN
  {[i \in DOMAIN f |->
      [id |-> i, time |-> i,
       scenario |-> << Normal, Farm, Ring >>[f[i] + 1],
       ring |-> IF f[i] = 0 THEN NoRing ELSE i,
       entities |-> IF f[i] = 0 THEN {} ELSE {i}, score |-> i % 4]]}

Small == CHOOSE rows \in {Rows(<< 1, 0, 2, 0, 3, 0 >>, 6, Unlinked)} : TRUE

MCJobs ==
  {Alone(Rows(f, tie, Unlinked), FALSE) :
     f \in Shapes(6, 3) \cup Shapes(7, 3), tie \in {2, 3, 5, 7}}
  \cup {Alone(Rows(f, tie, links), FALSE) :
     f \in Shapes(7, 4) \cup Shapes(8, 4), tie \in {3, 8}, links \in MCLinks}
  \cup {Alone(rows, all) : rows \in AllScenarios, all \in BOOLEAN}
  \cup [Trainings -> [rows : {Small}, all : {FALSE}, evaluate : BOOLEAN]]

(* Three examples, in order of their scores.                               *)
MCTasks ==
  LET Kinds == {[signals |-> << >>, cluster |-> FALSE, abuse |-> FALSE, persona |-> u, amount |-> 300],
                [signals |-> << s1, s2 >>, cluster |-> FALSE, abuse |-> FALSE, persona |-> w, amount |-> 100],
                [signals |-> << >>, cluster |-> FALSE, abuse |-> TRUE, persona |-> u, amount |-> 200],
                [signals |-> << s1, s2 >>, cluster |-> TRUE, abuse |-> TRUE, persona |-> u, amount |-> 500]}
      Scores == {x \in [1 .. 3 -> {0, 2, 4, 6}] : x[1] =< x[2] /\ x[2] =< x[3]}
      Examples == {[i \in 1 .. 3 |->
                      [score |-> x[i], signals |-> k[i].signals, cluster |-> k[i].cluster,
                       abuse |-> k[i].abuse, persona |-> k[i].persona, amount |-> k[i].amount]] :
                     x \in Scores, k \in [1 .. 3 -> Kinds]}
      Base == [verify |-> 1, hold |-> 5, strong |-> {s1, s2}, minimum |-> 2, recommend |-> 2,
               clusterRequired |-> TRUE, version |-> "risk-policy-v2",
               review |-> {"ESCALATE", "RECOMMEND_BLOCK"}]
      A(f, p, o, e) == [fixed |-> f, friction |-> p, operational |-> o, effectiveness |-> e]
      Balanced == [loss |-> 100,
                   actions |-> << A(0, 0, 0, 0), A(10, 1, 5, 35), A(30, 4, 10, 75),
                                  A(30, 6, 50, 85), A(30, 10, 60, 95) >>]
      Free == [loss |-> 0, actions |-> [a \in 1 .. 5 |-> A(0, 0, 0, 0)]]
      Lax == [recall |-> 0, interventions |-> 100, severe |-> 100, reviews |-> 100, persona |-> 100]
      Strict == [recall |-> 50, interventions |-> 50, severe |-> 50, reviews |-> 40, persona |-> 40]
  IN  [examples : Examples, base : {Base}, cost : {Balanced, Free},
       constraints : {Lax, Strict}, quantiles : {2, 3}]
=============================================================================
