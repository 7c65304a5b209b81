-------------------------- MODULE ChronologicalSplit --------------------------
(***************************************************************************)
(* The split of a benchmark into training, validation and test rows        *)
(* (ml/training/splitting.py): two boundaries in time, close to the wanted *)
(* shares, that cut no group of rings which share an entity.               *)
(*                                                                         *)
(* Rows are the events of the data set in order, with the entities of the  *)
(* abusive ones.                                                           *)
(***************************************************************************)
EXTENDS SyntheticData

CONSTANTS
  TrainShare, ValidationShare,  \* SplitRatios, in percent
  AbuseScenarios,               \* the scenarios but normal traffic
  NoCut                         \* the ValueError of the splitter

ASSUME SplitAssumption ==
  /\ TrainShare \in Nat /\ ValidationShare \in Nat
  /\ AbuseScenarios # {} /\ Normal \notin AbuseScenarios
  /\ NoCut \notin [deviation : Nat, first : Nat, second : Nat]

(* The rows of a benchmark, in order: the generators put abuse, and        *)
(* nothing else, in rings (packages/synthetic/scenarios).                  *)
DataSet(rows) ==
  /\ rows \in Seq(ToSet(rows))
  /\ \A i \in DOMAIN rows :
       /\ rows[i].time \in Nat /\ IsFiniteSet(rows[i].entities)
       /\ rows[i].scenario \in AbuseScenarios \cup {Normal}
       /\ rows[i].ring = NoRing <=> rows[i].scenario = Normal

Parts == 1 .. 3   \* train, validation, test

Rings(rows) == {rows[i].ring : i \in DOMAIN rows} \ {NoRing}
RingsWith(rows, entity) ==
  {rows[i].ring : i \in {j \in DOMAIN rows :
     rows[j].ring # NoRing /\ entity \in rows[j].entities}}

(* build_abuse_supergroups: each entity joins the groups that its rings    *)
(* are in.                                                                 *)
Supergroups(rows) ==
  LET Join(entity, groups) ==
        LET joined == {g \in groups : g \cap RingsWith(rows, entity) # {}}
        IN  (groups \ joined) \cup ({UNION joined} \ {{}})
  IN  FoldSet(Join, {{r} : r \in Rings(rows)},
              UNION {rows[i].entities : i \in DOMAIN rows})

Span(rows, group) ==
  LET times == {rows[i].time : i \in {j \in DOMAIN rows : rows[j].ring \in group}}
  IN  [start |-> Min(times), end |-> Max(times)]

ScenariosIn(rows, groups) ==
  {rows[i].scenario : i \in {j \in DOMAIN rows : rows[j].ring \in UNION groups}}

(* bisect_left in the times of the rows.                                   *)
Before(rows, t) == Cardinality({i \in DOMAIN rows : rows[i].time < t})

(* Mutant: a boundary may fall on the last event of a group.               *)
SafeTimes_CutLast(rows, groups) ==
  LET times == {rows[i].time : i \in DOMAIN rows}
  IN  {t \in times \ {Min(times)} : \A g \in groups :
         ~(Span(rows, g).start < t /\ t < Span(rows, g).end)}

(* The times, but the first, that cut no group.                            *)
SafeTimes(rows, groups) ==
  LET times == {rows[i].time : i \in DOMAIN rows}
  IN  {t \in times \ {Min(times)} : \A g \in groups :
         ~(Span(rows, g).start < t /\ t =< Span(rows, g).end)}

EndedBy(rows, groups, t) == {g \in groups : Span(rows, g).end < t}

Distance(rows, t, target) ==
  LET d == Before(rows, t) - target IN IF d < 0 THEN -d ELSE d

(* The earliest of the times with as many rows before it as wanted, or     *)
(* nearly so.                                                              *)
Nearest(rows, times, target) ==
  CHOOSE t \in times : \A u \in times :
    \/ Distance(rows, t, target) < Distance(rows, u, target)
    \/ Distance(rows, t, target) = Distance(rows, u, target) /\ t =< u

(* The choices of _safe_boundaries: of all safe times that put the same    *)
(* groups to their left, only the two nearest to the targets compete.      *)
Boundaries(rows, groups, all, targets) ==
  LET safe == SafeTimes(rows, groups)
      states == {EndedBy(rows, groups, t) : t \in safe}
      Chosen(state, k) ==
        Nearest(rows, {t \in safe : EndedBy(rows, groups, t) = state}, targets[k])
      Allowed(a, b) ==
        /\ a \subseteq b
        /\ \A part \in {a, b \ a, groups \ b} :
             /\ part # {}
             /\ all => ScenariosIn(rows, part) = AbuseScenarios
  IN  {[deviation |-> Distance(rows, Chosen(p[1], 1), targets[1])
                        + Distance(rows, Chosen(p[2], 2), targets[2]),
        first |-> Chosen(p[1], 1), second |-> Chosen(p[2], 2)] :
         p \in {q \in states \X states :
                  Allowed(q[1], q[2]) /\ Chosen(q[1], 1) < Chosen(q[2], 2)}}

Precedes(b, c) ==
  \/ b.deviation < c.deviation
  \/ b.deviation = c.deviation /\ b.first < c.first
  \/ b.deviation = c.deviation /\ b.first = c.first /\ b.second =< c.second

(* Python's round: half to even.                                           *)
RoundedShare(n, percent) ==
  LET q == (n * percent) \div 100
      r == (n * percent) % 100
  IN  IF r > 50 \/ (r = 50 /\ q % 2 = 1) THEN q + 1 ELSE q

Targets(rows) == << RoundedShare(Len(rows), TrainShare),
                    RoundedShare(Len(rows), TrainShare + ValidationShare) >>

PartOf(cut, t) == IF t < cut.first THEN 1 ELSE IF t < cut.second THEN 2 ELSE 3
RowsOf(rows, cut, part) == {i \in DOMAIN rows : PartOf(cut, rows[i].time) = part}

(* validate_split.  No row is in two parts, and each part is later than    *)
(* the one before, by the shape of the two boundaries.                     *)
ValidSplit(rows, cut, groups, all) ==
  LET RingsIn(part) == {rows[i].ring : i \in RowsOf(rows, cut, part)} \ {NoRing}
      GroupsIn(part) == {g \in groups : g \cap RingsIn(part) # {}}
  IN  /\ \A part \in Parts :
           /\ {IsAbuse(rows[i]) : i \in RowsOf(rows, cut, part)} = BOOLEAN
           /\ all => AbuseScenarios \subseteq
                       {rows[i].scenario : i \in RowsOf(rows, cut, part)}
      /\ \A p, q \in Parts : p # q =>
           RingsIn(p) \cap RingsIn(q) = {} /\ GroupsIn(p) \cap GroupsIn(q) = {}

(* split_chronologically, on rows in order.                                *)
Split(rows, all) ==
  LET groups == Supergroups(rows)
      choices == Boundaries(rows, groups, all, Targets(rows))
      best == CHOOSE b \in choices : \A c \in choices : Precedes(b, c)
  IN  IF choices = {} THEN NoCut
      ELSE IF ValidSplit(rows, best, groups, all) THEN best
      ELSE NoCut

-----------------------------------------------------------------------------
(* The reference for Split.                                                *)

Related(r, s) ==
  /\ r.ring # NoRing /\ s.ring # NoRing
  /\ r.ring = s.ring \/ r.entities \cap s.entities # {}

(* Every pair of boundaries that leaves abuse, of all scenarios if wanted, *)
(* in each part and no two related rows in different parts.                *)
SoundCuts(rows, all) ==
  LET times == {rows[i].time : i \in DOMAIN rows}
      targets == Targets(rows)
      Cut(t, u) == [deviation |-> Distance(rows, t, targets[1])
                                    + Distance(rows, u, targets[2]),
                    first |-> t, second |-> u]
  IN  {c \in {Cut(p[1], p[2]) : p \in {q \in times \X times : q[1] < q[2]}} :
         /\ \A part \in Parts :
              LET abuse == {rows[i].scenario : i \in RowsOf(rows, c, part)}
                             \cap AbuseScenarios
              IN  IF all THEN abuse = AbuseScenarios ELSE abuse # {}
         /\ \A i, j \in DOMAIN rows : Related(rows[i], rows[j]) =>
              PartOf(c, rows[i].time) = PartOf(c, rows[j].time)}

(* The splitter finds the best of all sound cuts (ml/training/             *)
(* splitting.py:110-146), although it compares two times per state only    *)
(* and joins rings before it looks at their rows; and it refuses only when *)
(* there is none, or when the best one leaves a part without a legitimate  *)
(* row, which the choice ignores and validate_split then finds.            *)
SplitIsBest(rows, all, cut) ==
  LET sound == SoundCuts(rows, all)
      Best(c) == c \in sound /\ \A d \in sound : Precedes(c, d)
      OneClass(c) == \E part \in Parts :
                       \A i \in RowsOf(rows, c, part) : IsAbuse(rows[i])
  IN  IF cut = NoCut THEN \A c \in sound : Best(c) => OneClass(c)
      ELSE Best(cut) /\ ~OneClass(cut)
=============================================================================
