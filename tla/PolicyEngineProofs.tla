------------------------- MODULE PolicyEngineProofs -------------------------
(* What the policy engine guarantees for every score, every list of graph  *)
(* signals and every configuration that its validators accept.             *)
EXTENDS Explanation, FiniteSetTheorems, TLAPS

(* The strong signals are finitely many, and more signals never make them  *)
(* fewer.                                                                  *)
LEMMA StrongSignalsFinite ==
  ASSUME NEW c, WellTyped(c), NEW s \in Seq(Codes)
  PROVE  /\ IsFiniteSet(StrongSignals(c, s))
         /\ Cardinality(StrongSignals(c, s)) \in Nat
<1>1. StrongSignals(c, s) \subseteq Codes
  BY DEF StrongSignals, WellTyped
<1>2. IsFiniteSet(StrongSignals(c, s))
  BY <1>1, PolicyAssumption, FS_Subset
<1> QED
  BY <1>2, FS_CardinalityType

LEMMA StrongSignalsGrow ==
  ASSUME NEW c, WellTyped(c), NEW s \in Seq(Codes), NEW code \in Codes
  PROVE  Cardinality(StrongSignals(c, s))
           <= Cardinality(StrongSignals(c, Append(s, code)))
<1>1. Append(s, code) \in Seq(Codes)
  OBVIOUS
<1>2. StrongSignals(c, s) \subseteq StrongSignals(c, Append(s, code))
  BY DEF StrongSignals
<1> QED
  BY <1>1, <1>2, StrongSignalsFinite, FS_Subset

(* Two strong signals at least are two different ones.                     *)
LEMMA TwoStrongSignals ==
  ASSUME NEW S, IsFiniteSet(S), Cardinality(S) >= 2
  PROVE  \E a, b \in S : a # b
<1>1. S # {}
  BY FS_EmptySet
<1>2. PICK a \in S : TRUE
  BY <1>1
<1>3. CASE S = {a}
  BY <1>3, FS_Singleton
<1>4. CASE S # {a}
  BY <1>2, <1>4
<1> QED
  BY <1>3, <1>4

(* Configuration and input keep their types.                               *)
LEMMA StepTypes ==
  ASSUME TypeOK, [Next]_vars
  PROVE  TypeOK'
<1> USE DEF TypeOK, WellTyped, Valid
<1>1. config' = config
  BY DEF Next, vars
<1>2. input' \in [score : 0 .. MaxScore, signals : Seq(Codes), cluster : BOOLEAN]
  <2>1. CASE RaiseScore
    BY <2>1, PolicyAssumption DEF RaiseScore
  <2>2. ASSUME NEW code \in Codes, AddSignal(code)
        PROVE  input' \in [score : 0 .. MaxScore, signals : Seq(Codes), cluster : BOOLEAN]
    BY <2>2 DEF AddSignal
  <2>3. CASE FindCluster
    BY <2>3 DEF FindCluster
  <2>4. CASE UNCHANGED vars
    BY <2>4 DEF vars
  <2> QED
    BY <2>1, <2>2, <2>3, <2>4 DEF Next
<1>3. Action(config, input)' \in 1 .. 5 /\ Severity(config, input)' \in 1 .. 4
  BY DEF Action, Severity, Band, ALLOW, VERIFY, HOLD, ESCALATE, RECOMMEND_BLOCK
<1> QED
  BY <1>1, <1>2, <1>3

(* Type correctness of the machine and of its answers.                     *)
THEOREM PolicyTypeCorrect == Spec => []TypeOK
<1>1. Init => TypeOK
  BY PolicyAssumption
     DEF Init, TypeOK, Action, Severity, Band, ALLOW, VERIFY, HOLD, ESCALATE,
         RECOMMEND_BLOCK
<1>2. TypeOK /\ [Next]_vars => TypeOK'
  BY StepTypes
<1> QED
  BY <1>1, <1>2, PTL DEF Spec

(* A score below the HOLD band is never acted on severely.                 *)
THEOREM GraphAloneIsHarmless == Spec => []GraphNeverActsAlone
<1>1. TypeOK => GraphNeverActsAlone
  BY DEF TypeOK, WellTyped, GraphNeverActsAlone, Action, Band, ALLOW, VERIFY, HOLD
<1> QED
  BY <1>1, PolicyTypeCorrect, PTL

(* A recommendation to block always has its corroboration.                 *)
THEOREM BlocksAreCorroborated == Spec => []BlockIsCorroborated
<1>1. ASSUME TypeOK, Action(config, input) = RECOMMEND_BLOCK
      PROVE  /\ Band(config, input.score) = HOLD
             /\ Corroborated(config, input)
             /\ Blockable(config, input)
  BY <1>1 DEF Action, Band, ALLOW, VERIFY, HOLD, ESCALATE, RECOMMEND_BLOCK
<1>2. ASSUME TypeOK, Corroborated(config, input)
      PROVE  \E a, b \in StrongSignals(config, input.signals) : a # b
  <2>1. /\ IsFiniteSet(StrongSignals(config, input.signals))
        /\ Cardinality(StrongSignals(config, input.signals)) \in Nat
    BY <1>2, StrongSignalsFinite DEF TypeOK
  <2>2. Cardinality(StrongSignals(config, input.signals)) >= 2
    BY <1>2, <2>1 DEF TypeOK, WellTyped, Valid, Corroborated
  <2> QED
    BY <2>1, <2>2, TwoStrongSignals
<1>3. ASSUME TypeOK, Band(config, input.score) = HOLD
      PROVE  input.score >= config.hold
  BY <1>3 DEF TypeOK, WellTyped, Band, ALLOW, VERIFY, HOLD
<1>4. TypeOK => BlockIsCorroborated
  BY <1>1, <1>2, <1>3 DEF BlockIsCorroborated, Blockable, StrongSignals
<1> QED
  BY <1>4, PolicyTypeCorrect, PTL

(* Whatever the validators accept keeps a human in the loop.               *)
THEOREM HumansReview == Spec => []HumanInTheLoop
<1>1. ASSUME TypeOK, Action(config, input) >= ESCALATE
      PROVE  Actions[Action(config, input)] \in config.review
  <2>1. Action(config, input) \in {4, 5}
    BY <1>1 DEF TypeOK, ESCALATE
  <2>2. Actions[4] = "ESCALATE" /\ Actions[5] = "RECOMMEND_BLOCK"
    BY DEF Actions
  <2>3. {"ESCALATE", "RECOMMEND_BLOCK"} \subseteq config.review
    BY <1>1 DEF TypeOK, Valid
  <2> QED
    BY <2>1, <2>2, <2>3
<1>2. TypeOK => HumanInTheLoop
  BY <1>1 DEF TypeOK, HumanInTheLoop, Bypass, Reviewed, ESCALATE, RECOMMEND_BLOCK
<1> QED
  BY <1>2, PolicyTypeCorrect, PTL

(* The three conditions on a severe action, together.                      *)
THEOREM SevereActionsAreJustified == Spec => []SevereActionsJustified
<1>1. GraphNeverActsAlone /\ BlockIsCorroborated /\ HumanInTheLoop
        => SevereActionsJustified
  BY DEF SevereActionsJustified
<1> QED
  BY <1>1, GraphAloneIsHarmless, BlocksAreCorroborated, HumansReview, PTL

(* Severity and action tell the same story.                                *)
THEOREM SeverityIsConsistent == Spec => []SeverityFits
<1>1. TypeOK => SeverityFits
  BY DEF SeverityFits, Severity, Action, Band, ALLOW, VERIFY, HOLD, ESCALATE,
         RECOMMEND_BLOCK
<1> QED
  BY <1>1, PolicyTypeCorrect, PTL

(* What a stronger input keeps: band, corroboration and blockability.      *)
LEMMA StrongerInput ==
  ASSUME TypeOK, TypeOK', config' = config,
         input.score <= input'.score,
         Cardinality(StrongSignals(config, input.signals))
           <= Cardinality(StrongSignals(config, input'.signals)),
         input.cluster => input'.cluster
  PROVE  /\ Action(config, input) <= Action(config, input')
         /\ Severity(config, input) <= Severity(config, input')
<1>1. Band(config, input.score) <= Band(config, input'.score)
  BY DEF TypeOK, WellTyped, Valid, Band, ALLOW, VERIFY, HOLD
<1>2. /\ Band(config, input.score) \in 1 .. 3
      /\ Band(config, input'.score) \in 1 .. 3
  BY DEF Band, ALLOW, VERIFY, HOLD
<1>3. /\ Cardinality(StrongSignals(config, input.signals)) \in Nat
      /\ Cardinality(StrongSignals(config, input'.signals)) \in Nat
  BY StrongSignalsFinite DEF TypeOK
<1>4. Corroborated(config, input) => Corroborated(config, input')
  BY <1>3 DEF Corroborated, TypeOK, WellTyped
<1>5. Blockable(config, input) => Blockable(config, input')
  BY <1>3 DEF Blockable, TypeOK, WellTyped
<1> QED
  BY <1>1, <1>2, <1>4, <1>5 DEF Action, Severity, HOLD, ESCALATE, RECOMMEND_BLOCK

(* Evidence is monotone: no additional evidence weakens the answer.        *)
THEOREM MonotoneEvidence == Spec => EvidenceIsMonotone
<1> DEFINE Stronger == /\ Action(config, input) <= Action(config, input')
                       /\ Severity(config, input) <= Severity(config, input')
<1>1. ASSUME TypeOK, TypeOK', Next
      PROVE  Stronger
  <2>1. config' = config
    BY <1>1 DEF Next
  <2>2. /\ input.score \in Nat /\ input.signals \in Seq(Codes)
        /\ WellTyped(config)
    BY <1>1 DEF TypeOK
  <2>3. Cardinality(StrongSignals(config, input.signals)) \in Nat
    BY <2>2, StrongSignalsFinite
  <2>4. CASE RaiseScore
    <3>1. /\ input.score <= input'.score /\ input'.signals = input.signals
          /\ input'.cluster = input.cluster
      BY <2>2, <2>4 DEF RaiseScore
    <3> QED
      BY <1>1, <2>1, <2>3, <3>1, StrongerInput
  <2>5. ASSUME NEW code \in Codes, AddSignal(code)
        PROVE  Stronger
    <3>1. /\ input.score <= input'.score
          /\ input'.signals = Append(input.signals, code)
          /\ input'.cluster = input.cluster
      BY <2>2, <2>5 DEF AddSignal
    <3>2. Cardinality(StrongSignals(config, input.signals))
            <= Cardinality(StrongSignals(config, input'.signals))
      BY <2>2, <3>1, StrongSignalsGrow
    <3> QED
      BY <1>1, <2>1, <3>1, <3>2, StrongerInput
  <2>6. CASE FindCluster
    <3>1. /\ input.score <= input'.score /\ input'.signals = input.signals
          /\ input.cluster => input'.cluster
      BY <2>2, <2>6 DEF FindCluster
    <3> QED
      BY <1>1, <2>1, <2>3, <3>1, StrongerInput
  <2> QED
    BY <1>1, <2>4, <2>5, <2>6 DEF Next
<1>2. TypeOK /\ TypeOK' /\ [Next]_vars => [Stronger]_vars
  BY <1>1
<1> QED
  BY <1>2, PolicyTypeCorrect, PTL DEF Spec, EvidenceIsMonotone

-----------------------------------------------------------------------------
(* The report.                                                             *)

(* There are at most as many items on signals as codes.                    *)
LEMMA SignalItemsBounded ==
  ASSUME NEW i, i.signals \in Seq(Codes)
  PROVE  /\ IsFiniteSet(SignalItems(i))
         /\ Cardinality(SignalItems(i)) <= Cardinality(Codes)
<1> DEFINE All == { <<"signal", c>> : c \in Codes }
           f   == [c \in Codes |-> <<"signal", c>>]
<1>1. f \in Surjection(Codes, All)
  BY DEF Surjection
<1>2. IsFiniteSet(All) /\ Cardinality(All) <= Cardinality(Codes)
  BY <1>1, PolicyAssumption, FS_Surjection
<1>3. SignalItems(i) \subseteq All
  BY DEF SignalItems
<1>4. /\ IsFiniteSet(SignalItems(i))
      /\ Cardinality(SignalItems(i)) <= Cardinality(All)
  BY <1>2, <1>3, FS_Subset
<1> QED
  BY <1>2, <1>4, PolicyAssumption, FS_CardinalityType

(* One more element is at most one more.                                   *)
LEMMA OneMore ==
  ASSUME NEW S, NEW x, IsFiniteSet(S), NEW n \in Nat, Cardinality(S) <= n
  PROVE  IsFiniteSet(S \cup {x}) /\ Cardinality(S \cup {x}) <= n + 1
<1>1. Cardinality(S) \in Nat
  BY FS_CardinalityType
<1> QED
  BY <1>1, FS_AddElement

(* What the decision rested on is at most three items and the signals.     *)
LEMMA DecisionItemsBounded ==
  ASSUME NEW i, i.signals \in Seq(Codes)
  PROVE  /\ IsFiniteSet(DecisionItems(i))
         /\ Cardinality(DecisionItems(i)) <= Cardinality(Codes) + 3
<1> DEFINE S == SignalItems(i)
           C == ((S \cup {ScoreItem}) \cup {ReasonsItem}) \cup {ClusterItem}
           n == Cardinality(Codes)
<1>1. IsFiniteSet(S) /\ Cardinality(S) <= n
  BY SignalItemsBounded
<1>2. n \in Nat
  BY PolicyAssumption, FS_CardinalityType
<1>3. DecisionItems(i) \subseteq C
  BY DEF DecisionItems
<1> HIDE DEF S, n
<1>0. n + 1 \in Nat /\ (n + 1) + 1 \in Nat
  BY <1>2
<1>4. IsFiniteSet(S \cup {ScoreItem}) /\ Cardinality(S \cup {ScoreItem}) <= n + 1
  BY <1>1, <1>2, OneMore
<1>5. /\ IsFiniteSet((S \cup {ScoreItem}) \cup {ReasonsItem})
      /\ Cardinality((S \cup {ScoreItem}) \cup {ReasonsItem}) <= (n + 1) + 1
  BY <1>0, <1>4, OneMore, Zenon
<1>6. IsFiniteSet(C) /\ Cardinality(C) <= ((n + 1) + 1) + 1
  BY <1>0, <1>5, OneMore, Zenon
<1> HIDE DEF C
<1>7. /\ IsFiniteSet(DecisionItems(i))
      /\ Cardinality(DecisionItems(i)) <= Cardinality(C)
  BY <1>3, <1>6, FS_Subset
<1>8. Cardinality(DecisionItems(i)) \in Nat /\ Cardinality(C) \in Nat
  BY <1>6, <1>7, FS_CardinalityType
<1> QED
  BY <1>2, <1>6, <1>7, <1>8 DEF n

(* The codes can be put in an order.                                       *)
LEMMA AlphabetOrders ==
  Alphabet \in [Codes -> 1 .. Cardinality(Codes)]
<1> DEFINE n == Cardinality(Codes)
<1>1. PICK g : g \in Bijection(1 .. n, Codes)
  BY PolicyAssumption, FS_CardinalityType DEF ExistsBijection
<1> DEFINE f == [c \in Codes |-> CHOOSE k \in 1 .. n : g[k] = c]
<1>2. \A c \in Codes : \E k \in 1 .. n : g[k] = c
  BY <1>1 DEF Bijection, Surjection
<1>3. \A c \in Codes : f[c] \in 1 .. n /\ g[f[c]] = c
  BY <1>2
<1>4. f \in [Codes -> 1 .. n]
  BY <1>3
<1>5. \A c, d \in Codes : c # d => f[c] # f[d]
  BY <1>3
<1> QED
  BY <1>4, <1>5 DEF Alphabet

(* No item on a feature comes before one the decision rested on.           *)
LEMMA FeaturesComeLast ==
  ASSUME NEW i, NEW x \in DecisionItems(i), NEW f \in DOMAIN FeatureRules
  PROVE  ~Before(<<"feature", f>>, x)
<1>1. Importance(<<"feature", f>>) \in 66 .. 80
  <2>1. FeatureRules[f] \in 66 .. 80
    BY DEF FeatureRules
  <2> QED
    BY <2>1 DEF Importance, ScoreItem, ReasonsItem
<1>2. Importance(x) \in 88 .. 100
  BY DEF Importance, DecisionItems, SignalItems, ScoreItem, ReasonsItem, ClusterItem
<1> QED
  BY <1>1, <1>2 DEF Before

(* An item that comes before none but others of the decision is shown.     *)
LEMMA DecisionItemsRanked ==
  ASSUME NEW i, i.signals \in Seq(Codes),
         NEW matched \in SUBSET DOMAIN FeatureRules,
         NEW x \in DecisionItems(i)
  PROVE  x \in Ranked(EvidenceItems(i, matched))
<1> DEFINE D == DecisionItems(i)
           E == { y \in EvidenceItems(i, matched) : Before(y, x) }
<1>1. IsFiniteSet(D) /\ Cardinality(D) <= Cardinality(Codes) + 3
  BY DecisionItemsBounded
<1>2. ~Before(x, x)
  <2>1. Importance(x) \in 88 .. 100
    BY DEF Importance, DecisionItems, SignalItems, ScoreItem, ReasonsItem, ClusterItem
  <2>2. x[1] = "signal" => x[2] \in Codes
    BY DEF DecisionItems, SignalItems, ScoreItem, ReasonsItem, ClusterItem
  <2>3. x[1] = "signal" => Alphabet[x[2]] \in 1 .. Cardinality(Codes)
    BY <2>2, AlphabetOrders
  <2>4. Cardinality(Codes) \in Nat
    BY PolicyAssumption, FS_CardinalityType
  <2> QED
    BY <2>1, <2>3, <2>4 DEF Before
<1>3. E \subseteq D \ {x}
  BY <1>2, FeaturesComeLast DEF EvidenceItems
<1>4. /\ IsFiniteSet(D \ {x})
      /\ Cardinality(D \ {x}) = Cardinality(D) - 1
  BY <1>1, FS_RemoveElement
<1>5. IsFiniteSet(E) /\ Cardinality(E) <= Cardinality(D) - 1
  BY <1>3, <1>4, FS_Subset
<1>6. /\ Cardinality(D) \in Nat /\ Cardinality(E) \in Nat
      /\ Cardinality(Codes) \in Nat
  BY <1>1, <1>5, PolicyAssumption, FS_CardinalityType
<1>7. Cardinality(E) < MaxEvidenceItems
  BY <1>1, <1>5, <1>6, ExplanationAssumption
<1> QED
  BY <1>7 DEF Ranked, EvidenceItems

(* What the answer to "why not stronger" names, action by action.          *)
LEMMA NamedGaps ==
  ASSUME NEW c, NEW i, NEW g
  PROVE  g \in WhyNotStronger(c, i) <=>
           \/ Action(c, i) = ALLOW  /\ g = "VERIFY score"
           \/ Action(c, i) = VERIFY /\ g = "HOLD score"
           \/ Action(c, i) = HOLD   /\ g = "escalation rule"
           \/ /\ Action(c, i) = ESCALATE
              /\ g \in {"block signals", "active cluster"}
              /\ IsMissing(g, c, i)
BY Zenon DEF WhyNotStronger, Gaps

(* The report explains the decision, for every input of the engine.        *)
THEOREM ReportsExplainDecisions == Spec => []ReportExplainsDecision
<1>1. ASSUME TypeOK
      PROVE  GapsAreReal
  <2>1. /\ Cardinality(StrongSignals(config, input.signals)) \in Nat
        /\ config.minimum \in Nat /\ config.recommend \in Nat
        /\ config.verify \in Nat /\ config.hold \in Nat /\ input.score \in Nat
        /\ config.verify <= config.hold
    BY <1>1, StrongSignalsFinite, PolicyAssumption DEF TypeOK, WellTyped, Valid
  <2> DEFINE gaps == WhyNotStronger(config, input)
  <2>2. \A g : g \in gaps <=>
           \/ Action(config, input) = ALLOW  /\ g = "VERIFY score"
           \/ Action(config, input) = VERIFY /\ g = "HOLD score"
           \/ Action(config, input) = HOLD   /\ g = "escalation rule"
           \/ /\ Action(config, input) = ESCALATE
              /\ g \in {"block signals", "active cluster"}
              /\ IsMissing(g, config, input)
    BY NamedGaps
  <2> HIDE DEF gaps
  <2> USE DEF ALLOW, VERIFY, HOLD, ESCALATE, RECOMMEND_BLOCK
  <2>3. /\ Action(config, input) = 1 => input.score < config.verify
        /\ Action(config, input) = 2 => input.score < config.hold
        /\ Action(config, input) = 3 => ~Corroborated(config, input)
        /\ Action(config, input) = 4 => ~Blockable(config, input)
    BY <2>1 DEF Action, Band
  <2>4. \A g : g \in gaps => IsMissing(g, config, input)
    <3>1. Action(config, input) = 1 => IsMissing("VERIFY score", config, input)
      BY <2>3 DEF IsMissing
    <3>2. Action(config, input) = 2 => IsMissing("HOLD score", config, input)
      BY <2>3 DEF IsMissing
    <3>3. Action(config, input) = 3 => IsMissing("escalation rule", config, input)
      BY <2>1, <2>3 DEF IsMissing, StrongCount, Corroborated
    <3> QED
      BY <2>2, <3>1, <3>2, <3>3, Zenon
  <2>5. ASSUME Action(config, input) = 4
        PROVE  \/ "block signals" \in gaps
               \/ "active cluster" \in gaps
    <3>1. ~Blockable(config, input)
      BY <2>5, <2>3
    <3>2. \/ IsMissing("block signals", config, input)
          \/ IsMissing("active cluster", config, input)
      BY <2>1, <3>1 DEF Blockable, IsMissing, StrongCount
    <3> QED
      BY <2>2, <2>5, <3>2
  <2>6. Action(config, input) \in 1 .. 5
    BY <1>1 DEF TypeOK
  <2>7. gaps = {} <=> Action(config, input) = 5
    <3>1. Action(config, input) = 5 => \A g : g \notin gaps
      BY <2>2
    <3>2. /\ Action(config, input) = 1 => "VERIFY score" \in gaps
          /\ Action(config, input) = 2 => "HOLD score" \in gaps
          /\ Action(config, input) = 3 => "escalation rule" \in gaps
      BY <2>2
    <3>3. Action(config, input) # 5 => \E g : g \in gaps
      <4>1. \/ Action(config, input) = 1 \/ Action(config, input) = 2
            \/ Action(config, input) = 3 \/ Action(config, input) = 4
            \/ Action(config, input) = 5
        BY <2>6
      <4> QED
        BY <2>5, <3>2, <4>1, Zenon
    <3>4. gaps = {} <=> \A g : g \notin gaps
      BY Zenon
    <3> QED
      BY <3>1, <3>3, <3>4, Zenon
  <2>8. SaysHoldBand(config, input) <=> input.score >= config.hold
    BY <2>1 DEF SaysHoldBand, Action, Band
  <2> QED
    BY <2>4, <2>5, <2>7, <2>8 DEF GapsAreReal, gaps
<1>2. ASSUME TypeOK
      PROVE  DecisionEvidenceShown
  <2>1. input.signals \in Seq(Codes)
    BY <1>2 DEF TypeOK
  <2> QED
    BY <2>1, DecisionItemsRanked, ExplanationAssumption DEF DecisionEvidenceShown
<1>3. TypeOK => ReportExplainsDecision
  BY <1>1, <1>2 DEF ReportExplainsDecision
<1> QED
  BY <1>3, PolicyTypeCorrect, PTL

=============================================================================
