---------------------------- MODULE Explanation ----------------------------
(***************************************************************************)
(* What an investigation report says about a policy decision: the ranked   *)
(* evidence (packages/investigator/evidence.py) and the answer to "why not *)
(* stronger" (deterministic.py).  Both are computed again from the frozen  *)
(* score, signals and cluster, apart from the engine that decided; wording *)
(* and the optional narrative, which changes nothing else, are left out.   *)
(***************************************************************************)
EXTENDS PolicyEngine

CONSTANTS
  MaxEvidenceItems,  \* MAX_EVIDENCE_ITEMS (8)
  Matches            \* sets of feature rules that match; a bound for TLC

(* FEATURE_EVIDENCE_RULES: the importance of each rule.                    *)
FeatureRules ==
  [DEVICE_ACTIVITY_10M             |-> 76,
   NETWORK_CUSTOMER_DIVERSITY_1H   |-> 74,
   CUSTOMER_FAILURES_1H            |-> 72,
   NEW_DEVICE_FOR_CUSTOMER         |-> 67,
   NEW_INSTRUMENT_FOR_CUSTOMER     |-> 66,
   DEVICE_SHARED_ACROSS_CUSTOMERS  |-> 80,
   DEVICE_SHARED_ACROSS_INSTRUMENTS |-> 79]

(* Two items on the policy, one per signal and one on the cluster always   *)
(* fit: with the five codes of graph-v1 the eight items are just enough.   *)
ASSUME ExplanationAssumption ==
  /\ MaxEvidenceItems \in Nat
  /\ MaxEvidenceItems >= Cardinality(Codes) + 3
  /\ Matches \subseteq SUBSET DOMAIN FeatureRules

-----------------------------------------------------------------------------
(* Evidence.                                                               *)

ScoreItem   == <<"policy", "MODEL_SCORE_POLICY_BAND">>
ReasonsItem == <<"policy", "POLICY_REASON_CODES">>
ClusterItem == <<"cluster", "ACTIVE_STRUCTURAL_CLUSTER">>

SignalItems(i) == { <<"signal", i.signals[j]>> : j \in DOMAIN i.signals }

(* What the decision rested on, and the rules its features match.          *)
DecisionItems(i) ==
  {ScoreItem, ReasonsItem} \cup SignalItems(i)
    \cup { x \in {ClusterItem} : i.cluster }

EvidenceItems(i, matched) ==
  DecisionItems(i) \cup { <<"feature", f>> : f \in matched }

Importance(x) ==
  CASE x = ScoreItem      -> 100
    [] x = ReasonsItem    -> 96
    [] x[1] = "signal"    -> 90
    [] x[1] = "cluster"   -> 88
    [] x[1] = "feature"   -> FeatureRules[x[2]]

(* The order of equally important items by code: only signals tie.         *)
Alphabet ==
  CHOOSE f \in [Codes -> 1 .. Cardinality(Codes)] :
    \A c, d \in Codes : c # d => f[c] # f[d]

Before(x, y) ==
  \/ Importance(x) > Importance(y)
  \/ /\ x[1] = "signal" /\ y[1] = "signal"
     /\ Alphabet[x[2]] < Alphabet[y[2]]

(* _rank: the first items of the order.                                    *)
Ranked(items) ==
  { x \in items :
      Cardinality({ y \in items : Before(y, x) }) < MaxEvidenceItems }

-----------------------------------------------------------------------------
(* Why not stronger.                                                       *)

StrongCount(c, i) == Cardinality(StrongSignals(c, i.signals))

(* What the explanation can name as missing.                               *)
Gaps == {"VERIFY score", "HOLD score", "escalation rule", "block signals",
         "active cluster"}

IsMissing(gap, c, i) ==
  \/ gap = "VERIFY score"    /\ i.score < c.verify
  \/ gap = "HOLD score"      /\ i.score < c.hold
  \/ gap = "escalation rule" /\ StrongCount(c, i) < c.minimum
  \/ gap = "block signals"   /\ StrongCount(c, i) < c.recommend
  \/ gap = "active cluster"  /\ c.clusterRequired /\ ~i.cluster

(* Mutant: an escalation is explained by its signals alone.                *)
WhyNotStronger_SignalsOnly(c, i) ==
  { gap \in Gaps :
      \/ Action(c, i) = ALLOW    /\ gap = "VERIFY score"
      \/ Action(c, i) = VERIFY   /\ gap = "HOLD score"
      \/ Action(c, i) = HOLD     /\ gap = "escalation rule"
      \/ Action(c, i) = ESCALATE /\ gap = "block signals" /\ IsMissing(gap, c, i) }

(* why_not_stronger: below ESCALATE the gap is named without looking, an   *)
(* escalation names what it finds missing.                                 *)
WhyNotStronger(c, i) ==
  { gap \in Gaps :
      \/ Action(c, i) = ALLOW    /\ gap = "VERIFY score"
      \/ Action(c, i) = VERIFY   /\ gap = "HOLD score"
      \/ Action(c, i) = HOLD     /\ gap = "escalation rule"
      \/ /\ Action(c, i) = ESCALATE
         /\ gap \in {"block signals", "active cluster"}
         /\ IsMissing(gap, c, i) }

(* decision_explanation: whether the score is said to have entered HOLD.   *)
SaysHoldBand(c, i) == Action(c, i) \in {HOLD, ESCALATE, RECOMMEND_BLOCK}

-----------------------------------------------------------------------------

(* The report explains the decision that was made: what it names as        *)
(* missing is missing, something is named unless nothing stronger exists   *)
(* (the vague fallback of why_not_stronger is never shown), an escalation  *)
(* names all that separates it from a block, and a score said to be in the *)
(* HOLD band is.                                                           *)
GapsAreReal ==
  LET gaps == WhyNotStronger(config, input) IN
  /\ \A gap \in gaps : IsMissing(gap, config, input)
  /\ gaps = {} <=> Action(config, input) = RECOMMEND_BLOCK
  /\ Action(config, input) = ESCALATE /\ "block signals" \notin gaps
       => "active cluster" \in gaps
  /\ SaysHoldBand(config, input) <=> input.score >= config.hold

(* However many feature rules match, the cap never pushes out what the     *)
(* decision rested on: score, reasons, every signal and the cluster.       *)
DecisionEvidenceShown ==
  \A matched \in Matches :
    DecisionItems(input) \subseteq Ranked(EvidenceItems(input, matched))

ReportExplainsDecision == GapsAreReal /\ DecisionEvidenceShown

=============================================================================
