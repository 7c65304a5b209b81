--------------------------- MODULE MCPolicyEngine ---------------------------
(* An instance of PolicyEngine for TLC: every configuration over four      *)
(* score levels and three codes, valid or not.                             *)
EXTENDS Explanation

MCConfigurations ==
  [verify : 0 .. MaxScore, hold : 0 .. MaxScore,
   strong : { Codes, Codes \ {CHOOSE c \in Codes : TRUE} },
   minimum : 1 .. 3, recommend : 1 .. 3, clusterRequired : BOOLEAN,
   version : {"risk-policy-v1", "risk-policy-v2"},
   review : { {"ESCALATE"}, {"RECOMMEND_BLOCK"}, {"ESCALATE", "RECOMMEND_BLOCK"},
              {"HOLD", "ESCALATE", "RECOMMEND_BLOCK"} }]

(* No feature rule matches, some do, all do.                               *)
MCMatches ==
  { {}, {"CUSTOMER_FAILURES_1H", "DEVICE_SHARED_ACROSS_CUSTOMERS"},
    DOMAIN FeatureRules }

=============================================================================
