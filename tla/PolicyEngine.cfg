SPECIFICATION Spec
CONSTANTS
  Codes = {device, rapid, bridge}
  MaxScore = 3
  MaxSignals = 3
  MaxEvidenceItems = 6
  Configurations <- MCConfigurations
  Matches <- MCMatches
INVARIANT SevereActionsJustified
INVARIANT ReportExplainsDecision
PROPERTY EvidenceIsMonotone
CHECK_DEADLOCK FALSE
