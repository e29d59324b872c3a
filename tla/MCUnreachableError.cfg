CONSTANTS
  FromToolchain = "host"
  Claims <- MCClaims

SPECIFICATION Spec

INVARIANT CandidatesListed

CHECK_DEADLOCK FALSE
