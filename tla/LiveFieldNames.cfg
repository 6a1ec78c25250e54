SPECIFICATION Spec
CONSTANTS
  Policies <- MCPolicies
  Contents <- MCContents
  Places <- MCPlaces
  MaxChanges = 2
CHECK_DEADLOCK FALSE
INVARIANT MissingEvidenceIsUnknown
