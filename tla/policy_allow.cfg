SPECIFICATION Spec
CONSTANTS
  Policies <- DocumentedPolicies
  ListIndents = {0, 2}
INVARIANTS ReadsBack
