\* Every token of the scanner, in every start condition.
SPECIFICATION Spec
INVARIANTS TablesFollowThePatterns
CHECK_DEADLOCK FALSE
