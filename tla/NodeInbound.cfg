CONSTANT Case <- MCCase
SPECIFICATION Spec
INVARIANTS SecurityAsAsked CoresAgree SupportedNeverPanics
CHECK_DEADLOCK FALSE
