SPECIFICATION Spec
INVARIANT ThresholdsApplied
CHECK_DEADLOCK FALSE
