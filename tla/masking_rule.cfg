\* A masking rule that is no dict.
SPECIFICATION Spec
CHECK_DEADLOCK FALSE
INVARIANT IgnoredRuleMasks
