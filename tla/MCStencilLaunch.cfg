SPECIFICATION Spec
CONSTANT Instances <- MCLaterStart
INVARIANT ReadsAsPromised
CHECK_DEADLOCK FALSE
