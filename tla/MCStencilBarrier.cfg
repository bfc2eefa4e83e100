SPECIFICATION Spec
CONSTANT Instances <- MCBarriers
INVARIANT ReadsAsPromised
CHECK_DEADLOCK FALSE
