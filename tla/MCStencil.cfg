SPECIFICATION FairSpec
CONSTANT Instances <- MCInstances
INVARIANTS TypeOK ReadsAsPromised ResultsComplete CopiesStayInBounds OrderSettles
PROPERTY ComputationReturns
CHECK_DEADLOCK FALSE
