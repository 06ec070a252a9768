CONSTANT Calls <- MCCalls
CONSTANT MaxLen <- MCMaxLen
SPECIFICATION Spec
INVARIANT SplitIterationComplete
PROPERTY NativesReturn
