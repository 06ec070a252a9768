CONSTANT Inputs <- MCInputs
CONSTANT Envs <- MCEnvs
SPECIFICATION Spec
INVARIANT ReducesByPrecedence
INVARIANT TernaryShortCircuits
