CONSTANT Inputs <- MCInputs
CONSTANT MaxPasses = 3
SPECIFICATION Spec
INVARIANT GroupRoundTrip
INVARIANT RewriteSettles
