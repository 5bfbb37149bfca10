SPECIFICATION Spec
INVARIANT EveryOrderClassified
