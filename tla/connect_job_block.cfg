CONSTANT Outputs = {o1}
SPECIFICATION Spec
INVARIANT ContextOutlivesBlock
CHECK_DEADLOCK FALSE
