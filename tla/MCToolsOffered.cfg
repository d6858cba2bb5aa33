CONSTANT Algorithms = {"server"}
SPECIFICATION Spec
CHECK_DEADLOCK FALSE
INVARIANTS AgentsAreCallable
