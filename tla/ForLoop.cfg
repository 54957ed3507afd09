CONSTANT Half = 8
SPECIFICATION Spec
INVARIANT RunsAsDefined
PROPERTY LoopEnds
CHECK_DEADLOCK FALSE
