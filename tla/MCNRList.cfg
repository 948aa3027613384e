SPECIFICATION Spec
CONSTANT MaxLen = 5
INVARIANT TailAndLinks
PROPERTY ListImplementsSequence
CHECK_DEADLOCK FALSE
