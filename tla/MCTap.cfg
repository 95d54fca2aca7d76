SPECIFICATION LiveSpec
CONSTANT Asks <- AllAsks
CHECK_DEADLOCK FALSE
INVARIANTS OneTouch AnswerTrue
PROPERTIES LateOnlyAfterTimeout Answers
