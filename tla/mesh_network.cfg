CONSTANT MaxCalls = 4
SPECIFICATION FairSpec
INVARIANTS OneAnswerEach SlotHasTimer AnswersItsOwn
PROPERTIES EveryCallIsAnswered
\* the application may make no more calls
CHECK_DEADLOCK FALSE
