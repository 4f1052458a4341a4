SPECIFICATION FairSpec
CONSTANTS
  MaxTurns = 3
  MaxCalls = 2
INVARIANTS
  TypeOK
  EveryCallIsAnswered
  AnswerIsTheLastWord
  GroqAnswersNext
  ClosesWhatItOpened
PROPERTIES
  EveryQuestionEnds
  StartsAndStops
CHECK_DEADLOCK FALSE
