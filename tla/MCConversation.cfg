SPECIFICATION Spec
CONSTANTS
  Chat = {a, b}
  Nowhere = Nowhere
  Permits = 1
  MaxTexts = 2
  MaxVisits = 1
  MaxFaults = 1
  MaxRestarts = 1
INVARIANTS TurnsAlternate WaitingIsWorkedOn
PROPERTIES QuestionKept EveryQuestionIsAnswered PageCatchesUp
CHECK_DEADLOCK FALSE
