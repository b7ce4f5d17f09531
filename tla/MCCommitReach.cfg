SPECIFICATION Spec
CONSTANTS
  Histories <- MCHistories
  Dates <- MCDates
  Graphs <- MCGraphs
  Questions <- MCQuestions
  U32 = 4
  V1Max = 10
INVARIANTS GenerationsIncrease
