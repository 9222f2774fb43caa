SPECIFICATION Spec
CONSTANTS
  Urls = {a, b}
  Panels = {p, q}
  Capacities = {1, 2}
  MaxVersion = 1
  MaxReads = 2
  Behind = TRUE
  Null = Null
PROPERTIES
  AnswersAreShared
  EveryPanelIsAnswered
