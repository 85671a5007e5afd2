SPECIFICATION Spec
CONSTANTS
  MaxSteps = 4
  MaxChildren = 2
  TitleLengths = {17, 60}
INVARIANTS
  DAGTypeOK
  CardsApart
  StepsInCards
  OnCanvas
CHECK_DEADLOCK FALSE
