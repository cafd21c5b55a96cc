CONSTANTS
  MaxFrame = 3
  MinInflight = 2
  MaxInflight = 3
  EndNumbers = {0, 2, 9}
SPECIFICATION Spec
INVARIANTS BuffersAccounted AnswersInOrder  LimitWorks
CHECK_DEADLOCK FALSE
