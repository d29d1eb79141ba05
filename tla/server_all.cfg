\* Users who do not wait, any characters, clients that end at any time.
SPECIFICATION Spec
CONSTANTS
  Clients = {c1, c2}
  AnswerCounts = {0, 2}
  Patient = FALSE
  Ascii = FALSE
  WholeReads = FALSE
  HangUps = "anytime"
  PollSize = 2
  OutCap = 1
  MaxLines = 2
INVARIANTS ServerTypeOK  
CHECK_DEADLOCK FALSE
