\* Patient users of the python client, lines of one command or none, clients
\* that may end between two messages; one event at a time.
SPECIFICATION Spec
CONSTANTS
  Clients = {c1, c2}
  AnswerCounts = {0, 1}
  Patient = TRUE
  Ascii = TRUE
  WholeReads = TRUE
  HangUps = "between"
  PollSize = 1
  OutCap = 1
  MaxLines = 3
INVARIANT SurvivesClients
PROPERTIES PromptIsWorkingDb Answered
CHECK_DEADLOCK FALSE
