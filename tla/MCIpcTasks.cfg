SPECIFICATION FairSpec
CONSTANTS
  Guest = {g1, g2, g3}
  Greeting = 2
  QUEUE = 1
  MaxBad = 2
  Client = {c1, c2}
  Length <- MCLength
  BUF_SIZE = 2
  QLen = 1
  MaxLost = 1
  MaxDup = 1
  MaxGone = 1
  Copier = {k1, k2, k3}
  Input <- MCInput
  BACKLOG = 1
  MaxBroken = 1
  Producer = {p1, p2}
  Consumer = {u1}
  MaxDead = 1
INVARIANTS AnswersMatch ServerExitsOnlyForDead ProductWhole
PROPERTIES EveryoneGreeted ClientsAnswered CopiedAtLast
CHECK_DEADLOCK FALSE
