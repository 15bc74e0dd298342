SPECIFICATION FairSpec
CONSTANTS
  Worker = {w1, w2}
  Dispatcher <- MixedDispatcher
  Prio <- MixedPrio
  INT32_MAX <- NO_NUMBER
  MQ_PRIO_MAX <- PRIO_MAX
  mq_maxmsg = 1
  None = None
  MaxFail = 1
INVARIANTS TaskOnce LostOnlyByUnlinkOrKill NameLeftOnlyByKill
PROPERTIES AcceptedTaskProcessed BlockedSenderReturns InterruptEndsWorker
CHECK_DEADLOCK FALSE
