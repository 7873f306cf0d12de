CONSTANT InboxCap = 2
SPECIFICATION FairSpec
PROPERTY LossIsReported
CHECK_DEADLOCK FALSE
