CONSTANTS
  Submitter = Submitter
  Deployer = Deployer
  Callers = {Submitter, Deployer}
  K1 = K1
  UserKeys = {K1}
  QHeadKey = QHeadKey
  QTailKey = QTailKey
  Empty = Empty
  Messages = {M1, M2}
  M1 = M1
  M2 = M2
  MaxQueue = 2
  MaxRecv = 2
  RecvInit <- EmptyLog
  OnRollupReceived <- TestReceiverOnRollupReceived

SPECIFICATION TailSpec
PROPERTY MessageHistoryKept
