CONSTANTS
  Workers = {w1, w2}
  Submitter = Submitter
  Deployer = Deployer
  Configurers = {Deployer}
  OracleAddr = OracleAddr
  LockKey = LockKey
  QHeadKey = QHeadKey
  QTailKey = QTailKey
  Empty = Empty
  MaxRequests = 3
  MaxFeedLock = 1
  MaxReadFailures = 1
  MaxDrops = 1
  MaxDups = 1
  AnswerKinds = {"Response"}
  ErrorAdvancesQueue = TRUE
  LockModulus = 1024

SPECIFICATION Spec
SYMMETRY WorkerSymmetry

PROPERTY RefinesAbstractQueue
