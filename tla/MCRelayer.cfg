SPECIFICATION MCSpec
CONSTANTS
  h1 = h1
  h2 = h2
  l1 = l1
  l2 = l2
  a1 = a1
  a2 = a2
  a3 = a3
  q1 = q1
  t1 = t1
  t2 = t2
  r1 = r1
  r2 = r2
  r3 = r3
  n1 = n1
  n2 = n2
  n3 = n3
  n4 = n4
  k1 = k1
  k2 = k2
  k3 = k3
  k4 = k4
  Parts = {"events", "filter", "reads", "submit", "shutdown", "near", "keys"}
  HeadSubs = {h1}
  LogSubs = {l1}
  newHeadsCh = newHeadsCh
  ChSize = 2
  MaxEvents = 3
  Asks = {a1, a2}
  ClientOf <- MCClientOf
  NoClient = "unknown"
  Configs <- MCConfigs
  NetOf <- MCNetOf
  Queries = {q1}
  Proxied = {"eth_call"}
  Epoch = 2
  Kept = 4
  MaxLag = 2
  AuroraFrom = 2
  FirstHead = 4
  MaxHeight = 9
  Txns = {t1, t2}
  TxnSender <- MCTxnSender
  Mapper = "RoundRobin"
  Crc32 <- MCCrc32
  NumKeys = 2
  AsyncModes = {TRUE, FALSE}
  Pending = {r1, r2, r3}
  NumProcs = 2
  ProcOf <- MCProcOf
  Cap = 1
  Tries = {n1, n2, n3, n4}
  Capacity = 2
  KeyNonce = 1
  TooLarge = 3
  MaxNonce = 6
  AccessKeys = {k1, k2, k3}
  MaxKeys = 2
INVARIANTS LogSubscribersGetAll FilterTypeOK  ToldTheLast  SortFindsItsQueueOpen QueuesAreDrained CloseIsNotStuck NoncesDiffer NoKeyWithoutFile
PROPERTIES JudgedByLastConfig LogsArrive CloseReturns
