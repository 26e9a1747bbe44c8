SPECIFICATION Spec
CONSTANTS
  alice = alice
  bob = bob
  tx0 = tx0
  tx1 = tx1
  txB = txB
  key1 = key1
  key2 = key2
  NoReq = NoReq
  Reqs = {tx0, tx1, txB}
  Senders = {alice, bob}
  Keys = {key1, key2}
  SenderOf <- MCSenderOf
  NonceOf <- MCNonceOf
  KeyOf <- TwoKeys
  QCap = 1
  InitNonce = 0
  Rivals = {}
  Faults = {"InvalidNonce"}
INVARIANTS
  TypeOK
  MutexHeldByOne
  
  NothingElseBlocks
