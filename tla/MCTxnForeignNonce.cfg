SPECIFICATION Spec
CONSTANTS
  alice = alice
  bob = bob
  tx0 = tx0
  tx1 = tx1
  txB = txB
  key1 = key1
  key2 = key2
  NoReq = NoReq
  Reqs = {tx0}
  Senders = {alice}
  Keys = {key1}
  SenderOf <- MCSenderOf
  NonceOf <- MCNonceOf
  KeyOf <- OneKey
  QCap = 1
  InitNonce = 0
  Rivals <- Tx0Rival
  Faults = {"Timeout"}
INVARIANTS
  SuccessMeansExecuted
