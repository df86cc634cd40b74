SPECIFICATION Spec
CONSTANTS
  A = A
  B = B
  v1 = v1
  v2 = v2
  f = f
  NoView = NoView
  Chain = {A, B}
  Signer = {v1, v2, f}
  Faulty = {f}
  Members <- MCMembers
  Threshold <- MCThreshold
  Unit <- MCUnit
  Supported <- MCSupported
  Registered <- MCRegistered
  Readable <- MCReadable
  MinSend <- MCMinSend
  Liquidity <- MCLiquidity
  LocalAmount = {2}
  Wire = {1}
  MaxU64 = 2
  MaxNonce = 1
  Signable <- MCSignable
  MaxReorgs = 1
  MaxPauses = 1
INVARIANTS HonestEvidence NoDoublePay SettledOnlyIfDue Solvent
PROPERTY ImplementsTransfer
