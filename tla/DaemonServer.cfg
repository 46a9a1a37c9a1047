SPECIFICATION MCSpec
CONSTANTS
  w1 = w1
  w2 = w2
  k1 = k1
  k2 = k2
  WalletId = {w1, w2}
  Address = {a1}
  Label = {lab}
  AnyWallet = AnyWallet
  WalletOfflineAfter = 1
  MaxTime = 2
  RequestId = {r1}
  ClientRequestId = {c1}
  PresentationId = {p1}
  Payload = {pay}
  NoAddress = NoAddress
  NoPresentation = NoPresentation
  SnapshotInput <- BothSnapshots
  KindInput = {"sign_message"}
  ReasonInput = {"request_rejected"}
  TtlInput = {1}
  MinRequestTtl = 1
  MaxRequestTtl = 2
  DeliveryLeaseTtl = 1
  PresentationLeaseTtl = 1
  ResultRetention = 1
  MaxLeases = 1
  Connection = {k1, k2}
  CallInput <- AllCalls
  ConfigInput = {{w1, w2}, {w2}}
  MaxRestarts = 1
PROPERTIES
  
  NobodyWaitsForever
