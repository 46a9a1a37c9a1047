SPECIFICATION MCSpec
CONSTANTS
  w1 = w1
  w2 = w2
  r1 = r1
  r2 = r2
  c1 = c1
  c2 = c2
  WalletId = {w1, w2}
  Address = {a1}
  Label = {savings}
  AnyWallet = AnyWallet
  WalletOfflineAfter = 3
  MaxTime = 5
  RequestId = {r1, r2}
  ClientRequestId = {c1}
  PresentationId = {"p1", "p2"}
  Payload = {"pay1", "pay2"}
  NoAddress = NoAddress
  NoPresentation = NoPresentation
  SnapshotInput <- AnyBackend
  KindInput = {"sign_message", "sign_transaction", "create_account"}
  ReasonInput = {"request_rejected", "wallet_locked"}
  TtlInput = {1, 2, 3}
  MinRequestTtl = 1
  MaxRequestTtl = 3
  DeliveryLeaseTtl = 1
  PresentationLeaseTtl = 1
  ResultRetention = 1
  MaxLeases = 3
INVARIANTS
  
  CreateIsIdempotent
PROPERTIES
  ImplementsLifecycle
  RequestsTerminate
