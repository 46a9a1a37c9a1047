SPECIFICATION MCSpec
CONSTANTS
  w1 = w1
  r1 = r1
  r2 = r2
  c1 = c1
  c2 = c2
  WalletId = {w1}
  Address = {a1}
  Label = {}
  AnyWallet = AnyWallet
  WalletOfflineAfter = 9
  MaxTime = 9
  RequestId = {r1, r2}
  ClientRequestId = {c1, c2}
  PresentationId <- Presentations
  Payload = {pay}
  NoAddress = NoAddress
  NoPresentation = 0
  SnapshotInput <- ExtensionOnly
  KindInput = {"sign_message"}
  ReasonInput = {"request_rejected"}
  TtlInput = {2}
  MinRequestTtl = 1
  MaxRequestTtl = 9
  DeliveryLeaseTtl = 1
  PresentationLeaseTtl = 1
  ResultRetention = 9
  MaxLeases = 2
  HostWallet = w1
  MaxConnections = 2
INVARIANTS
  ShownIsTracked
PROPERTIES
  LastingHostTells
