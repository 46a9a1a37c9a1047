SPECIFICATION Spec
CONSTANTS
  w1 = w1
  w2 = w2
  r1 = r1
  r2 = r2
  c1 = c1
  c2 = c2
  WalletId = {w1}
  Address = {a1}
  Label = {}
  AnyWallet = AnyWallet
  WalletOfflineAfter = 2
  MaxTime = 4
  RequestId = {r1, r2}
  ClientRequestId = {c1, c2}
  PresentationId = {p1}
  Payload = {pay}
  NoAddress = NoAddress
  NoPresentation = NoPresentation
  SnapshotInput <- OneLocal
  KindInput = {"sign_message"}
  ReasonInput = {"request_rejected", "internal_error"}
  TtlInput = {1, 3}
  MinRequestTtl = 2
  MaxRequestTtl = 2
  DeliveryLeaseTtl = 1
  PresentationLeaseTtl = 1
  ResultRetention = 1
  MaxLeases = 2
SYMMETRY RequestSymmetry
INVARIANTS
  LeasesMatchStatus
PROPERTIES
  FinalIsFinal
  TickLeavesNothingOverdue
  TickMakesAnnouncementsTrue
