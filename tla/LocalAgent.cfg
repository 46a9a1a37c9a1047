SPECIFICATION MCSpec
CONSTANTS
  w1 = w1
  r1 = r1
  r2 = r2
  c1 = c1
  c2 = c2
  WalletId = {w1}
  Address = {a1}
  Label = {}
  AnyWallet = AnyWallet
  WalletOfflineAfter = 9
  MaxTime = 5
  RequestId = {r1, r2}
  ClientRequestId = {c1, c2}
  PresentationId <- BaseLeases
  Payload = {"good", "bad"}
  NoAddress = NoAddress
  NoPresentation = 0
  SnapshotInput <- LocalSnapshots
  KindInput = {"sign_message", "sign_transaction", "create_account", "export_account", "import_account"}
  ReasonInput = {"request_rejected", "wallet_locked", "unsupported_operation", "invalid_transaction_payload", "invalid_message_payload", "backend_unavailable", "backend_policy_blocked"}
  TtlInput = {2, 4}
  MinRequestTtl = 1
  MaxRequestTtl = 9
  DeliveryLeaseTtl = 1
  PresentationLeaseTtl = 2
  ResultRetention = 9
  MaxLeases = 3
  AgentWallet = w1
  InvalidPayload = {"bad"}
  ForcePayload = {"good"}
  AllowReadOnlyAccounts = FALSE
  HeartbeatInterval = 1
  MaxApprovals = 2
  MaxChanges = 2
  Lossy = TRUE
  Punctual = FALSE
INVARIANTS
  TimelyWorkCounts
  NothingDoneUnasked
  OneLivePresentation
PROPERTIES
  SettledLockCatchesUp
