CONSTANTS
    w1 = w1
    a1 = a1
    WalletId = {w1, w2}
    Address = {a1, a2, a3}
    Label = {savings}
    AnyWallet = AnyWallet
    WalletOfflineAfter = 1
    MaxTime = 3
SPECIFICATION MCSpec
INVARIANTS
  LabelOrdersSound
  RoutingDeterministic
  QueriesAgreeWithRouting
PROPERTIES
  LabelsSurviveSnapshots
