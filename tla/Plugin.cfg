SPECIFICATION MCSpec
CONSTANTS
    Nobody = Nobody
    Command = {c1, c2}
    MaxKills = 1
    MaxCrashes = 1
    Overlap = TRUE
    s1 = s1
    s2 = s2
    w1 = w1
    w2 = w2
    Script = {s1, s2}
    Omitted = Omitted
    Wallet = {w1, w2}
    RuntimeWallet = w1
    Unsteady = {w1}
    Refusal = {"rejected"}
    Arguments <- AllCommands
    Ttl = 1
    ResultRetention = 1
    RenameTimeout = 1
    LastStart = 0
    MaxTime = 1
CHECK_DEADLOCK FALSE
INVARIANTS
  NoOrphans
  
  ReportsAreSound
PROPERTIES
  NamesItsOwnAccount
  PluginProcessesEnd
