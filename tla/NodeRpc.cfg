\* Operations alone and together, and the startup probe, which ends.
SPECIFICATION MCSpec
CONSTANTS
    Client = {c1, c2}
    c1 = c1
    c2 = c2
    VmProfile = {"auto", "vm1_only", "vm2_only"}
    Mode = {"read_only", "transaction"}
    Op <- MCUncached
    Exchange <- MCOutcome
    Key = {"k"}
    Optional = {"chain.get_transaction2", "chain.get_transaction",
                "txpool.submit_hex_transaction2", "txpool.submit_hex_transaction",
                "contract.dry_run_raw"}
    Touchy = {"chain.get_transaction2", "contract.dry_run_raw", "state.list_code"}
    CacheTtl <- MCTtl
    CacheCapacity <- MCCapacity
    RequestTimeout = 1
    MaxChanges = 1
    MaxTime = 0
CHECK_DEADLOCK FALSE
INVARIANTS
  SubmittedOnce
  
  CachesAreSound
  StartupIsSound
