--------------------------- MODULE MCCoordinator ---------------------------
(* Small instances of the coordinator for TLC.                              *)
EXTENDS Coordinator, TLC

CONSTANTS w1, w2, r1, r2, c1, c2

\* A local wallet with one account it can sign with ...
LocalSigner ==
    [backend_kind |-> "local_account_dir", capabilities |-> WalletCapability,
     lock_state |-> "unlocked", accounts |-> [a \in Address |-> "signing"]]

\* ... the same wallet once its account is gone ...
LocalEmpty ==
    [backend_kind |-> "local_account_dir",
     capabilities |-> {"create_account", "import_account"},
     lock_state |-> "unknown", accounts |-> [a \in Address |-> "absent"]]

\* ... and a browser extension.
Extension ==
    [backend_kind |-> "starmask_extension", capabilities |-> ExtensionCapabilities,
     lock_state |-> "unlocked", accounts |-> [a \in Address |-> "signing"]]

OneLocal == {LocalSigner}
LocalComesAndGoes == {LocalSigner, LocalEmpty}
AnyBackend == {LocalSigner, LocalEmpty, Extension}

RequestSymmetry == Permutations(RequestId)
============================================================================
