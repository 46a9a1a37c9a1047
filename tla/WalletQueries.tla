-------------------------- MODULE WalletQueries ---------------------------
(***************************************************************************)
(* The wallet queries of the coordinator: what wallet.status,              *)
(* wallet.listInstances and wallet.listAccounts say of the registry.       *)
(***************************************************************************)
EXTENDS WalletRegistry

\* list_wallet_instances; rows come last seen first, equally fresh ones in no
\* stated order.
list_wallet_instances(connected_only) ==
    {w \in WalletId : Registered(w) /\ (connected_only => instances[w].connected)}

First(S) == {w \in S : \A v \in S : instances[v].last_seen_at <= instances[w].last_seen_at}

\* Mutant: locked wallets do not count.
wallet_status_Unlocked ==
    LET unlocked == {w \in list_wallet_instances(FALSE) :
                        instances[w].connected /\ instances[w].lock_state = "unlocked"}
    IN  [wallet_available |-> list_wallet_instances(FALSE) # {},
         wallet_online    |-> unlocked # {},
         default          |-> First(unlocked)]

\* The default is the first connected wallet that is unlocked, or else the
\* first connected one: the set of wallets it may be.
wallet_status ==
    LET all == list_wallet_instances(FALSE)
        connected == {w \in all : instances[w].connected}
        unlocked == {w \in connected : instances[w].lock_state = "unlocked"}
    IN  [wallet_available |-> all # {},
         wallet_online    |-> connected # {},
         default          |-> IF unlocked # {} THEN First(unlocked) ELSE First(connected)]

\* The accounts a wallet's group of wallet.listAccounts holds.
wallet_list_accounts(w) == IF Registered(w) THEN Exposed(accounts[w]) ELSE {}
---------------------------------------------------------------------------
(* Properties.                                                             *)

\* The queries do not mislead callers.  Whenever a call would be routed to some
\* wallet, wallet.status reports a wallet available and online, names a default,
\* and every default it may name is listed as connected; when the routed call
\* needs the wallet unlocked already, so is the default.  A signing call that
\* names no wallet goes, if anywhere, to the only wallet under which
\* wallet.listAccounts shows the address.
QueriesAgreeWithRouting ==
    /\ wallet_status.default \subseteq list_wallet_instances(TRUE)
    /\ \A kind \in RequestKind, address \in Address, w \in WalletId :
          /\ resolve_wallet_for_request(kind, address, w, w) =>
                /\ wallet_status.wallet_available /\ wallet_status.wallet_online
                /\ wallet_status.default # {}
                /\ kind \notin MutationKind /\ "unlock" \notin instances[w].capabilities =>
                       \A d \in wallet_status.default : instances[d].lock_state = "unlocked"
          /\ resolve_wallet_for_request(kind, address, AnyWallet, w) =>
                {v \in WalletId : address \in wallet_list_accounts(v)} = {w}
===========================================================================
