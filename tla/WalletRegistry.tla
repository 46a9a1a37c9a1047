-------------------------- MODULE WalletRegistry --------------------------
(***************************************************************************)
(* The wallet side of starmaskd's database: registered wallet instances,   *)
(* the account snapshot each one last published, and the labels the daemon *)
(* keeps for accounts of local wallets.  The coordinator routes requests   *)
(* from this state.  Every action is one coordinator command; a command    *)
(* that the code answers with an error changes nothing and is no step.     *)
(***************************************************************************)
EXTENDS RequestTypes, Integers, FiniteSets, Functions

CONSTANTS
    WalletId,            \* wallet_instance_ids
    Address,             \* account addresses
    Label,               \* non-blank labels a user or a backend may choose
    AnyWallet,           \* the caller named no wallet_instance_id
    WalletOfflineAfter,  \* wallet_offline_after, in clock units
    MaxTime              \* bound: the clock stops here

ASSUME RegistryAssumption ==
    /\ AnyWallet \notin WalletId
    /\ IsFiniteSet(Address)
    /\ WalletOfflineAfter \in Nat
    /\ MaxTime \in Nat

VARIABLES
    now,        \* the coordinator's clock
    instances,  \* wallet_instances, one row per wallet_instance_id
    accounts,   \* wallet_accounts: how each wallet exposes each address
    labels      \* wallet_account_labels, order 0 when there is no row

registryVars == <<instances, accounts, labels>>

BackendKind == {"starmask_extension", "local_account_dir"}
AccountView == {"absent", "read_only", "signing"}
LabelText == Label \cup {"account-n", "none"}
NoRow == [order |-> 0, label |-> "none"]
AccountOrder == 1 .. (Cardinality(Address) + 1)

Instance == [backend_kind : BackendKind \cup {"unregistered"},
             capabilities : SUBSET WalletCapability,
             lock_state   : LockState,
             connected    : BOOLEAN,
             last_seen_at : Nat]

Unregistered == [backend_kind |-> "unregistered", capabilities |-> {},
                 lock_state |-> "unknown", connected |-> FALSE,
                 last_seen_at |-> 0]

Registered(w) == instances[w].backend_kind # "unregistered"

RegistryInit ==
    /\ now = 1
    /\ instances = [w \in WalletId |-> Unregistered]
    /\ accounts = [w \in WalletId |-> [a \in Address |-> "absent"]]
    /\ labels = [w \in WalletId |-> [a \in Address |-> NoRow]]
---------------------------------------------------------------------------
(* What a backend publishes about itself.                                  *)

Exposed(view) == {a \in Address : view[a] # "absent"}

\* The local account agent derives its lock state and its capabilities from
\* the accounts it finds (a read-only account may or may not carry a public
\* key).
LocalSnapshots ==
    {s \in [backend_kind : {"local_account_dir"},
            capabilities : {WalletCapability,
                            {"get_public_key", "create_account", "import_account"},
                            {"create_account", "import_account"}},
            lock_state   : LockState,
            accounts     : [Address -> AccountView]] :
        LET signable == \E a \in Address : s.accounts[a] = "signing"
        IN  /\ (s.lock_state = "unknown") <=> ~signable
            /\ (s.capabilities = WalletCapability) <=> signable
            /\ ("get_public_key" \in s.capabilities) => Exposed(s.accounts) # {}}

\* A browser extension: fixed capabilities, and no account is read-only.
ExtensionSnapshots ==
    [backend_kind : {"starmask_extension"},
     capabilities : {ExtensionCapabilities},
     lock_state   : LockState,
     accounts     : [Address -> {"absent", "signing"}]]

Snapshots == LocalSnapshots \cup ExtensionSnapshots
---------------------------------------------------------------------------
(* Account labels.                                                         *)

\* Mutant: numbers after the accounts exposed now, not after every row.
next_account_order_Exposed(w, n) ==
    n = 1 + Cardinality({a \in Exposed(accounts[w]) : labels[w][a].order # 0})

\* n is MAX(account_order) + 1 over the wallet's label rows.
next_account_order(w, n) ==
    /\ \A a \in Address : labels[w][a].order < n
    /\ n = 1 \/ \E a \in Address : labels[w][a].order = n - 1

\* Mutant: every account of the snapshot is labelled afresh.
ensure_local_account_labels_Afresh(w, view) ==
    \E position \in Bijection(Exposed(view), 1 .. Cardinality(Exposed(view))) :
        labels' = [labels EXCEPT ![w] =
            [a \in Address |-> IF a \in Exposed(view)
                               THEN [order |-> position[a], label |-> "account-n"]
                               ELSE labels[w][a]]]

\* Addresses seen for the first time get consecutive orders in the order the
\* snapshot lists them, and the label the backend suggests, or else the
\* default one, "account-<order>".  Known addresses keep their row.
ensure_local_account_labels(w, view) ==
    LET new == {a \in Exposed(view) : labels[w][a].order = 0}
    IN  \E next \in AccountOrder,
           position \in Bijection(new, 1 .. Cardinality(new)),
           text \in [new -> LabelText \ {"none"}] :
            /\ next_account_order(w, next)
            /\ labels' = [labels EXCEPT ![w] =
                 [a \in Address |->
                    IF a \in new
                    THEN [order |-> next + position[a] - 1, label |-> text[a]]
                    ELSE labels[w][a]]]

replace_wallet_accounts(w, backend_kind, view) ==
    /\ accounts' = [accounts EXCEPT ![w] = view]
    /\ IF backend_kind = "local_account_dir"
       THEN ensure_local_account_labels(w, view)
       ELSE UNCHANGED labels

SetAccountLabel(w, a, label) ==
    /\ instances[w].backend_kind = "local_account_dir"
    /\ accounts[w][a] # "absent"
    /\ \E order \in AccountOrder :
          /\ IF labels[w][a].order # 0
             THEN order = labels[w][a].order
             ELSE next_account_order(w, order)
          /\ labels' = [labels EXCEPT ![w][a] = [order |-> order, label |-> label]]
    /\ UNCHANGED <<instances, accounts>>
---------------------------------------------------------------------------
(* Registration, heartbeats, snapshots, staleness.                         *)

RegisteredInstance(s) ==
    [backend_kind |-> s.backend_kind, capabilities |-> s.capabilities,
     lock_state |-> s.lock_state, connected |-> TRUE, last_seen_at |-> now]

\* Mutant: no check of the backend kind.
KindMayRegister_Any(w, s) == TRUE

KindMayRegister(w, s) ==
    instances[w].backend_kind \in {"unregistered", s.backend_kind}

RegisterBackend(w, s) ==
    /\ KindMayRegister(w, s)
    /\ instances' = [instances EXCEPT ![w] = RegisteredInstance(s)]
    /\ replace_wallet_accounts(w, s.backend_kind, s.accounts)

\* The daemon dies after the instance row is written and before the accounts
\* transaction commits: the two are separate statements.
CrashDuringRegister(w, s) ==
    /\ KindMayRegister(w, s)
    /\ instances' = [instances EXCEPT ![w] = RegisteredInstance(s)]
    /\ UNCHANGED <<accounts, labels>>

UpdateBackendAccounts(w, s) ==
    /\ instances[w].backend_kind = s.backend_kind
    /\ instances' = [instances EXCEPT ![w] = RegisteredInstance(s)]
    /\ replace_wallet_accounts(w, s.backend_kind, s.accounts)

\* lock_state "keep": the heartbeat carries none, as no extension heartbeat does.
HeartbeatInstance(w, lock_state) ==
    /\ Registered(w)
    /\ instances' = [instances EXCEPT ![w] =
          [instances[w] EXCEPT
              !.connected = TRUE,
              !.last_seen_at = now,
              !.lock_state = IF lock_state = "keep" THEN instances[w].lock_state
                             ELSE lock_state]]
    /\ UNCHANGED <<accounts, labels>>

\* Mutant: stale one unit late.
is_wallet_stale_Late(w) == now - instances[w].last_seen_at > WalletOfflineAfter

is_wallet_stale(w) == now - instances[w].last_seen_at >= WalletOfflineAfter

\* The wallet loop of tick_maintenance, over the wallets in marked.
MarkStale(marked) ==
    instances' = [w \in WalletId |->
        IF w \in marked /\ instances[w].connected /\ is_wallet_stale(w)
        THEN [instances[w] EXCEPT !.connected = FALSE]
        ELSE instances[w]]
---------------------------------------------------------------------------
(* Routing: each operator holds of the wallet w the code would select for  *)
(* a request of this kind and address, given the caller's choice of wallet *)
(* (or AnyWallet); it holds of no wallet when the code returns an error.   *)

\* Mutant: any wallet that exposes the address will do.
resolve_wallet_instance_for_account_First(address, wallet, w) ==
    /\ accounts[w][address] # "absent"
    /\ wallet \in {AnyWallet, w}

resolve_wallet_instance_for_account(address, wallet, w) ==
    /\ accounts[w][address] # "absent"
    /\ IF wallet = AnyWallet
       THEN \A v \in WalletId : accounts[v][address] # "absent" => v = w
       ELSE w = wallet

resolve_wallet_for_signing(kind, address, wallet, w) ==
    /\ resolve_wallet_instance_for_account(address, wallet, w)
    /\ capability_for_request(kind) \in instances[w].capabilities
    /\ instances[w].connected
    /\ \/ instances[w].lock_state = "unlocked"
       \/ "unlock" \in instances[w].capabilities
    /\ accounts[w][address] # "read_only"

resolve_wallet_for_request(kind, address, wallet, w) ==
    IF kind \in MutationKind
    THEN /\ w = wallet
         /\ Registered(w)
         /\ capability_for_request(kind) \in instances[w].capabilities
         /\ instances[w].connected
    ELSE resolve_wallet_for_signing(kind, address, wallet, w)
---------------------------------------------------------------------------
(* The registry on its own.                                                *)

AdvanceClock ==
    /\ now < MaxTime
    /\ now' = now + 1

\* A step of wallets in W that publish snapshots in S and whose user chooses
\* labels in L, or of the daemon.
RegistryStep(W, S, L) ==
    \/ /\ \/ \E w \in W, s \in S :
               \/ RegisterBackend(w, s)
               \/ CrashDuringRegister(w, s)
               \/ UpdateBackendAccounts(w, s)
          \/ \E w \in W, lock_state \in LockState \cup {"keep"} :
               HeartbeatInstance(w, lock_state)
          \/ \E w \in W, a \in Address, label \in L :
               SetAccountLabel(w, a, label)
          \/ MarkStale(WalletId) /\ UNCHANGED <<accounts, labels>>
       /\ UNCHANGED now
    \/ AdvanceClock /\ UNCHANGED registryVars

RegistryNext == RegistryStep(WalletId, Snapshots, Label)

RegistrySpec == RegistryInit /\ [][RegistryNext]_<<now, registryVars>>
---------------------------------------------------------------------------
(* Properties.                                                             *)

\* Type invariant of the tables in the daemon's database.
RegistryTypeOK ==
    /\ now \in Nat \ {0}
    /\ instances \in [WalletId -> Instance]
    /\ accounts \in [WalletId -> [Address -> AccountView]]
    /\ labels \in [WalletId -> [Address -> [order : Nat, label : LabelText]]]

\* Every account a local wallet exposes has a label row, and no two accounts
\* of a wallet share an order, whatever sequence of snapshots, relabelling and
\* half-finished registrations led here (ensure_local_account_labels numbers
\* from MAX + 1, and known rows outlive their account).
LabelOrdersSound ==
    \A w \in WalletId, a \in Address :
        /\ /\ instances[w].backend_kind = "local_account_dir"
           /\ accounts[w][a] # "absent"
           => labels[w][a].order # 0
        /\ \A b \in Address :
              labels[w][a].order = labels[w][b].order /\ a # b
                  => labels[w][a].order = 0

\* A label row is never lost or renumbered, and only wallet.setAccountLabel
\* changes its text: an account that vanishes from a snapshot and comes back
\* finds the label its user chose.
LabelsSurviveSnapshots ==
    [][\A w \in WalletId, a \in Address :
          labels[w][a].order # 0 =>
              /\ labels'[w][a].order = labels[w][a].order
              /\ labels'[w][a].label # labels[w][a].label =>
                     SetAccountLabel(w, a, labels'[w][a].label)]_labels

\* A wallet_instance_id keeps the backend kind it first registered with, and
\* is never forgotten.
BackendKindPinned ==
    [][\A w \in WalletId : Registered(w) =>
          instances'[w].backend_kind = instances[w].backend_kind]_instances

\* Routing is deterministic: a call selects at most one wallet, the named one
\* if one is named; an unnamed signing call selects a wallet only when no other
\* known wallet, connected or not, exposes the address; and what is selected
\* without naming it could be selected by naming it.
RoutingDeterministic ==
    \A kind \in RequestKind, address \in Address,
       wallet \in WalletId \cup {AnyWallet}, w \in WalletId :
        resolve_wallet_for_request(kind, address, wallet, w) =>
            /\ wallet \in {w, AnyWallet}
            /\ Registered(w)
            /\ resolve_wallet_for_request(kind, address, w, w)
            /\ \A v \in WalletId \ {w} :
                  /\ ~resolve_wallet_for_request(kind, address, wallet, v)
                  /\ wallet = AnyWallet => accounts[v][address] = "absent"
===========================================================================
