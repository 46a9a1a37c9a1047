-------------------------- MODULE AccountScripts --------------------------
(***************************************************************************)
(* The scripts that ask a wallet to create, import or export an account:   *)
(* run_create_account.py and the import-account and export-account         *)
(* commands of wallet_runtime.py.  Several run at once, each call of the   *)
(* daemon is a step that may fail with or without effect, and each script  *)
(* can be interrupted.                                                     *)
(*                                                                         *)
(* The daemon is kept to what the scripts see of it (Coordinator has the   *)
(* rest): one request per client_request_id, decided once, expired in the  *)
(* end, its result kept for a while.  The wallets' lists of accounts reach *)
(* the daemon later than the approvals.                                    *)
(***************************************************************************)
EXTENDS Integers, Sequences, FiniteSets

CONSTANTS
    Script,          \* script processes
    Wallet,          \* registered wallet instances
    RuntimeWallet,   \* the one in the wallet runtime's metadata
    Unsteady,        \* the wallets that come and go in this instance
    Arguments,       \* command lines
    Omitted,         \* an optional argument left out
    Refusal,         \* the ways a request is turned down in this instance
    Ttl, ResultRetention,
    RenameTimeout,   \* DEFAULT_ACCOUNT_RENAME_TIMEOUT_SECONDS
    LastStart, MaxTime \* bounds: the last start, the end of time

ASSUME ScriptAssumption ==
    /\ RuntimeWallet \in Wallet /\ Refusal \subseteq {"rejected", "cancelled", "failed"}
    /\ {Ttl, ResultRetention, RenameTimeout, LastStart, MaxTime} \subseteq Nat
    /\ \A args \in Arguments :
          /\ args.kind \in {"create_account", "import_account", "export_account"}
          /\ args.wallet \in Wallet \cup {Omitted}
          /\ args.timeout \in Nat \cup (IF args.kind = "create_account" THEN {Omitted} ELSE {})

VARIABLES
    now,
    scripts,    \* what each script is doing
    audit,      \* what each run wrote to create-account-audit.jsonl
    requests,   \* daemon: client_request_id -> request
    wallets,    \* accounts of each wallet, those the daemon knows, connected
    labels      \* daemon: account_labels, <<wallet, address>> -> name

scriptVars == <<now, scripts, audit, requests, wallets, labels>>
daemon == <<requests, wallets, labels>>

TERMINAL_REQUEST_STATUSES == {"approved", "rejected", "expired", "cancelled", "failed"}
NoAddress == -1

Fresh == [stage |-> "new", args |-> Omitted, wallet |-> Omitted, id |-> Omitted,
          status |-> "none", address |-> NoAddress, deadline |-> 0, outcome |-> "none",
          started |-> 0]    \* history: when the key was made

Stands(s, stage) == scripts[s].stage = stage
Busy(s) == scripts[s].stage \notin {"new", "ended"}
\* The script ends by itself, and its report stays; it ends in an error or is
\* interrupted.
Ends(s, outcome) ==
    scripts' = [scripts EXCEPT ![s].stage = "ended", ![s].outcome = outcome,
                               ![s].deadline = 0]
Fails(s) == scripts' = [scripts EXCEPT ![s] = [Fresh EXCEPT !.stage = "ended",
                                                            !.outcome = "error"]]
Put(f, x, v) == [y \in DOMAIN f \cup {x} |-> IF y = x THEN v ELSE f[y]]
---------------------------------------------------------------------------
(* Start.                                                                  *)

\* The wallet the script goes on with, if it can tell.
resolve_wallet_instance(given) ==
    LET connected == {w \in Wallet : wallets[w].connected}
    IN  IF given # Omitted THEN {given}
        ELSE IF Cardinality(connected) = 1 THEN connected ELSE {}

\* create: the key given, or one made of the current second; import and
\* export: one made of the process and a random part.
client_request_id(s, args) ==
    IF args.kind # "create_account" THEN <<"own", s>>
    ELSE IF args.id # Omitted THEN <<"given", args.id>> ELSE <<"default", now>>

\* run_create_account.py looks at the listings first.
StartCreate(s, args) ==
    LET choices == resolve_wallet_instance(args.wallet) IN
    \/ choices = {} /\ Fails(s)
    \/ \E w \in choices :
          scripts' = [scripts EXCEPT ![s] =
              [Fresh EXCEPT !.stage = "create", !.args = args, !.wallet = w,
                            !.id = client_request_id(s, args), !.started = now]]

\* The commands of wallet_runtime.py want the runtime and its agent up, and
\* take the runtime's wallet if none is named.
require_wallet_runtime_ready(s, args) ==
    IF ~wallets[RuntimeWallet].connected THEN Fails(s)
    ELSE scripts' = [scripts EXCEPT ![s] =
             [Fresh EXCEPT !.stage = "create", !.args = args, !.id = client_request_id(s, args),
                           !.wallet = IF args.wallet = Omitted THEN RuntimeWallet
                                      ELSE args.wallet]]

StartScript(s, args) ==
    /\ Stands(s, "new") /\ now <= LastStart
    /\ IF args.kind = "create_account" THEN StartCreate(s, args)
                                       ELSE require_wallet_runtime_ready(s, args)
    /\ UNCHANGED <<now, audit, daemon>>
---------------------------------------------------------------------------
(* The request.                                                            *)

Deadline(timeout) == IF timeout = Omitted THEN Omitted ELSE now + timeout

\* create_request: the same key again is the same request, if it is for the
\* same wallet with the same payload.
Row(s) ==
    [kind |-> scripts[s].args.kind, hint |-> scripts[s].args.hint, wallet |-> scripts[s].wallet,
     status |-> "live", address |-> NoAddress, result |-> FALSE,
     expires_at |-> now + Ttl, result_expires_at |-> 0]

SameRequest(r1, r2) == r1.kind = r2.kind /\ r1.hint = r2.hint /\ r1.wallet = r2.wallet

\* Whether the daemon takes the call: a known request, or one for a wallet
\* that is there.
Accepted(s) ==
    IF scripts[s].id \in DOMAIN requests THEN SameRequest(requests[scripts[s].id], Row(s))
    ELSE wallets[scripts[s].wallet].connected

\* The call of the daemon; the answer may be lost.
CreateRequest(s) ==
    LET id   == scripts[s].id
        next == IF scripts[s].args.kind = "create_account" THEN "created" ELSE "poll"
    IN  /\ Stands(s, "create")
        /\ IF Accepted(s)
           THEN /\ requests' = IF id \in DOMAIN requests THEN requests
                               ELSE Put(requests, id, Row(s))
                /\ \/ Fails(s)
                   \/ scripts' = [scripts EXCEPT ![s].stage = next,
                                    ![s].deadline = Deadline(scripts[s].args.timeout)]
           ELSE Fails(s) /\ UNCHANGED requests
        /\ UNCHANGED <<now, audit, wallets, labels>>

\* The first audit record (the status it shows is left out); the wait begins.
RecordCreated(s) ==
    /\ Stands(s, "created")
    /\ audit' = [audit EXCEPT ![s] = Append(@, [event |-> "created", id |-> scripts[s].id,
                                                status |-> "none", address |-> NoAddress])]
    /\ scripts' = [scripts EXCEPT ![s].stage = "poll",
                                  ![s].deadline = Deadline(scripts[s].args.timeout)]
    /\ UNCHANGED <<now, daemon>>

TimeIsUp(s) == scripts[s].deadline # Omitted /\ now >= scripts[s].deadline

\* What the status answer holds.
Read(row) == IF row.result THEN row.address ELSE NoAddress

\* One poll that ends the wait of run_create_account.py; a timeout stands in
\* for a status.
wait_for_terminal_request(s) ==
    LET row == requests[scripts[s].id] IN
    /\ \/ row.status \in TERMINAL_REQUEST_STATUSES
       \/ row.status = "live" /\ TimeIsUp(s)
    /\ scripts' = [scripts EXCEPT
           ![s].stage = "terminal", ![s].address = Read(row),
           ![s].status = IF row.status = "live" THEN "timeout" ELSE row.status]

\* Mutant: any end of the request is a success.
wait_for_wallet_request_AnyEnd(s) ==
    LET row == requests[scripts[s].id] IN
    \/ /\ row.status \in TERMINAL_REQUEST_STATUSES
       /\ scripts' = [scripts EXCEPT ![s].stage = "ended", ![s].outcome = "done",
                                     ![s].deadline = 0, ![s].status = row.status, ![s].address = Read(row)]
    \/ row.status = "live" /\ TimeIsUp(s) /\ Fails(s)

\* One poll that ends the wait of import-account and export-account.
wait_for_wallet_request(s) ==
    LET row == requests[scripts[s].id] IN
    \/ /\ row.status = "approved" /\ row.result
       /\ scripts' = [scripts EXCEPT ![s].stage = "ended", ![s].outcome = "done",
                                     ![s].deadline = 0, ![s].status = "approved", ![s].address = row.address]
    \/ /\ row.status \in TERMINAL_REQUEST_STATUSES
       /\ ~(row.status = "approved" /\ row.result)
       /\ Fails(s)
    \/ row.status = "live" /\ TimeIsUp(s) /\ Fails(s)

PollStatus(s) ==
    /\ Stands(s, "poll")
    /\ IF scripts[s].args.kind = "create_account" THEN wait_for_terminal_request(s)
                                                  ELSE wait_for_wallet_request(s)
    /\ UNCHANGED <<now, audit, daemon>>

\* The second audit record; anything but an approval ends the run with 1.
RecordTerminal(s) ==
    /\ Stands(s, "terminal")
    /\ audit' = [audit EXCEPT ![s] = Append(@, [event |-> "terminal", id |-> scripts[s].id,
                                                status |-> scripts[s].status,
                                                address |-> scripts[s].address])]
    /\ IF scripts[s].status # "approved" THEN Ends(s, "not_approved")
       ELSE scripts' = [scripts EXCEPT ![s].stage = "refresh"]
    /\ UNCHANGED <<now, daemon>>
---------------------------------------------------------------------------
(* The name of a created account.                                          *)

account_rename_timeout(timeout) ==
    IF timeout = Omitted \/ timeout > RenameTimeout THEN RenameTimeout ELSE timeout

find_account_for_instance(s) == scripts[s].address \in wallets[scripts[s].wallet].listed

\* The listing after the approval.  An approval whose result is gone already is
\* an error; a name is given as soon as the account is listed.
RefreshAccounts(s) ==
    /\ Stands(s, "refresh")
    /\ LET wait == account_rename_timeout(scripts[s].args.timeout)
           named == scripts[s].args.name # Omitted
       IN  \/ scripts[s].address = NoAddress /\ Fails(s)
           \/ scripts[s].address # NoAddress /\ ~named /\ Ends(s, "done")
           \/ /\ scripts[s].address # NoAddress /\ named
              /\ IF find_account_for_instance(s)
                 THEN scripts' = [scripts EXCEPT ![s].stage = "rename"]
                 ELSE IF wait = 0 THEN Ends(s, "done")
                 ELSE scripts' = [scripts EXCEPT ![s].stage = "wait", ![s].deadline = now + wait]
    /\ UNCHANGED <<now, audit, daemon>>

\* One round that ends the wait: the account is listed, or time is up and the
\* run succeeds with a warning.
wait_for_account(s) ==
    \/ /\ find_account_for_instance(s)
       /\ scripts' = [scripts EXCEPT ![s].stage = "rename"]
    \/ ~find_account_for_instance(s) /\ TimeIsUp(s) /\ Ends(s, "done")

WaitForAccount(s) ==
    /\ Stands(s, "wait")
    /\ wait_for_account(s)
    /\ UNCHANGED <<now, audit, daemon>>

\* Mutant: any listed account of the wallet is the one just created.
SetAccountLabel_Any(s) ==
    LET w == scripts[s].wallet IN
    /\ Stands(s, "rename")
    /\ \E address \in wallets[w].listed :
          labels' = Put(labels, <<w, address>>, scripts[s].args.name)
    /\ Ends(s, "done")
    /\ UNCHANGED <<now, audit, requests, wallets>>

\* wallet.setAccountLabel is refused for an account the daemon does not list;
\* an answer that is lost is a warning like a refusal.
SetAccountLabel(s) ==
    LET w == scripts[s].wallet IN
    /\ Stands(s, "rename")
    /\ labels' = IF find_account_for_instance(s)
                 THEN Put(labels, <<w, scripts[s].address>>, scripts[s].args.name) ELSE labels
    /\ Ends(s, "done")
    /\ UNCHANGED <<now, audit, requests, wallets>>
---------------------------------------------------------------------------
(* Faults.                                                                 *)

\* A call fails: the daemon is gone, or takes longer than the client waits.
CallFails(s) ==
    /\ \/ scripts[s].stage \in {"create", "poll", "refresh"} /\ Fails(s)
       \/ scripts[s].stage \in {"wait", "rename"} /\ Ends(s, "done")
    /\ UNCHANGED <<now, audit, daemon>>

\* The user interrupts the script.
InterruptScript(s) ==
    /\ Busy(s)
    /\ Fails(s)
    /\ UNCHANGED <<now, audit, daemon>>
---------------------------------------------------------------------------
(* The daemon and the wallets, as far as the scripts see them.             *)

\* The address of the next account: one after another.
NewAddress ==
    LET taken == UNION {wallets[w].accounts : w \in Wallet}
    IN  {n + 1 : n \in taken \cup {0}} \ taken

\* The wallet carries the request out and reports it.  A new account gets an
\* address of its own; an import or export is of account 0.
Approve(id) ==
    LET row == requests[id]
        w   == row.wallet
    IN  /\ row.status = "live" /\ wallets[w].connected
        /\ \E address \in IF row.kind = "create_account" THEN NewAddress ELSE {0} :
              /\ requests' = [requests EXCEPT ![id] =
                     [row EXCEPT !.status = "approved", !.address = address, !.result = TRUE,
                                 !.result_expires_at = now + ResultRetention]]
              /\ wallets' = [wallets EXCEPT ![w].accounts =
                                IF row.kind = "export_account" THEN @ ELSE @ \cup {address}]
        /\ UNCHANGED <<now, scripts, audit, labels>>

\* The user or the wallet refuses, or somebody cancels the request.
Refuse(id, status) ==
    /\ requests[id].status = "live"
    /\ requests' = [requests EXCEPT ![id].status = status]
    /\ UNCHANGED <<now, scripts, audit, wallets, labels>>

\* tick_maintenance: expiry, and eviction of results.
Expire(id) ==
    /\ requests[id].status = "live" /\ now >= requests[id].expires_at
    /\ requests' = [requests EXCEPT ![id].status = "expired"]
    /\ UNCHANGED <<now, scripts, audit, wallets, labels>>

EvictResult(id) ==
    /\ requests[id].result /\ now >= requests[id].result_expires_at
    /\ requests' = [requests EXCEPT ![id].result = FALSE]
    /\ UNCHANGED <<now, scripts, audit, wallets, labels>>

\* A wallet's snapshot reaches the daemon; a wallet comes or goes.
ListAccounts(w) ==
    /\ wallets[w].connected /\ wallets[w].listed # wallets[w].accounts
    /\ wallets' = [wallets EXCEPT ![w].listed = wallets[w].accounts]
    /\ UNCHANGED <<now, scripts, audit, requests, labels>>

WalletComesOrGoes(w) ==
    /\ w \in Unsteady
    /\ wallets' = [wallets EXCEPT ![w].connected = ~@]
    /\ UNCHANGED <<now, scripts, audit, requests, labels>>

AdvanceClock ==
    /\ \/ now < MaxTime
       \/ \E s \in Script : Busy(s) /\ scripts[s].deadline # Omitted /\ now < scripts[s].deadline
       \/ \E id \in DOMAIN requests : requests[id].status = "live"
                                      /\ now < requests[id].expires_at
    /\ now' = now + 1
    /\ UNCHANGED <<scripts, audit, daemon>>
---------------------------------------------------------------------------
(* The specification.                                                      *)

ScriptInit ==
    /\ now = 0
    /\ scripts = [s \in Script |-> Fresh]
    /\ audit = [s \in Script |-> <<>>]
    /\ requests = <<>> /\ labels = <<>>
    /\ wallets = [w \in Wallet |-> [accounts |-> {}, listed |-> {}, connected |-> TRUE]]

ScriptStep(s) ==
    \/ CreateRequest(s) \/ RecordCreated(s) \/ PollStatus(s) \/ RecordTerminal(s)
    \/ RefreshAccounts(s) \/ WaitForAccount(s) \/ SetAccountLabel(s)

DaemonStep ==
    \E id \in DOMAIN requests :
        \/ Approve(id)
        \/ \E status \in Refusal : Refuse(id, status)
        \/ EvictResult(id)

Maintenance == \E id \in DOMAIN requests : Expire(id)

ScriptNext ==
    \/ \E s \in Script :
          \/ \E args \in Arguments : StartScript(s, args)
          \/ ScriptStep(s) \/ CallFails(s) \/ InterruptScript(s)
    \/ DaemonStep \/ Maintenance
    \/ \E w \in Wallet : ListAccounts(w) \/ WalletComesOrGoes(w)
    \/ AdvanceClock

ScriptSpec == ScriptInit /\ [][ScriptNext]_scriptVars

\* A script whose calls are answered goes on, the daemon's timer runs, and time
\* passes; no call need fail and no wallet need act.
FairScriptSpec ==
    /\ ScriptSpec
    /\ \A s \in Script : WF_scriptVars(ScriptStep(s))
    /\ WF_scriptVars(Maintenance) /\ WF_scriptVars(AdvanceClock)
---------------------------------------------------------------------------
(* Properties.                                                             *)

\* A script that reports an account (exit code 0) has seen its own request, of
\* its own kind and wallet, approved with that account, whatever was shared,
\* lost or evicted on the way: "Do not claim the address exists until the
\* request reaches `approved` and `result.address` is present" (SKILL.md).
ReportedWasApproved ==
    \A s \in Script : scripts[s].outcome = "done" =>
        /\ scripts[s].id \in DOMAIN requests
        /\ LET row == requests[scripts[s].id]
           IN  /\ row.status = "approved" /\ row.address = scripts[s].address
               /\ row.kind = scripts[s].args.kind /\ row.wallet = scripts[s].wallet
        /\ scripts[s].args.kind # "export_account" =>
               scripts[s].address \in wallets[scripts[s].wallet].accounts

\* --account-name: a run gives its name to the account its own request created,
\* once the daemon lists it, although other accounts appear meanwhile.
NamesItsOwnAccount ==
    [][labels' # labels =>
         \E s \in Script :
            /\ scripts[s].stage = "rename" /\ scripts'[s].stage = "ended"
            /\ LET at == <<scripts[s].wallet, requests[scripts[s].id].address>>
               IN  /\ at[2] \in wallets[at[1]].listed
                   /\ labels' = Put(labels, at, scripts[s].args.name)]_scriptVars

\* Two runs report the same new account only if they asked under one key: the
\* key both were given, or the default one of the same second.
SharedOnlyByKey ==
    \A s1, s2 \in Script :
        /\ s1 # s2 /\ scripts[s1].outcome = "done" /\ scripts[s2].outcome = "done"
        /\ scripts[s1].args.kind = "create_account" /\ scripts[s2].args.kind = "create_account"
        /\ scripts[s1].address = scripts[s2].address
        => \/ scripts[s1].args.id # Omitted /\ scripts[s1].args.id = scripts[s2].args.id
           \/ scripts[s1].args.id = Omitted /\ scripts[s1].started = scripts[s2].started

\* A create run that ends by itself with a result has left both audit records,
\* and a terminal record that is not a timeout tells what became of the request.
AuditIsRight ==
    \A s \in Script :
        /\ \A i \in DOMAIN audit[s] :
              audit[s][i].event = "terminal" /\ audit[s][i].status # "timeout" =>
                 requests[audit[s][i].id].status = audit[s][i].status
        /\ /\ scripts[s].outcome \in {"done", "not_approved"}
           /\ scripts[s].args.kind = "create_account"
           => [i \in DOMAIN audit[s] |-> audit[s][i].event] = <<"created", "terminal">>

\* What the create, import and export scripts leave behind is so: an account one
\* of them reports was approved for its own request, two create runs report one
\* account only under one client_request_id, and the audit file agrees with the
\* daemon, apart from the timeouts (ReportedWasApproved, SharedOnlyByKey,
\* AuditIsRight).
ReportsAreSound == ReportedWasApproved /\ SharedOnlyByKey /\ AuditIsRight

\* Every script ends, without a timeout of its own too: the daemon expires the
\* request, and the wait for the listing has a limit.
ScriptsEnd == \A s \in Script : Busy(s) ~> ~Busy(s)

\* README.md of the plugin: "Both audit files record request ids, backend ids,
\* timestamps, and terminal decisions."
AuditRecordsDecisions ==
    \A s \in Script : \A i \in DOMAIN audit[s] :
        audit[s][i].event = "terminal" =>
            audit[s][i].status = requests[audit[s][i].id].status
===========================================================================
