--------------------------- MODULE RequestTypes ---------------------------
(***************************************************************************)
(* The vocabulary of the wallet request runtime: request kinds, statuses,  *)
(* capabilities and reject reasons (starmask-types), with the pure tables  *)
(* the coordinator reads off them (starmask-core).  Enum values are        *)
(* written as the snake_case strings the code serialises them to.          *)
(***************************************************************************)

RequestKind == {"sign_transaction", "sign_message", "create_account",
                "export_account", "import_account"}

\* Kinds that change the wallet itself instead of signing with an account.
MutationKind == {"create_account", "import_account"}

RequestStatus == {"created", "dispatched", "pending_user_approval", "approved",
                  "rejected", "expired", "cancelled", "failed"}

is_terminal(status) ==
    status \in {"approved", "rejected", "expired", "cancelled", "failed"}

can_transition_to(status, next) ==
    \/ /\ status = "created"
       /\ next \in {"dispatched", "cancelled", "expired", "failed"}
    \/ /\ status = "dispatched"
       /\ next \in {"created", "pending_user_approval", "cancelled", "expired",
                    "failed"}
    \/ /\ status = "pending_user_approval"
       /\ next \in {"created", "approved", "rejected", "cancelled", "expired",
                    "failed"}

ResultKind == {"signed_transaction", "signed_message", "created_account",
               "exported_account", "imported_account"}

expected_result_kind(kind) ==
    CASE kind = "sign_transaction" -> "signed_transaction"
      [] kind = "sign_message"     -> "signed_message"
      [] kind = "create_account"   -> "created_account"
      [] kind = "export_account"   -> "exported_account"
      [] kind = "import_account"   -> "imported_account"

LockState == {"locked", "unlocked", "unknown"}

WalletCapability == RequestKind \cup {"unlock", "get_public_key"}

\* Each kind needs the capability of the same name.
capability_for_request(kind) == kind

\* What register_extension and update_extension_accounts advertise for every
\* browser extension.
ExtensionCapabilities == {"get_public_key", "sign_message", "sign_transaction"}

RejectReasonCode == {"request_rejected", "request_expired", "wallet_locked",
                     "unsupported_operation", "invalid_transaction_payload",
                     "invalid_message_payload", "backend_unavailable",
                     "backend_policy_blocked", "internal_error"}

\* The error code a reject reason is stored as.
RejectErrorCode(reason) ==
    IF reason = "internal_error" THEN "internal_bridge_error" ELSE reason

FailureCode == {RejectErrorCode(reason) : reason \in
                    RejectReasonCode \ {"request_rejected", "request_expired"}}

SharedErrorCode == FailureCode \cup
                   {"request_rejected", "request_expired", "request_cancelled"}

map_reject_reason(reason) ==
    [status |-> CASE reason = "request_rejected" -> "rejected"
                  [] reason = "request_expired"  -> "expired"
                  [] OTHER                       -> "failed",
     error  |-> RejectErrorCode(reason)]
===========================================================================
