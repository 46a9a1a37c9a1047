------------------------- MODULE TransferPreflight -------------------------
(***************************************************************************)
(* The preview a transfer run computes before it asks for a signature:     *)
(* the node's account overview, the host's search for the sender's         *)
(* balances in it, and the risk labels, some of which stop the run.        *)
(*                                                                         *)
(* A token code is a name in one of two spellings (0x1::A::B with or       *)
(* without leading zeros).  Numbers the node may leave out are None.       *)
(***************************************************************************)
EXTENDS Integers, Sequences

CONSTANTS
    None,        \* an optional value that is missing
    Token,       \* names of tokens, the two codes of STC among them
    Within       \* pairs <<t, u>>: the name of t is a part of the name of u

Vm1Stc == "0x1::STC::STC"
Vm2Stc == "0x1::starcoin_coin::STC"
CanonicalStc == {Vm1Stc, Vm2Stc}

ASSUME TokenAssumption == CanonicalStc \subseteq Token

TokenCode == [name : Token, padded : BOOLEAN]
Code(t) == [name |-> t, padded |-> FALSE]
prefer(primary, fallback) == IF primary # None THEN primary ELSE fallback
---------------------------------------------------------------------------
(* Token codes.                                                            *)

normalize_token_code(code) == [code EXCEPT !.padded = FALSE]

is_stc_like_token(code) == normalize_token_code(code).name \in CanonicalStc

\* Mutant: the two codes of STC are different tokens.
token_codes_match_Literal(left, right) ==
    normalize_token_code(left) = normalize_token_code(right)

token_codes_match(left, right) ==
    \/ normalize_token_code(left) = normalize_token_code(right)
    \/ is_stc_like_token(left) /\ is_stc_like_token(right)
---------------------------------------------------------------------------
(* The node's overview.  An account's resources hold a coin store for each *)
(* token; the primary store of STC, if there is one, is listed first and   *)
(* stands for the coin store of STC.                                       *)

CoinStore(code, amount) == [kind |-> "coin_store", code |-> code, amount |-> amount]
PrimaryStore(amount) == [kind |-> "primary", code |-> Code(Vm2Stc), amount |-> amount]

balances(resources, primary) ==
    IF primary = None THEN resources
    ELSE <<PrimaryStore(primary.amount)>>
             \o SelectSeq(resources, LAMBDA e : e.code.name # Vm2Stc)

\* Coin stores name their token; the overview adds STC for the primary store.
accepted_tokens(resources, primary) ==
    {resources[i].code : i \in DOMAIN resources}
        \cup (IF primary = None THEN {} ELSE {Code(Vm2Stc)})
---------------------------------------------------------------------------
(* The host's search.  The name of the token occurs in the entry's name,   *)
(* or the entry is the primary store and the token is STC.                 *)

balance_entry_matches_token(entry, code) ==
    LET token == normalize_token_code(code).name
    IN  \/ entry.kind = "coin_store" /\ <<token, entry.code.name>> \in Within
        \/ entry.kind = "primary" /\ token \in CanonicalStc

find_balance_for_token(entries, code) ==
    LET usable == SelectSeq(entries, LAMBDA e :
                      balance_entry_matches_token(e, code) /\ e.amount # None)
    IN  IF usable = <<>> THEN None ELSE Head(usable).amount

token_present_in_accepted_tokens(code, tokens) ==
    \E candidate \in tokens : token_codes_match(code, candidate)
---------------------------------------------------------------------------
(* What the prepared transaction says.                                     *)

selected_token_code(s) == normalize_token_code(prefer(s.facts.token, s.token))

selected_gas_token_code(s) ==
    LET named == prefer(s.facts.gas_token, s.raw_txn.gas_token)
    IN  IF named # None THEN normalize_token_code(named)
        ELSE IF is_stc_like_token(selected_token_code(s)) THEN selected_token_code(s)
        ELSE Code(Vm2Stc)

gas_unit_price(s) == prefer(s.facts.gas_unit_price, s.raw_txn.gas_unit_price)
sequence_number(s) == prefer(s.facts.sequence_number, s.raw_txn.sequence_number)

estimated_network_fee(s) ==
    IF s.facts.estimated_network_fee # None THEN s.facts.estimated_network_fee
    ELSE IF gas_unit_price(s) # None /\ s.gas_used # None
         THEN gas_unit_price(s) * s.gas_used
    ELSE None
---------------------------------------------------------------------------
(* The risk labels.                                                        *)

BlockingRisk == {"chain_context_mismatch", "rpc_unavailable",
                 "insufficient_token_balance", "insufficient_balance_for_amount_and_fee",
                 "insufficient_gas_balance", "nonce_advanced_after_prepare"}
WarningRisk == {"rpc_health_warning", "sender_equals_receiver",
                "sender_not_visible_in_wallet", "sender_balance_unknown",
                "token_balance_not_visible", "gas_balance_unknown"}
InfoRisk == {"fee_estimate_unavailable", "receiver_account_not_initialized"}
Risk == BlockingRisk \cup WarningRisk \cup InfoRisk

\* s: the session; v: what chain_status, node_health and the two overviews say.
analyze_preflight(s, v) ==
    LET token    == selected_token_code(s)
        gas      == selected_gas_token_code(s)
        entries  == balances(v.resources, v.primary)
        balance  == find_balance_for_token(entries, token)
        gas_balance == find_balance_for_token(entries, gas)
        fee      == estimated_network_fee(s)
        one_token == token_codes_match(token, gas)
        listed   == token_present_in_accepted_tokens(
                        token, accepted_tokens(v.resources, v.primary))
        applies(risk) ==
          CASE risk = "chain_context_mismatch"       -> v.chain_context # s.chain_context
            [] risk = "rpc_unavailable"              -> ~v.node_available
            [] risk = "rpc_health_warning"           -> v.warnings
            [] risk = "sender_equals_receiver"       -> s.sender = s.receiver
            [] risk = "sender_not_visible_in_wallet" -> ~s.sender_visible
            [] risk = "sender_balance_unknown"       -> balance = None /\ listed
            [] risk = "token_balance_not_visible"    -> balance = None /\ ~listed
            [] risk = "insufficient_token_balance"   ->
                   balance # None /\ balance < s.raw_amount
            [] risk = "fee_estimate_unavailable"     -> fee = None
            [] risk = "insufficient_balance_for_amount_and_fee" ->
                   /\ fee # None /\ one_token
                   /\ balance # None /\ balance < s.raw_amount + fee
            [] risk = "gas_balance_unknown"          ->
                   fee # None /\ ~one_token /\ gas_balance = None
            [] risk = "insufficient_gas_balance"     ->
                   fee # None /\ ~one_token /\ gas_balance # None /\ gas_balance < fee
            [] risk = "nonce_advanced_after_prepare" ->
                   /\ sequence_number(s) # None /\ v.next_sequence_number_hint # None
                   /\ v.next_sequence_number_hint > sequence_number(s)
            [] risk = "receiver_account_not_initialized" -> ~v.receiver_exists
    IN  {risk \in Risk : applies(risk)}

has_blocking_risks(report) == report \cap BlockingRisk # {}
===========================================================================
