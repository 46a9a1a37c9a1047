------------------------ MODULE MCTransferPreflight ------------------------
(***************************************************************************)
(* The risk labels against a definition of the transfers a chain cannot    *)
(* execute.  Starting from an ordinary preview, facts go missing, balances *)
(* and prices differ, codes are spelled differently, a bounded number of   *)
(* changes at a time.                                                      *)
(***************************************************************************)
EXTENDS TransferPreflight

CONSTANTS
    Amount,      \* amounts, balances and prices
    MaxEdits     \* bound: changes to one preview

MCToken == CanonicalStc \cup {"0x2::coin::A", "0x2::coin::AB"}
Itself == {<<t, t>> : t \in MCToken}
PartOfLonger == Itself \cup {<<"0x2::coin::A", "0x2::coin::AB">>}

VARIABLES session, view, edits

preview == <<session, view, edits>>

Coins(code, amount) == <<CoinStore(code, amount)>>
Optional(S) == S \cup {None}

OrdinarySession ==
    [token : {Code(t) : t \in Token}, raw_amount : {1},
     facts : {[token |-> None, gas_token |-> None, gas_unit_price |-> None,
               sequence_number |-> 1, estimated_network_fee |-> 1]},
     raw_txn : {[gas_token |-> Code(Vm2Stc), gas_unit_price |-> 1, sequence_number |-> 1]},
     gas_used : {1}, chain_context : {"main"}, sender : {"alice"}, receiver : {"bob"},
     sender_visible : {TRUE}]

OrdinaryView ==
    [resources : {Coins(Code(t), 2) : t \in Token}, primary : {None, [amount |-> 2]},
     chain_context : {"main"}, node_available : {TRUE}, warnings : {FALSE},
     next_sequence_number_hint : {1}, receiver_exists : {TRUE}]

PreviewInit == session \in OrdinarySession /\ view \in OrdinaryView /\ edits = 0

EditSession ==
    /\ \/ \E n \in Amount : session' = [session EXCEPT !.raw_amount = n]
       \/ \E code \in Optional(TokenCode) : session' = [session EXCEPT !.facts.token = code]
       \/ \E code \in Optional(TokenCode) : session' = [session EXCEPT !.facts.gas_token = code]
       \/ \E code \in Optional(TokenCode) : session' = [session EXCEPT !.raw_txn.gas_token = code]
       \/ \E n \in Optional(Amount) : session' = [session EXCEPT !.facts.estimated_network_fee = n]
       \/ \E n \in Optional(Amount) : session' = [session EXCEPT !.facts.gas_unit_price = n]
       \/ \E n \in Optional(Amount) : session' = [session EXCEPT !.gas_used = n]
       \/ \E n \in Optional(Amount) : session' = [session EXCEPT !.facts.sequence_number = n]
       \/ session' = [session EXCEPT !.receiver = session.sender]
       \/ session' = [session EXCEPT !.sender_visible = FALSE]
    /\ UNCHANGED view

\* A resource name occurs once in an account.
EditView ==
    /\ \/ \E code \in TokenCode, n \in Optional(Amount) :
             /\ \A i \in DOMAIN view.resources :
                    normalize_token_code(view.resources[i].code) # normalize_token_code(code)
             /\ Len(view.resources) < 2
             /\ view' = [view EXCEPT !.resources = @ \o Coins(code, n)]
       \/ \E i \in DOMAIN view.resources, n \in Optional(Amount) :
             view' = [view EXCEPT !.resources[i].amount = n]
       \/ \E n \in Amount : view' = [view EXCEPT !.primary = [amount |-> n]]
       \/ \E n \in Optional(Amount) : view' = [view EXCEPT !.next_sequence_number_hint = n]
       \/ view' = [view EXCEPT !.chain_context = "other"]
       \/ view' = [view EXCEPT !.node_available = FALSE, !.warnings = TRUE]
       \/ view' = [view EXCEPT !.receiver_exists = FALSE]
    /\ UNCHANGED session

Edit == edits < MaxEdits /\ edits' = edits + 1 /\ (EditSession \/ EditView)

\* The next preview.
Afresh ==
    /\ edits = MaxEdits
    /\ session' \in OrdinarySession /\ view' \in OrdinaryView /\ edits' = 0

PreviewSpec == PreviewInit /\ [][Edit \/ Afresh]_preview
---------------------------------------------------------------------------
(* What the chain needs.                                                   *)

\* The amount of a token an account is known to hold: the primary store is the
\* balance of STC, otherwise the store with the token's own name.
Held(code) ==
    LET name  == normalize_token_code(code).name
        named == {i \in DOMAIN view.resources : view.resources[i].code.name = name}
    IN  IF name \in CanonicalStc /\ view.primary # None THEN view.primary.amount
        ELSE IF named = {} THEN None
        ELSE view.resources[CHOOSE i \in named : TRUE].amount

\* What executing the transfer takes, token by token.
Required ==
    LET token == selected_token_code(session)
        gas   == selected_gas_token_code(session)
        fee   == IF estimated_network_fee(session) = None THEN 0
                 ELSE estimated_network_fee(session)
    IN  IF token = gas \/ {token.name, gas.name} \subseteq CanonicalStc
        THEN {<<token, session.raw_amount + fee>>}
        ELSE {<<token, session.raw_amount>>, <<gas, fee>>}

Doomed ==
    \/ view.chain_context # session.chain_context
    \/ ~view.node_available
    \/ /\ view.next_sequence_number_hint # None
       /\ sequence_number(session) # None
       /\ sequence_number(session) < view.next_sequence_number_hint
    \/ \E need \in Required : Held(need[1]) # None /\ Held(need[1]) < need[2]

\* The preview stops exactly the transfers that the facts it was given show to
\* be impossible: a wrong chain, a used sequence number, or a known balance that
\* does not cover amount and fee together when they are paid in one token and
\* each of them when they are not.  Missing facts never stop a transfer.
\* (analyze_preflight.)
BlocksExactlyTheDoomed ==
    has_blocking_risks(analyze_preflight(session, view)) <=> Doomed

\* plugins/starcoin-transfer-workflow/README.md:371: the run "blocks immediately
\* if the preview finds a blocking risk such as RPC unavailability or
\* insufficient balance".  The balance of another token, whose name begins with
\* the token's, is taken for it.
ShortfallStopsTheRun ==
    Doomed => has_blocking_risks(analyze_preflight(session, view))
===========================================================================
