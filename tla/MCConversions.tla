--------------------------- MODULE MCConversions ---------------------------
(***************************************************************************)
(* The pure algorithms for TLC, each over the inputs of a bounded size:    *)
(* the preview of a transfer (part "preview"), the amount a user types     *)
(* ("amount"), the parameters of a result ("params") and the text of a     *)
(* prompt ("prompt").  The input of one part grows, the others rest.       *)
(***************************************************************************)
EXTENDS MCTransferPreflight

VARIABLES text, unit, is_stc, params, strayed, value, part

Amounts ==
    INSTANCE TransferAmounts WITH Digit <- {0, 1, 9}, FractionDigits <- 3, MaxLength <- 6

\* The parameters start from a proper answer and stray from it.
Params == INSTANCE ResultParams WITH edits <- strayed

\* A card of eight characters, and labels that leave it one to eight.
Prompt ==
    INSTANCE PromptText WITH
        Char <- {"BS", "n", "u", "{", "1", "b", "}", "NL", "ESC"},
        PrefixWidth <- {0, 5, 7}, INNER_WIDTH <- 8, MaxLength <- 6

ASSUME Amounts!AmountAssumption /\ Params!ParamsAssumption /\ Prompt!PromptAssumption

amountVars == <<text, unit, is_stc>>
paramVars == <<params, strayed>>

MCInit ==
    /\ part \in {"preview", "amount", "params", "prompt"}
    /\ IF part = "preview" THEN PreviewInit
       ELSE /\ session = CHOOSE s \in OrdinarySession : TRUE
            /\ view = CHOOSE v \in OrdinaryView : TRUE
            /\ edits = 0
    /\ IF part = "amount" THEN Amounts!AmountInit
       ELSE text = <<>> /\ unit = "raw" /\ is_stc = TRUE
    /\ IF part = "params" THEN Params!ParamsInit
       ELSE params = Params!resolve_request("signed_message") /\ strayed = 0
    /\ Prompt!PromptInit

MCNext ==
    /\ UNCHANGED part
    /\ \/ /\ part = "preview" /\ (Edit \/ Afresh)
          /\ UNCHANGED <<amountVars, paramVars, value>>
       \/ /\ part = "amount" /\ ((\E c \in Amounts!Char : Amounts!Type(c)) \/ Amounts!Clear)
          /\ UNCHANGED <<preview, paramVars, value>>
       \/ /\ part = "params" /\ (Params!Edit \/ Params!Answer)
          /\ UNCHANGED <<preview, amountVars, value>>
       \/ /\ part = "prompt" /\ Prompt!PromptNext
          /\ UNCHANGED <<preview, amountVars, paramVars>>

MCSpec == MCInit /\ [][MCNext]_<<preview, amountVars, paramVars, value, part>>
---------------------------------------------------------------------------
\* A transfer is read as the user means it: an amount that
\* normalize_transfer_amount accepts is worth exactly what was typed, and the
\* preview blocks exactly the transfers that are bound to fail
\* (AmountIsExact, BlocksExactlyTheDoomed).
TransferIsJudgedRight ==
    /\ part = "amount" => Amounts!AmountIsExact
    /\ part = "preview" => BlocksExactlyTheDoomed

\* What the native host's validate_request_resolve_params lets through, the
\* daemon's request_result_from_params accepts as the kind that was sent and
\* stores without loss; and the daemon takes no result for another kind
\* (BridgeAgreesWithDaemon, KindIsKept).
ResultsCrossTheBridge ==
    part = "params" => Params!BridgeAgreesWithDaemon /\ Params!KindIsKept

\* The card shows what will be signed: sanitize_for_tty's text can be read in one
\* way only, the raw view shows every character wherever its lines break, and a
\* summary that leaves something out says so (ShownIsUnambiguous,
\* RawViewIsComplete, SummaryTellsTheCut).
CardTellsTheWhole ==
    part = "prompt" =>
        Prompt!ShownIsUnambiguous /\ Prompt!RawViewIsComplete /\ Prompt!SummaryTellsTheCut
===========================================================================
