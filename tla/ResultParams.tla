--------------------------- MODULE ResultParams ---------------------------
(***************************************************************************)
(* The flat parameters of request.resolve: a result_kind beside every      *)
(* field some kind of result uses.  Three programs handle them: the agent  *)
(* fills them in, the native host checks what an extension filled in, and  *)
(* the daemon turns them into the result it stores.  A field is absent,    *)
(* blank (white space only) or set; curves and flags are never blank.      *)
(***************************************************************************)
EXTENDS RequestTypes, FiniteSets, Integers

CONSTANT MaxEdits   \* bound: how far a sender strays from a proper answer

ParamsAssumption == MaxEdits \in Nat

VARIABLES params, edits

AccountText(part) == {part} \X {"address", "public_key"}
AccountFlags(part) == {part} \X {"curve", "is_default", "is_locked"}

\* The fields of each kind of result.
FieldsOf(kind) ==
    CASE kind = "signed_transaction" -> {<<"signed", "txn_bcs_hex">>}
      [] kind = "signed_message"     -> {<<"signed", "signature">>}
      [] kind = "created_account"    -> AccountText("created") \cup AccountFlags("created")
      [] kind = "exported_account"   -> {"exported"} \X {"address", "output_file"}
      [] kind = "imported_account"   -> AccountText("imported") \cup AccountFlags("imported")
      [] kind = "none"               -> {}

Field == UNION {FieldsOf(kind) : kind \in ResultKind}
Unblankable == AccountFlags("created") \cup AccountFlags("imported")

\* The agent's resolve_request: the fields of the kind, and no other.
resolve_request(kind) ==
    [result_kind |-> kind,
     field |-> [f \in Field |-> IF f \in FieldsOf(kind) THEN "set" ELSE "absent"]]

\* Mutant: fields of another kind pass.
validate_request_resolve_params_Extra(p) ==
    /\ p.result_kind # "none"
    /\ \A f \in FieldsOf(p.result_kind) : p.field[f] = "set"

\* The native host forwards a result only with the fields of its kind, none of
\* them blank, and without any other field.
validate_request_resolve_params(p) ==
    /\ p.result_kind # "none"
    /\ \A f \in FieldsOf(p.result_kind) : p.field[f] = "set"
    /\ \A f \in Field \ FieldsOf(p.result_kind) : p.field[f] = "absent"

\* The daemon's result: every field of the kind must be there, blank or not;
\* fields of other kinds are ignored.
request_result_from_params(p) ==
    IF p.result_kind # "none" /\ \A f \in FieldsOf(p.result_kind) : p.field[f] # "absent"
    THEN [kind  |-> p.result_kind,
          blank |-> {f \in FieldsOf(p.result_kind) : p.field[f] = "blank"}]
    ELSE [kind |-> "refused", blank |-> {}]
---------------------------------------------------------------------------
(* Senders: a proper answer, with a few fields or the kind wrong.          *)

ParamsInit ==
    /\ edits = 0
    /\ \E kind \in ResultKind : params = resolve_request(kind)

Edit ==
    /\ edits < MaxEdits
    /\ edits' = edits + 1
    /\ \/ \E f \in Field, value \in {"absent", "blank", "set"} :
             /\ value = "blank" => f \notin Unblankable
             /\ params' = [params EXCEPT !.field[f] = value]
       \/ \E kind \in ResultKind \cup {"none"} :
             params' = [params EXCEPT !.result_kind = kind]

\* The next answer.
Answer ==
    /\ edits' = 0
    /\ \E kind \in ResultKind : params' = resolve_request(kind)

ParamsSpec == ParamsInit /\ [][Edit \/ Answer]_<<params, edits>>
---------------------------------------------------------------------------
(* Properties.                                                             *)

\* The two checks agree: what the native host lets through the daemon accepts,
\* as the kind that was sent, and it stores all of it: no field is blank and
\* none that the extension sent is dropped.
BridgeAgreesWithDaemon ==
    validate_request_resolve_params(params) =>
        LET result == request_result_from_params(params)
        IN  /\ result.kind = params.result_kind
            /\ result.blank = {}
            /\ \A f \in Field : params.field[f] # "absent" => f \in FieldsOf(result.kind)

\* A result is never taken for another kind: the daemon stores one of the kind
\* that was sent or refuses, and refuses only if the native host would as well.
KindIsKept ==
    LET result == request_result_from_params(params)
    IN  /\ result.kind \in {params.result_kind, "refused"}
        /\ result.kind = "refused" => ~validate_request_resolve_params(params)
===========================================================================
