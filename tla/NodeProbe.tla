----------------------------- MODULE NodeProbe -----------------------------
(***************************************************************************)
(* Startup of the node tool: the capability probe, method by method, and   *)
(* the decision to start.  The endpoint may refuse the parameters a probe  *)
(* sends, lose a reply, or be replaced while it is being probed.           *)
(***************************************************************************)
EXTENDS RpcCalls, FiniteSets

CONSTANTS
    Mode,             \* configurations considered
    Touchy            \* bound: methods that may refuse a probe outright

ASSUME ProbeAssumption ==
    /\ VmProfile \subseteq {"auto", "vm1_only", "vm2_only"}
    /\ Mode \subseteq {"read_only", "transaction"}
    /\ MaxChanges \in Nat

VARIABLES
    mode,
    stage,     \* "probing", "deciding", "identity", "ready" or "failed"
    group,     \* the capability being probed, and the method tried for it
    candidate,
    found,     \* capabilities found so far
    refused,   \* history: the endpoint refused a probe of a method it knows
    ever       \* history: the optional methods the endpoint has known

probeVars == <<vm_profile, mode, offered, changes, stage, group, candidate, found, refused, ever>>
settled == <<vm_profile, mode, offered, changes, ever>>

ByProfile(vm2, vm1) == IF vm_profile = "vm2_only" THEN <<vm2>> ELSE <<vm1>>
Both(op) == transaction_methods(Pairs[op][1], Pairs[op][2])

\* What is probed, in order; the last four for the transaction mode only.  The
\* first three must answer.
Answering == 1 .. 3
Groups ==
    <<<<"node.status">>, <<"chain.info">>, <<"node.info">>,
      <<"chain.get_block_by_number">>,
      <<"chain.get_blocks_by_number">>,
      Both("get_transaction"),
      Both("get_transaction_info"),
      Both("get_events_by_txn_hash"),
      ByProfile("state2.list_resource", "state.get_account_state"),
      <<"chain.get_events">>,
      ByProfile("state2.list_resource", "state.list_resource"),
      ByProfile("state2.list_code", "state.list_code"),
      Both("resolve_function_abi"), Both("resolve_module_abi"), Both("resolve_struct_abi"),
      Both("call_view_function"),
      <<"txpool.gas_price">>, Both("next_sequence_number"), Both("submit_signed_transaction"),
      Both("dry_run_raw")>>

LastGroup == IF mode = "transaction" THEN 20 ELSE 16
BlockLookup == 4
TransactionLookup == 6
Submission == {17, 18, 19}  \* gas price, sequence number and submission together
RawDryRun == 20

---------------------------------------------------------------------------
\* Mutant: any answer at all shows that the method is there.
probe_method_supported_Lenient(reply) ==
    IF reply.ok THEN "yes" ELSE IF reply.retryable THEN "error" ELSE "yes"

\* A method exists if it answers or finds fault with the parameters.
probe_method_supported(reply) ==
    IF reply.ok THEN "yes"
    ELSE IF Missing(reply) THEN "no"
    ELSE IF reply.retryable THEN "error"
    ELSE IF reply.invalid_params THEN "yes" ELSE "no"

NextGroup ==
    /\ candidate' = 1 /\ group' = group + 1
    /\ stage' = IF group < LastGroup THEN "probing" ELSE "deciding"

\* supports_any_method: the next candidate, and then the next capability.
Advance ==
    IF candidate < Len(Groups[group])
    THEN candidate' = candidate + 1 /\ UNCHANGED <<group, stage>>
    ELSE NextGroup

\* One call of the probe.
ProbeCall ==
    LET method == Groups[group][candidate]
        known  == Knows(method)
    IN  /\ stage = "probing"
        /\ \E o \in {o \in Outcome :
                        /\ o.kind = "method not found" => ~known
                        /\ o.kind \in {"answer", "invalid params"} => known
                        /\ o.kind \in {"rpc error", "garbled"} => known /\ method \in Touchy} :
               LET reply   == call(o)
                   verdict == IF group \notin Answering THEN probe_method_supported(reply)
                              ELSE IF reply.ok THEN "yes" ELSE "error"
               IN  /\ \/ verdict = "yes" /\ found' = found \cup {group} /\ NextGroup
                      \/ verdict = "no" /\ Advance /\ UNCHANGED found
                      \/ verdict = "error" /\ stage' = "failed"
                         /\ UNCHANGED <<found, candidate, group>>
                   /\ refused' = (refused \/ (verdict = "no" /\ o.kind # "method not found"))
        /\ UNCHANGED settled

\* startup_probe_timeout.
TimesOut ==
    /\ stage = "probing"
    /\ stage' = "failed"
    /\ UNCHANGED <<settled, group, candidate, found, refused>>

\* What the configured mode cannot do without.
Equipped ==
    /\ {BlockLookup, TransactionLookup} \subseteq found
    /\ mode = "transaction" => Submission \cup {RawDryRun} \subseteq found

Decide ==
    /\ stage = "deciding"
    /\ stage' = IF Equipped THEN "identity" ELSE "failed"
    /\ UNCHANGED <<settled, group, candidate, found, refused>>

\* node.info and chain.info once more, compared with the configured pins.
CheckIdentity ==
    /\ stage = "identity"
    /\ stage' \in {"ready", "failed"}
    /\ UNCHANGED <<settled, group, candidate, found, refused>>
---------------------------------------------------------------------------
ProbeInit ==
    /\ vm_profile \in VmProfile
    /\ mode \in Mode
    /\ offered \in SUBSET Optional
    /\ changes = 0
    /\ stage = "probing"
    /\ group = 1
    /\ candidate = 1
    /\ found = {}
    /\ refused = FALSE
    /\ ever = offered

\* external: the endpoint is replaced by one that offers other methods.
EndpointUpgraded ==
    /\ stage = "probing"
    /\ changes < MaxChanges
    /\ changes' = changes + 1
    /\ offered' \in SUBSET Optional \ {offered}
    /\ ever' = ever \cup offered'
    /\ UNCHANGED <<vm_profile, mode, stage, group, candidate, found, refused>>

ProbeNext == ProbeCall \/ TimesOut \/ Decide \/ CheckIdentity \/ EndpointUpgraded

ProbeSpec == ProbeInit /\ [][ProbeNext]_probeVars

---------------------------------------------------------------------------
\* The probe finds a capability only if one of the methods the profile would
\* use was there at some time; and if the endpoint stayed the same, it misses
\* only a method that refuses the probe outright.
ProbeTellsTheTruth ==
    stage \in {"deciding", "identity", "ready"} =>
        \A g \in 1 .. LastGroup :
            LET there(m) == m \notin Optional \/ m \in ever
                some     == \E i \in DOMAIN Groups[g] : there(Groups[g][i])
            IN  /\ g \in found => some
                /\ some /\ ~refused /\ changes = 0 => g \in found

\* The transaction mode never starts without a method to look a transaction up,
\* to read a sequence number, to simulate and to submit on the configured
\* surface, whatever was refused or replaced while it was probing.
StartupFailsClosed ==
    stage = "ready" /\ mode = "transaction" =>
        \A op \in {"get_transaction", "next_sequence_number", "submit_signed_transaction",
                   "dry_run_raw"} :
            \E i \in DOMAIN Both(op) : Both(op)[i] \notin Optional \/ Both(op)[i] \in ever

\* rpc.probe finds a capability only if a method the profile would use was there
\* at some time, and misses only one that refuses the probe; so
\* AppContext::bootstrap never starts the transaction mode without a method to
\* look up, to read a sequence number, to simulate and to submit
\* (ProbeTellsTheTruth, StartupFailsClosed).
StartupIsSound == ProbeTellsTheTruth /\ StartupFailsClosed
=============================================================================
