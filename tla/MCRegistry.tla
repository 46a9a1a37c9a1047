---------------------------- MODULE MCRegistry ----------------------------
(* Small instances of the wallet registry and its queries for TLC.  A       *)
(* scenario chooses how many wallets and accounts take part and until when: *)
(* all of them at once are out of TLC's reach.                              *)
EXTENDS WalletQueries

CONSTANTS w1, a1

VARIABLE scenario

Publishing(S) == {s \in Snapshots : Exposed(s.accounts) \subseteq S}

Unlabelled == \A w \in WalletId, a \in Address : labels[w][a].label \notin Label

MCInit == RegistryInit /\ scenario \in {"labels", "routing"}

MCNext ==
    /\ UNCHANGED scenario
    /\ \/ scenario = "labels" /\ RegistryStep({w1}, Snapshots, Label) /\ now' = 1
       \/ scenario = "routing" /\ RegistryStep(WalletId, Publishing({a1}), {}) /\ Unlabelled'

MCSpec == MCInit /\ [][MCNext]_<<now, registryVars, scenario>>
===========================================================================
