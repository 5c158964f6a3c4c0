---------------------------- MODULE MCBrokerFiles ---------------------------
(* Small instances of BrokerFiles for TLC. *)
EXTENDS BrokerFiles, TLC

Good == [unc |-> FALSE, absolute |-> TRUE, parent |-> TRUE, components |-> <<"plain">>]
\* One path that is acceptable, and one that ends in a space.
OneGoodPath == [good |-> Good,
                aliased |-> [Good EXCEPT !.components = <<"plain", "trailing">>]]
ServerSymmetry == Permutations(Server)
=============================================================================
