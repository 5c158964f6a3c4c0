----------------------------- MODULE MCToolServer ----------------------------
(* Small instances of ToolServer for TLC. *)
EXTENDS ToolServer, TLC

\* The tokens of a variation resolve to its hash; names are clean.
MCHashOf == [n \in Name |-> CHOOSE h \in VariationHash : TRUE]
MCClean == [n \in Name |-> n]
MCSections == <<"excitations_ports", "setups">>
=============================================================================
