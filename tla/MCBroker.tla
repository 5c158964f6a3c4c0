------------------------------ MODULE MCBroker ------------------------------
(* Small instances of Broker for TLC. *)
EXTENDS Broker, TLC

\* One capability of each tier.  Only safe ones ship.
EachTier == [look |-> "safe", change |-> "medium", remove |-> "high"]
=============================================================================
