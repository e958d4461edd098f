--------------------------- MODULE MCSecureBroker ---------------------------
(* Instances of SecureBroker for TLC; the configurations hold the policies. *)
EXTENDS SecureBroker, TLC

BrokerSymmetry == Permutations(Broker)
=============================================================================
