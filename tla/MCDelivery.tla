---------------------------- MODULE MCDelivery ----------------------------
(* Small instances of the delivery for TLC.                                 *)
EXTENDS Delivery

AllKinds == {"udp", "mcast", "file", "http"}
OneOrTwo == {{1}, {1, 2}}
=============================================================================
