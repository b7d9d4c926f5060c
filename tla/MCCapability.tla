---------------------------- MODULE MCCapability ----------------------------
(* Capability for TLC: pages of two PIDs, one of each without a decoder.   *)
EXTENDS Capability

SomeDecodable == {1, 3, 6}
=============================================================================
