-------------------------------- MODULE MCCli --------------------------------
(* Cli for TLC: codes are 1..N, and two cables that both look like a KKL.  *)
EXTENDS Cli

FewCodes  == 1..2
SomeCodes == 1..3
Cables    == {"usb0", "usb1"}
=============================================================================
