------------------------------ MODULE MCCwusb ------------------------------
(* Cwusb with the constants the configurations give it.                    *)
EXTENDS Cwusb
=============================================================================
