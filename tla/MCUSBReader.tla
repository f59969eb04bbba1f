---------------------------- MODULE MCUSBReader ----------------------------
(***************************************************************************)
(* USBReader on small instances: the properties its runs check.            *)
(***************************************************************************)
EXTENDS USBReader

=============================================================================
