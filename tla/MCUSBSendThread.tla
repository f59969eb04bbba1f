-------------------------- MODULE MCUSBSendThread --------------------------
(***************************************************************************)
(* USBSendThread with the real packet sizes and frame lengths around the   *)
(* packet boundaries: nothing, one byte, exactly one packet, one byte more *)
(* than one packet, exactly two packets, and the longest frame.            *)
(***************************************************************************)
EXTENDS USBSendThread

MCLengths == {0, 1, 488, 489, 992, 2304}
=============================================================================
