------------------------ MODULE MCXLinkKaiConnection ------------------------
(* XLinkKaiConnection with the constants the configurations give it.       *)
EXTENDS XLinkKaiConnection
=============================================================================
