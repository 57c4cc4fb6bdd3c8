--------------------------- MODULE CommonValues ----------------------------
(***************************************************************************)
(* What the modules of the console and of the API keys have in common.     *)
(***************************************************************************)
CONSTANT None  \* nothing: null, undefined, '', an absent field or row
=============================================================================
