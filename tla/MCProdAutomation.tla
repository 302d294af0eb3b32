--------------------------- MODULE MCProdAutomation ---------------------------
(* Instances of ProdAutomation for TLC. *)
EXTENDS ProdAutomation
=============================================================================
