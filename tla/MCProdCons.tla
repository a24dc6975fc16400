----------------------------- MODULE MCProdCons -----------------------------
(* ProdCons for TLC. *)
EXTENDS ProdCons, TLC
=============================================================================
