----------------------------- MODULE MCSession ------------------------------
(* Session for TLC; its constants are model values, given in the cfg.        *)
EXTENDS Session
=============================================================================
