---------------------------- MODULE MCHttpFetch ----------------------------
(* Instances of HttpFetch for TLC; the constants are in the cfg.             *)
EXTENDS HttpFetch, TLC
=============================================================================
