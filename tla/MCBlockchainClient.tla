--------------------------- MODULE MCBlockchainClient ---------------------------
(* Two requests and the limits of core/constants.py, with seconds scaled: the *)
(* pause outlasts the backoffs, as 60 seconds outlast 1 and 2.                *)
EXTENDS BlockchainClient
=============================================================================
