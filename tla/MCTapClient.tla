---------------------------- MODULE MCTapClient ----------------------------
(* A small instance of TapClient: two networks, so that a stale network id  *)
(* can be told from the granted one.                                        *)
EXTENDS TapClient

MCNetworks == {1, 2}
=============================================================================
