--------------------------- MODULE MCOnlineState ----------------------------
(***************************************************************************)
(* Instances of OnlineState: one query with documents in the cache.        *)
(***************************************************************************)
EXTENDS OnlineState, TLC

CONSTANTS list, profile, users

=============================================================================
