--------------------------- MODULE MCGatewayCache ---------------------------
(***************************************************************************)
(* Three requests (a leader, a follower and one that comes after them) for *)
(* a cached key and an event stream, across one expiry of the cache.       *)
(***************************************************************************)
EXTENDS GatewayCache
=============================================================================
