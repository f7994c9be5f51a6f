--------------------------- MODULE MCProxyRequests ---------------------------
(***************************************************************************)
(* A small instance for TLC.                                               *)
(***************************************************************************)
EXTENDS ProxyProperties
=============================================================================
