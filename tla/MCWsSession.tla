----------------------------- MODULE MCWsSession -----------------------------
(***************************************************************************)
(* WsSession and EventStream with one websocket and one event stream.      *)
(***************************************************************************)
EXTENDS WsSession
=============================================================================
