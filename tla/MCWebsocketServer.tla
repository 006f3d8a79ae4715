------------------------- MODULE MCWebsocketServer -------------------------
(***************************************************************************)
(* Instances of WebsocketServer for TLC.                                   *)
(***************************************************************************)
EXTENDS WebsocketServer

============================================================================
