----------------------------- MODULE MCWebServer -----------------------------
(* Two connections for WebServer.cfg: three handles that can be opened, and *)
(* pages whose includes go deeper than bffiles.                             *)
EXTENDS WebServer

TwoConns == {"c1", "c2"}
=============================================================================
