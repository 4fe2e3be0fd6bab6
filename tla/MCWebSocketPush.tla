-------------------------- MODULE MCWebSocketPush ---------------------------
(* Three browsers, a server that keeps two, and a clock of ten values on    *)
(* which a push is due after three.                                         *)
EXTENDS WebSocketPush
=============================================================================
