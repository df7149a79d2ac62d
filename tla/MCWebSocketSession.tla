-------------------------- MODULE MCWebSocketSession --------------------------
(* WebSocketSession with few messages: the instances TLC explores. *)
EXTENDS WebSocketSession
===============================================================================
