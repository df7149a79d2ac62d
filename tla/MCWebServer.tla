------------------------------ MODULE MCWebServer ------------------------------
(* WebServer with few threads and clients: the instances TLC explores. *)
EXTENDS WebServer
===============================================================================
