----------------------------- MODULE MCHttpSession -----------------------------
(* HttpSession with a short queue: the instances TLC explores. *)
EXTENDS HttpSession
===============================================================================
