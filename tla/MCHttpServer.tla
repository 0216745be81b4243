---------------------------- MODULE MCHttpServer -----------------------------
(* Instances of HttpServer. *)
EXTENDS HttpServer

CONSTANTS c1, c2, w1, w2
=============================================================================
