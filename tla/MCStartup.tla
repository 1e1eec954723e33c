----------------------------- MODULE MCStartup -----------------------------
(* A small instance of Startup for TLC; the handlers are interchangeable but  *)
(* no symmetry is used, as a liveness property is checked.                    *)
EXTENDS Startup
=============================================================================
