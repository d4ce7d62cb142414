---------------------------- MODULE MCAppDaemon ----------------------------
(* The app daemon with two clients, a few requests and one crash.  The     *)
(* clients are alike, but liveness is checked, so there is no symmetry.    *)
EXTENDS AppDaemon
=============================================================================
