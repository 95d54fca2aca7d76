-------------------------- MODULE MCNetworkCapture --------------------------
(* Instances of NetworkCapture for TLC.                                    *)
EXTENDS NetworkCapture
=============================================================================
