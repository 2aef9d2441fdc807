------------------------------- MODULE MCWifi -------------------------------
(* A small instance of WifiManager for TLC: a scan of three hosts. *)
EXTENDS WifiManager
=============================================================================
