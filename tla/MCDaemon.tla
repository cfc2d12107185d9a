------------------------------ MODULE MCDaemon ------------------------------
(* Small instances of Daemon for TLC.                                        *)
EXTENDS Daemon

CONSTANTS c1, c2, c3
=============================================================================
