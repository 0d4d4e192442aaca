-------------------------- MODULE MCIRCConnection --------------------------
(* One IRC connection, dialled a few times, for TLC. *)
EXTENDS IRCConnection
=============================================================================
