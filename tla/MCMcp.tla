-------------------------------- MODULE MCMcp --------------------------------
(* Instance of McpBroker for TLC: one login, since logins share nothing but the purge. *)
EXTENDS McpBroker

=============================================================================
