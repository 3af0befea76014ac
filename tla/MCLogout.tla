------------------------------ MODULE MCLogout ------------------------------
(* Instance of LogoutDialog for TLC. *)
EXTENDS LogoutDialog

=============================================================================
