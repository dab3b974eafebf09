-------------------------------- MODULE Keys --------------------------------
(***************************************************************************)
(* Primary keys that the tables of several parts refer to.                 *)
(***************************************************************************)
CONSTANTS
    Users,          \* of user
    Apps,           \* of oauth_client
    None
=============================================================================
