---------------------------- MODULE MCAppSessions ---------------------------
(***************************************************************************)
(* Small instances of AppSessions: all sessions belong to one app, as those *)
(* of linked devices, or of a socket and its successor, do.                 *)
(***************************************************************************)
EXTENDS AppSessions

CONSTANT appA

MCappOf == [c \in Conn |-> appA]
=============================================================================
