--------------------------- MODULE MCShellsBridge ---------------------------
(***************************************************************************)
(* Two runs, which may share a session or not, and two sockets: enough for *)
(* a call, an answer or an update to outlive its run and its connection.   *)
(***************************************************************************)
EXTENDS ShellsBridge

CONSTANTS s1, s2, w1, w2
=============================================================================
