---------------------------- MODULE MCSupervisor ----------------------------
(* The supervisor with two table entries: FDIR and one monitored role.     *)
EXTENDS Supervisor

RestartOnly == {"RESTART"}
AllCommands == {"RESTART", "SHUTDOWN"}

=============================================================================
