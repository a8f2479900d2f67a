---------------------------- MODULE MCScriptHost ----------------------------
(***************************************************************************)
(* Instances of ScriptHost for TLC: two script goroutines, two            *)
(* datasources with one-connection pools, so that every second Acquire of *)
(* a datasource has to wait.                                               *)
(***************************************************************************)
EXTENDS ScriptHost

CONSTANTS s1, s2, d1, d2

\* Both datasources configured with "timeout".
AllTimeouts == [d \in {d1, d2} |-> TRUE]

=============================================================================
