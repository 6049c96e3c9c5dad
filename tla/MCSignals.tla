----------------------------- MODULE MCSignals -----------------------------
(* TLC instance of Signals. *)
EXTENDS Signals

Function(mask, nodefer) == [sa_handler |-> "function", sa_mask |-> mask, nodefer |-> nodefer]

\* SIGHUP comes before SIGKILL and SIGALRM after it.
MCSignals == {1, SIGKILL, SIGSEGV, SIGALRM}
MCTables == {[s \in MCSignals |-> IF s \in {1, SIGSEGV} THEN Function({}, FALSE) ELSE Default]}
MCInstalls == {<<1, Function({SIGKILL, SIGALRM}, TRUE)>>, <<SIGKILL, Function({}, FALSE)>>,
               <<SIGALRM, Function({}, FALSE)>>, <<1, [Default EXCEPT !.sa_handler = "SIG_IGN"]>>}
MCSets == {MCSignals}
MCTimers == {<<1, 0>>, <<0, 1>>}
=============================================================================
