------------------------------ MODULE MCDaemon ------------------------------
(* Model checking of Daemon: two runs of mitos-pkgd, two connections. *)
EXTENDS Daemon

\* Every method of DaemonClient takes for an answer what dispatch answers.
ASSUME TablesAgree == \A op \in Request : Expects(op) = Replies[op]
=============================================================================
