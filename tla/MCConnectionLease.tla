------------------------- MODULE MCConnectionLease -------------------------
(***************************************************************************)
(* Connections of two processes.  The unit of time is 12.5 s: a TTL of     *)
(* 75 s is 6, leases are refreshed every 2.  The clock of one process is   *)
(* ahead by the most that ClockAssumption allows.  The two compete for one *)
(* lease until an abandoned key has expired.                               *)
(***************************************************************************)
EXTENDS ConnectionLease

CONSTANTS c1, c2

MCConnections == {c1, c2}
MCSkew == [c \in MCConnections |-> IF c = c2 THEN 1 ELSE 0]
=============================================================================
