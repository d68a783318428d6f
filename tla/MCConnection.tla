---------------------------- MODULE MCConnection ----------------------------
(* The dial of a node and the DRPC connection on it, for TLC. *)
EXTENDS DrpcConn

\* Any sequence of calls, or a long answer to a sender.
MCBudgets == {[kinds |-> Calls, calls |-> 3, replies |-> 2],
              [kinds |-> {"open", "send"}, calls |-> 2, replies |-> 3]}
=============================================================================
