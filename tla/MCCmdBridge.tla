----------------------------- MODULE MCCmdBridge ------------------------------
(* Values for the constants of CmdBridge: a unit of time is 0.1 s.         *)
EXTENDS CmdBridge

MCTwists == {<<0, 0>>, <<9, 0>>, NonFinite}

\* without a zero command, where the state space is large already
MCFewTwists == {<<9, 0>>, NonFinite}
=============================================================================
