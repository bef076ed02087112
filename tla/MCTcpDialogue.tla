---------------------------- MODULE MCTcpDialogue ----------------------------
(***************************************************************************)
(* TcpDialogue for TLC: each form with its counterpart, the one-process    *)
(* client with every server, the blocking client with fork_work.           *)
(***************************************************************************)
EXTENDS TcpDialogue

MCPairings == {<<"fork_block", "block">>, <<"fork_block", "nofork">>, <<"fork", "block">>,
               <<"fork", "fork">>, <<"fork", "nofork">>, <<"nofork", "nofork">>}
=============================================================================
