----------------------------- MODULE MCTerminal -----------------------------
(* TerminalSessions for model checking: two chats. *)
EXTENDS TerminalSessions, TLC

MCChatOf == <<"g1", "g2", "g1">>
=============================================================================
