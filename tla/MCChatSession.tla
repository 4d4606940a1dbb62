----------------------------- MODULE MCChatSession -----------------------------
(* Small instances of ChatSession for TLC: the .cfg files name the         *)
(* requests.                                                               *)
EXTENDS ChatSession, TLC
=============================================================================
