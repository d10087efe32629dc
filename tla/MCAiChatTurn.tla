---------------------------- MODULE MCAiChatTurn ----------------------------
(* Instances of AiChatTurn small enough for TLC.                            *)
EXTENDS AiChatTurn

CONSTANTS c1, c2
=============================================================================
