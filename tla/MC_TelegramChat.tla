--------------------------- MODULE MC_TelegramChat ---------------------------
(* Two messages of the chat handled at once, one RemoveValidator query,   *)
(* three app user ids (the chat's and one for each message), one failing  *)
(* statement.                                                              *)
EXTENDS TelegramChat
=============================================================================
