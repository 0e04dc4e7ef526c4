----------------------------- MODULE MCChatServer -----------------------------
(* Three requests: two that may miss the cache together, one that may come *)
(* after them.  A token of az has two or three minutes left.                *)
EXTENDS ChatServer

CONSTANTS r1, r2, r3

MCRequests == {r1, r2, r3}
MCLifetimes == {2, 3}
=============================================================================
