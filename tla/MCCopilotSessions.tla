-------------------------- MODULE MCCopilotSessions --------------------------
(* Three requests over two session ids: two of them always share an id.    *)
EXTENDS CopilotSessions

CONSTANTS r1, r2, r3, a, b

MCRequests == {r1, r2, r3}
MCSessionIds == {a, b}
=============================================================================
