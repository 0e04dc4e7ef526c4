---------------------------- MODULE MCMcpFrontEnd ----------------------------
(* Three requests that all carry the same JSON-RPC id.                     *)
EXTENDS McpFrontEnd

CONSTANTS p1, p2, p3, id

MCPosts == {p1, p2, p3}
MCIds == {id}
=============================================================================
