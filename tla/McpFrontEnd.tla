----------------------------- MODULE McpFrontEnd -----------------------------
(***************************************************************************)
(* index.ts of the MCP server: three routes, one for each set of tools.    *)
(* Every POST makes a server and a stateless transport of its own, lets    *)
(* the transport handle the request, and closes both in its finally block. *)
(* The state of the tools is kept in their modules, not in the servers.    *)
(*                                                                         *)
(* External, as the code uses it: the MCP SDK.  handleRequest registers    *)
(* the JSON-RPC id of a request under its transport, hands the request to  *)
(* the tool, and resolves when the response has ended: because the answer  *)
(* was written or because the client went away.  An answer is written to   *)
(* the response registered under its id, if there still is one.  Clients   *)
(* choose the ids, so several requests carry the same one.                 *)
(***************************************************************************)
EXTENDS Naturals, Sequences, SequencesExt

CONSTANTS
  Posts,  \* the POST requests
  Ids,    \* JSON-RPC ids
  None    \* an id that is not registered

ASSUME NoPostAssumption == None \notin Posts

VARIABLES
  pc,       \* where each request is in its handler
  route,    \* its route
  rpcId,    \* its JSON-RPC id
  open,     \* the requests whose server and transport are open
  waiting,  \* SDK: per transport, the response registered under each id
  called,   \* SDK: requests handed to a tool that has not run yet
  effects,  \* per route, the calls its tools have carried out
  answers,  \* the tool results written to each response
  heads,    \* how often each response was given a status
  gone      \* requests whose client went away

sdkVars == <<waiting, called>>
vars == <<pc, route, rpcId, open, sdkVars, effects, answers, heads, gone>>

Routes == {"/mcp", "/mcp-worldcup", "/mcp-crm"}

Init ==
  /\ pc = [p \in Posts |-> "new"]
  /\ route \in [Posts -> Routes]
  /\ rpcId \in [Posts -> Ids]
  /\ open = {}
  /\ waiting = [p \in Posts |-> [id \in Ids |-> None]]
  /\ called = {}
  /\ effects = [path \in Routes |-> <<>>]
  /\ answers = [p \in Posts |-> <<>>]
  /\ heads = [p \in Posts |-> 0]
  /\ gone = {}

Goto(p, step) == pc' = [pc EXCEPT ![p] = step]
WriteHead(p) == heads' = [heads EXCEPT ![p] = @ + 1]

(* Mutant: one transport for all the requests of the process.              *)
SharedTransport(p) == CHOOSE q \in Posts : TRUE

(* The transport of a request is named by the request that made it.        *)
TransportOf(p) == p

-----------------------------------------------------------------------------
(* The handler of a POST.                                                  *)

(* createMcpServer registers the tools anew, over the same module state.   *)
Make(p) ==
  /\ pc[p] = "new"
  /\ open' = open \cup {p}
  /\ Goto(p, "connect")
  /\ UNCHANGED <<route, rpcId, sdkVars, effects, answers, heads, gone>>

(* Mutant: a request that failed is left without the finally block.        *)
ThrowWithoutClose(p) ==
  /\ Goto(p, "done")
  /\ IF heads[p] = 0 THEN WriteHead(p) ELSE UNCHANGED heads

(* The catch block: status 500, unless the response has begun.             *)
Throw(p) ==
  /\ Goto(p, "finally")
  /\ IF heads[p] = 0 THEN WriteHead(p) ELSE UNCHANGED heads

(* server.connect(transport)                                               *)
Connect(p) ==
  /\ pc[p] = "connect"
  /\ \/ Goto(p, "handle") /\ UNCHANGED heads
     \/ Throw(p)
  /\ UNCHANGED <<route, rpcId, open, sdkVars, effects, answers, gone>>

(* Mutant: the handler does not await handleRequest.                       *)
HandleWithoutAwait(p) ==
  /\ pc[p] = "handle"
  /\ waiting' = [waiting EXCEPT ![TransportOf(p)][rpcId[p]] = p]
  /\ called' = called \cup {p}
  /\ Goto(p, "finally") /\ WriteHead(p)
  /\ UNCHANGED <<route, rpcId, open, effects, answers, gone>>

(* transport.handleRequest: a request is registered and handed to its      *)
(* tool; a notification or a malformed request is answered with a status   *)
(* at once; it may throw.                                                  *)
Handle(p) ==
  /\ pc[p] = "handle"
  /\ \/ /\ waiting' = [waiting EXCEPT ![TransportOf(p)][rpcId[p]] = p]
        /\ called' = called \cup {p}
        /\ Goto(p, "respond") /\ WriteHead(p)
     \/ Goto(p, "finally") /\ WriteHead(p) /\ UNCHANGED sdkVars
     \/ Throw(p) /\ UNCHANGED sdkVars
  /\ UNCHANGED <<route, rpcId, open, effects, answers, gone>>

(* handleRequest settles when the response has ended; it rejects when the  *)
(* stream of the response broke.                                           *)
Responded(p) ==
  /\ pc[p] = "respond"
  /\ \/ answers[p] # <<>> /\ Goto(p, "finally") /\ UNCHANGED heads
     \/ p \in gone /\ Goto(p, "finally") /\ UNCHANGED heads
     \/ p \in gone /\ Throw(p)
  /\ UNCHANGED <<route, rpcId, open, sdkVars, effects, answers, gone>>

(* The finally block: transport.close() forgets what waits on it.          *)
Close(p) ==
  /\ pc[p] = "finally"
  /\ open' = open \ {p}
  /\ waiting' = [waiting EXCEPT ![TransportOf(p)] = [id \in Ids |-> None]]
  /\ Goto(p, "done")
  /\ UNCHANGED <<route, rpcId, called, effects, answers, heads, gone>>

(* GET on a route: 405, and nothing else.                                  *)
Get(p) ==
  /\ pc[p] = "new"
  /\ Goto(p, "done") /\ WriteHead(p)
  /\ UNCHANGED <<route, rpcId, open, sdkVars, effects, answers, gone>>

HandlePost(p) == Make(p) \/ Connect(p) \/ Handle(p) \/ Responded(p) \/ Close(p)

PostMcp(p) == route[p] = "/mcp" /\ HandlePost(p)
PostWorldcup(p) == route[p] = "/mcp-worldcup" /\ HandlePost(p)
PostCrm(p) == route[p] = "/mcp-crm" /\ HandlePost(p)

-----------------------------------------------------------------------------
(* The SDK and the client.                                                 *)

(* Mutant: a call whose client has gone is not carried out.                *)
RunToolUnlessGone(p) ==
  /\ p \in called /\ p \notin gone
  /\ called' = called \ {p}
  /\ effects' = [effects EXCEPT ![route[p]] = Append(@, p)]
  /\ answers' = [answers EXCEPT ![p] = Append(@, p)]
  /\ UNCHANGED <<pc, route, rpcId, open, waiting, heads, gone>>

(* The tool runs to its end in one step, also when the client has gone or  *)
(* the transport is closed by then: what it changes stays changed.         *)
RunTool(p) ==
  /\ p \in called
  /\ called' = called \ {p}
  /\ effects' = [effects EXCEPT ![route[p]] = Append(@, p)]
  /\ LET response == waiting[TransportOf(p)][rpcId[p]] IN
       IF response = None \/ response \in gone
         THEN UNCHANGED answers
         ELSE answers' = [answers EXCEPT ![response] = Append(@, p)]
  /\ UNCHANGED <<pc, route, rpcId, open, waiting, heads, gone>>

Leave(p) ==
  /\ pc[p] = "respond" /\ p \notin gone
  /\ gone' = gone \cup {p}
  /\ UNCHANGED <<pc, route, rpcId, open, sdkVars, effects, answers, heads>>

Next ==
  \E p \in Posts :
    \/ PostMcp(p) \/ PostWorldcup(p) \/ PostCrm(p)
    \/ Get(p) \/ RunTool(p) \/ Leave(p)

Spec == Init /\ [][Next]_vars

(* Continuations run once their promises settle, and tools return.         *)
Fairness ==
  \A p \in Posts : WF_vars(pc[p] # "new" /\ HandlePost(p)) /\ WF_vars(RunTool(p))

FairSpec == Spec /\ Fairness

-----------------------------------------------------------------------------
Steps == {"new", "connect", "handle", "respond", "finally", "done"}

(* The type invariant; the server and the transport of a request are open  *)
(* from their making to the end of the handler, and no longer, whichever   *)
(* await fails, and a response is given a status at most once.             *)
TypeOK ==
  /\ pc \in [Posts -> Steps]
  /\ route \in [Posts -> Routes] /\ rpcId \in [Posts -> Ids]
  /\ waiting \in [Posts -> [Ids -> Posts \cup {None}]]
  /\ effects \in [Routes -> Seq(Posts)] /\ answers \in [Posts -> Seq(Posts)]
  /\ heads \in [Posts -> {0, 1}]
  /\ open = {p \in Posts : pc[p] \notin {"new", "done"}}
  /\ called \cup gone \subseteq Posts

(* A response holds the result of its own call and of no other, although   *)
(* requests of the same JSON-RPC id run at the same time.                  *)
OwnAnswer == \A p \in Posts : ToSet(answers[p]) \subseteq {p}

Ran(p) == \E path \in Routes : p \in ToSet(effects[path])

RanOnce(p) ==
  \E i \in DOMAIN effects[route[p]] :
    \A j \in DOMAIN effects[route[p]] : effects[route[p]][j] = p <=> j = i

(* The finally block cuts nobody off: a client that stays until its call   *)
(* is done gets the result, and the call was carried out exactly once, on  *)
(* the state of its route, which outlives the server it was made for.      *)
StayersAreAnswered ==
  \A p \in Posts :
    (pc[p] = "done" /\ (p \in called \/ Ran(p)) /\ p \notin gone) => answers[p] = <<p>> /\ RanOnce(p)

(* Every POST comes to its end, and every call handed to a tool is carried *)
(* out, whether or not its client waits for the answer.                    *)
PostsEnd ==
  \A p \in Posts :
    /\ (pc[p] # "new") ~> (pc[p] = "done")
    /\ (p \in called) ~> (p \in ToSet(effects[route[p]]))
=============================================================================
