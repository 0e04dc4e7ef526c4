# TLA+ models of locked-down-foundry-m365-agent

The repository deploys agents into a network-restricted Azure AI Foundry
project: hosted agents (C#, Python), the MCP tool servers they call
(TypeScript), a chat page with a voice, and the scripts that govern the
network around them.  This directory holds TLA+ modules of the parts that keep
state and can go wrong in an order nobody tested, the TLC configurations that
check them, and TLAPS proofs about all of them.  All paths below are relative
to the repository root.

## Inventory

| Component | Where | State it keeps | Operations | What is hard |
|---|---|---|---|---|
| Copilot session manager | `agents/support-case-agent-ghcpsdk/src/agent/CopilotSessionManager.cs` | `_sessions`, `_sessionLock`, `_startTask` | GetSessionAsync, DisposeAsync | double-checked lookup around a semaphore; a shared, cached start; disposal under way |
| Copilot invocation handler | `.../GitHubCopilotInvocationHandler.cs` | per request: event channel, delta text, last message, send task | HandleAsync | events of a shared session; errors inside the stream; lost connections |
| Support-case web client | `.../src/web/src/services/agentService.ts`, `App.tsx` | conversation, session id, stream buffer | streamMessage, handleSubmit, upload | broken-off streams, first-turn failures |
| Burnley ticket tools | `mcp/agent-tools/src/BurnleyMcpTools.ts` | tickets per fixture, bookings | book, cancel | retried calls, ids made from the clock, restarts |
| Bank CRM tools | `mcp/agent-tools/src/CrmMcpTools.ts` | accounts, cards, instructions, contacts, three registers | process, card-manage, cancel, update, raise, book | retried calls, ids made from lengths, irreversible actions |
| World Cup fan tools | `mcp/agent-tools/src/WorldcupMcpTools.ts` | three Maps, three counters | register, award, album, RSVP, cancel | references between the Maps, restarts |
| MCP/A2A front end | `mcp/agent-tools/src/index.ts` | a server and a transport per request | POST/GET of three endpoints | closing a transport before the answer; clients that choose the same id |
| Chat app server | `chat-app/server.js` | token cache per resource | getToken, message proxy, tts | concurrent misses, failure in mid-stream |
| Chat app page | `chat-app/index.html` | messages, TTS queue, running flag | send, runTTS, startVoice, stopVoice | two runners, reset during an await |
| Advanced autopilot agent | `agents/advanced-autopilot-agent/hello_world_a365_agent/` | previous response id per conversation, typing task | on_message, notifications | concurrent turns, errors of the typing loop |
| GRF autopilot agent | `agents/grf-2026-autopilot-agent/` | none of its own | routing | - |
| Governance scripts | `scripts/apply-*.ps1`, `.github/workflows/deploy-agent-network.yml` | Azure: limits, routes, policies, audiences | reconcile | partial failure between two writes, re-runs |
| Lifecycle scripts | `scripts/deploy-*.ps1`, `scripts/publish-*.ps1` | Azure: agent versions, publications | deploy, poll, publish | retries of what was already done |
| azd hooks | `hooks/*.ps1` | Azure: site access, role assignments | pre/post deploy, predown | a window left open by a failure |
| Infrastructure, gateway, mock page | `infra/`, `apps/`, `mock-apps/` | declarative or static | - | - |

How they interact: the web client posts a prompt with a session id to the
invocation handler, which asks the session manager for the Copilot session and
relays its events; agents call the MCP endpoints, which run the tools against
module-level state; the chat page talks to agents through the chat app server;
the lifecycle workflow deploys an agent and then runs the governance scripts
in a fixed order (token limits, gateway routes, MCP policy, Teams audiences).

## Modules

| Module | Models | Refines / is used by |
|---|---|---|
| `SessionRegistry` | abstract: what the session cache promises its callers | refined by `CopilotSessions` |
| `CopilotSessions` | `CopilotSessionManager` | `MCCopilotSessions`, `CopilotSessions_proofs` |
| `CopilotSessions_proofs` | theorems about it | - |
| `Invocations` | `GitHubCopilotInvocationHandler` over a session | `MCInvocations`, `Invocations_proofs` |
| `Invocations_proofs` | theorems about it | - |
| `BurnleyTickets` | the fixture-list tool | `MCBurnleyTickets`, `BurnleyTickets_proofs` |
| `BurnleyTickets_proofs` | theorems about it | - |
| `BankCrm` | the state-changing CRM tools and the lists of their registers | `MCBankCrm`, `BankCrm_proofs` |
| `BankCrm_proofs` | theorems about it | - |
| `WorldcupFans` | the fan registry tools and the reports over the Maps | `MCWorldcupFans`, `WorldcupFans_proofs` |
| `WorldcupFans_proofs` | theorems about it | - |
| `McpFrontEnd` | the three MCP routes of `index.ts`, over an external SDK | `MCMcpFrontEnd`, `McpFrontEnd_proofs` |
| `McpFrontEnd_proofs` | theorems about it | - |
| `SupportChat` | the web client of the support-case agent | `MCSupportChat`, `SupportChat_proofs` |
| `SupportChat_proofs` | theorems about it | - |
| `ChatServer` | the chat app server | `MCChatServer`, `ChatApp_proofs` |
| `ChatVoice` | the voice of the chat page | `ChatApp_proofs`; checked directly (no model values) |
| `ChatApp_proofs` | theorems about `ChatServer` and `ChatVoice` | - |

A definition whose comment begins with *Mutant* is a plausible wrong version
of the definition after it.  No specification uses it; put in the place of the
right one it makes the property named in `PROJECT.json` fail, which shows that
the property says something about the code.

### CopilotSessions

State: `sessions` is `_sessions`, `lock` the holder of `_sessionLock`,
`startTask` is `_startTask`, and `pc` is the position of each call between two
awaits of `GetSessionAsync`.  A request makes at most one session, so the
session is named by the request.  Actions follow the method: `LookupHit` /
`LookupMiss` (29-33), `WaitThrows` / `AcquireLock` (35), `RecheckHit` /
`RecheckMiss` (38-41), `EnsureClientStarted` and `AwaitStart` (57-67),
`ResumeSession` (106-120, every exception swallowed), `CreateSession`
(122-128), `StoreSession` (48), `ReleaseLock` (the finally block).
`StartSettles` and `Cancel` are the outside world: the CLI that comes up or
does not, and the caller that goes away.  `DisposeAsync` is `BeginDispose`
(the enumeration of `_sessions.Values`, which is a snapshot), one
`DisposeSession` per session, `DisposeClient`, `DisposeLock`, and
`DisposeThrows` for an exception on the way.  A disposed `SemaphoreSlim`
neither admits nor wakes a waiter, and its `Release` throws: that is why
`EveryCallSettles` excepts a finished disposal.

`ImplementsRegistry` is refinement: `registry <- sessions`, a call is answered
or failed when it has returned or thrown.  It says in one line that nothing
but the stored session is ever returned and that an id is registered once.

### Invocations

All invocations of the module carry one session id, so the session manager
gives them one session object.  `pc`, `channel`, `deltaText`, `complete` and
`stream` are the handler's locals and its response.  `Subscribe` (58), `Send`
(71), `Relay` (one event of the inner loop, 77-115), `AwaitSend` (108),
`WriteDone` (145-162), `CatchError` (122-134) and `Interrupted` (a token that
fires: the wait or the write throws, and so does the write in the catch block).
The session is external, modelled from the events the handler tells apart:
accepted prompts are worked off in order, a turn emits deltas and messages,
then idle, or an error with or without an idle after it.  The stream handed to
the client is checked for its shape (`StreamIsWellFormed`), for completeness
when the invocation has the session for itself, and for where foreign text may
come from (`AnswersKeepTogether`, which joins the two).  That it *does* come in
under overlap is how the code works: `overlapped` records it.

### BurnleyTickets, BankCrm, WorldcupFans

The tool handlers contain no `await`, so each call is one atomic step; the
concurrency is outside.  `BurnleyTickets` lets the answer of each call be lost
(so that the caller repeats it), lets several calls fall into one millisecond
(a booking id *is* the millisecond), and restarts the process.  The cancel action
asks for no more than an id (205-222), so `Cancel` takes any id from any caller,
whether or not it was told that id; the history `cancelled` holds the ids that
were taken out of the Map.  `BookingsAreKnown` says both what a receipt is worth
(the booking stands as told until somebody cancels that very id: no booking and no
cancellation of another id touches it) and that no booking is left that nobody
can cancel.  `SeatsAccounted` counts seats that have names, the
booking and a number up to its quantity, so that no sum over bookings is needed.
`BankCrm` and `WorldcupFans` keep the ids callers were
told in `receipts`; the properties say what such an id is worth.  Refused calls
and read-only tools change nothing and are stuttering steps.

Amounts and balances of `BankCrm` are doubles.  `Doubles` is the set of them,
counted in their smallest step, so that exact differences are integers; `Round`
takes such a difference to the nearest double, with ties to the even significand
as IEEE 754 has it.  `crm-process` checks `availableBalance` only (747) and rounds
the two differences separately (750-751, `Settle`), so the two balances drift
apart.  `LimitRespected` bounds what that can do: an account is drawn below the
limit of its literals by no more than half a gap (`HalfGap`) for each difference
that was rounded (`roundings`).  Without that term the property fails already in
the small instance: the drift is real.  `DoublesAssumption` is what the proofs use
of the format: zero is a double and every difference in range has a nearest
double, at most half a gap away.

Customer ids of `BankCrm` come in spellings: the code compares them in lower
case (`Same`, `Found`) and stores them as given, so `Listed` must fold the case
of *both* sides for a told record to turn up in its customer's list
(`ToldRecordsHold`).  `ListSupportCases` and `ListAppointments` are the two
listing tools, given as the places of the register they show; no tool lists
disputes.  In `WorldcupFans` the reports are
operators over the Maps: `Export`, `Catering`, `Size` and `Remaining`.
`CateringAddsUp` relates three of them and the passport counter in every
reachable state: what is fed is what was handed out, confederation by
confederation, also for a fan who registered twice.  It counts plates that
have names, a diet and a number up to the count of that diet.

### McpFrontEnd

Three handlers of `index.ts` with one shape (100-124, 137-170, 183-216): make a
server and a stateless transport, connect, `await handleRequest`, and close
both in `finally`.  `pc` is the await a POST is in; `Make`, `Connect`, `Handle`,
`Responded` and `Close` are its steps, `Throw` the catch block with its
`headersSent` test, `Get` the 405 of the other method.  The SDK is external: it
registers a JSON-RPC id under its transport, runs the tool, and settles when the
response has ended.  Clients choose their ids, so all three POSTs of the
instance carry the same one: `OwnAnswer` holds because each request has a
transport of its own (the mutant that shares one breaks it), and
`StayersAreAnswered` because `handleRequest` is awaited before `finally` (the
mutant that does not await it cuts answers off).  `effects` is the state of the
tools, one per route, which outlives the servers that register them.

### SupportChat

The page runs two async handlers side by side: `handleSubmit` with
`streamMessage` (a turn) and `handleUpload` with `uploadSessionFile`.  Each
works on what it captured in the render it was called in; those captures are
fields of `turn` and `upload`.  `Submit` is the code up to the first await,
`TokenForTurn`, `Request` and `ReadSession`/`ReadDone`/`ReadError`/`ReadEnd`/
`ReadBreaks` the awaits after it, `Succeed` and `Fail` the two ends with their
`finally`.  `Request` may fail before or after the endpoint got the message, and
its answer may or may not name the session.  `ThreadIsWhole` is about the write
of the whole thread from a capture, with `earlier`, a history variable, for the
turns sent before the page was loaded; `ConversationStaysTogether` about the
session id through failures, cut streams and missing headers;
`UploadsReachTheThread` and `HandlersKeepApart` about the two handlers beside
each other.  The endpoint keeps a request in the session it names and makes one
for a request that names none; a session is named by the turn it was made for.

### ChatServer

One async function per request, cut at its awaits: the body, `az`, `fetch`, the
text or the stream of the agent, the synthesis.  `cache` is the one entry of
`tokenCaches` the code uses; a token is named by the minute it ends in, so its
age can be compared with what the entry says.  A miss runs `az` for itself
(`AzRuns`, `AzSucceeds`, `AzFails`), so up to three runs overlap and overwrite
the entry in any order, with outputs that lack the end or the token.  `Throw` is
the outer catch block (310-313).  `heads` counts `writeHead`, `synths` holds the
open synthesizers.  Its general definitions (`ServerInit`, `ServerNext`,
`ServerSpec`, ...) carry the prefix so that one module can prove about both
halves of the chat app.

### ChatVoice

`queue`, `running` and `buffer` are the refs of the page, `runners` the activations
of `runTTS` with their locals (the clip awaited or played, the clip prefetched),
`audio` the one audio element.  JavaScript is not interrupted between two awaits,
so an action is the code from one await to the next: `Loop` is a pass of the
`while` loop up to `await urlPromise`, `Play` / `SkipNull` are `playUrl` up to its
promise, `Resolve` is that promise being resolved by `done` together with the pass
of the loop that follows.  The audio element is external and follows the HTML
standard where the code meets it: a pending `play()` is rejected by `pause()`,
`load()` and a new `src`, and the rejection calls the *earlier* clip's `done`,
which clears the *later* clip's handlers.  An activation whose promise has settled
goes on in a microtask, before the next event: `BetweenEvents` is the guard of
every event.  For a clip that cannot be loaded the element fires `error` and then
rejects the promise, so `done` is called twice: `LoadFails` is the event,
`RejectionFollows` the rejection, and the microtasks of the activation run between
the two.  Sentences are numbers in the order of enqueueing; a delta ends a sentence
or does not, and the text of the buffer is known by the turns it came from.  The
history variable `ended` separates what the running flag guarantees (until End
voice is pressed for the first time) from what holds always; `RunnersKeepOrder`
joins the flag, the clips that are never spoken twice, and the handler that belongs
to the loaded clip.  `EverySentenceComes` excepts one state besides End voice,
`WaitsUnheard`, which the double `done` leads to (see Findings); the history
`broken`, the last clip that could not be loaded, tells it from any other
activation that waits.  The model prefetches, as `runTTS` (454-458) and the comment
at 369-370 do; `chat-app/README.md:103-104`, where the next sentence is fetched
only after the current clip's `ended` event, does not describe that.

## Runs and bounds

| Run | Instance | Distinct states | Shows |
|---|---|---|---|
| `sessions` | 3 requests, 2 session ids, fair | 300 000 | safety of the session manager, refinement of the registry, every call settles |
| `invocations` | 2 invocations, 2 texts in all, symmetric | 1 034 000 | shape of the streams, the text of done, isolation |
| `invocations_live` | 2 invocations, no text, fair | - | accepted prompts end |
| `tickets` | 2 fixtures (2 and 1 tickets), 2 customers, quantities 1-2, 2 instants | 435 000 | seats add up, receipts hold whoever cancels, no orphan bookings |
| `crm` | 2 accounts, 13 doubles, 2 roundings per account, 1 card, 1 instruction, 2 customers in 3 spellings and a stranger, 2 records per register, 1 restart | 710 000 | limits and their drift; told records keep their id and their list |
| `crm_lost_card` | the same | - | **violation**: a blocked card does not stay blocked |
| `fans` | 2 fans, 2 diets, 2 confederations, 2 ids per counter, 1 restart, 1 or 50 packs | 1 567 000 | references, ids, reports, no certificate |
| `voice` | 4 sentences, 2 turns, fair | 693 000 | one clip at a time until End voice; no sentence left behind until then but after an unloadable clip; clips, handlers and replies never mixed up |
| `voice_in_order` | 3 sentences, 2 turns | - | **violation**: clips out of order after End voice and Voice |
| `chat_server` | 3 requests, 3 minutes, lifetimes 2 and 3, margin 1, fallback 2, fair | 234 000 | hits are alive, one status line, every request ends |
| `support_chat` | 3 turns, 2 files, fair | 24 000 | thread, session and uploads of the page stay consistent, handlers end |
| `mcp_front_end` | 3 POSTs with one JSON-RPC id, 3 routes, fair | 201 000 | own answers, whole answers, every POST ends |

Why these are enough.  Three requests over two ids give every pair the choice
of a common or a different id, with a third that holds or waits for the
semaphore meanwhile; the theorems below lift the bound for safety.  Two
invocations are what overlap needs; a third adds only more of the same foreign
events, and two texts are every pair of a delta and a message.  Two instants
give both a collision and a restart with old ids about; two records or ids per
register are one more than the literals hold, so a reused number shows, and two
passports are what a fan who registers twice needs.  Doubles with a significand of
two bits have three gaps within a dozen values, with the available balance of the
current account on a larger scale than its balance, as 4257.81 is beside -742.19;
the credit account is at its limit, and two roundings are those of one payment or
of two.  Three sentences are one being played, one prefetched and one in the
queue; the fourth is enqueued behind a clip whose `done` came twice, which takes
three.  In `chat_server` two
requests refresh the entry in either order while a third hits it; the lifetimes
differ by a minute, so an older token can overwrite a newer one, and three
minutes let both run down to the margin (the theorems lift these bounds for
safety).  Three POSTs let two share an id while a third leaves.  Three turns are
one that makes a session, one that fails or is cut, and one that must still go
to the right session, with an upload beside any of them.  `MaxTexts`,
`MaxQuantity`, `MaxClock`, `Lowest`, `MaxRoundings`, `MaxRecords`, `MaxIds`, `MaxPoints`,
`MaxBoots`, `MaxSentences`, `MaxTurns` and `MaxTime` cap what is unbounded in the
code.  Deadlock is not checked where a one-shot system comes to rest (requests
are answered and the server idles) or where a counter reaches its bound (clock,
ids).

Fairness.  `CopilotSessions!FairSpec` assumes that the runtime schedules every
continuation (`WF` of each request's next step) and that the awaited start
ends; SDK calls end because they are single steps with either outcome.
Cancellation and disposal are never assumed.  Weak fairness on a semaphore
queue is enough because each request passes it once.  `Invocations!FairSpec`
assumes scheduling, that `SendAsync` ends, and that the session works its
prompts off; `AcceptedPromptsEnd` is restricted to accepted prompts because a
failed send without any event leaves the handler waiting (a hazard of line 75).

`ChatVoice!FairSpec` assumes that `/api/tts` answers each request, that the audio
element settles `play()`, plays a clip to its end or reports an error, and rejects
the `play()` of a clip it reported, and that the page's tasks run; it assumes no
button and no delta. `ChatServer!FairServerSpec` assumes that a body that has begun
ends or its connection does, that `az` exits, that `fetch` settles, and that the
Speech SDK calls back, each with either outcome; it makes no request come.
`McpFrontEnd!FairSpec` assumes that continuations run and that a tool handed a call
returns (the tools have no await that waits for anybody); a client is never made to
leave or to stay.  `SupportChat!FairSpec` assumes that MSAL and `fetch` settle and
that a stream comes to one of its ends; payloads that name the session may go on
without fairness, and the user does nothing.

## Findings

`crm_lost_card`: `CrmMcpTools.ts:655-656` says reporting a card lost "is
irreversible" and line 684 answers that it is "permanently blocked", but
`unfreeze` (678-680) sets any card active and `freeze` (675-677) any card
frozen.  The counterexample reports a card lost and then calls one of them.

`voice_in_order`: `resetTTS` clears the flag and the queue (488-492), but nothing
tells an activation of `runTTS` that is inside an `await` to stop.  If the voice
is started again it runs beside a new activation, and the clips come out of
order or cut each other off, where the README promises clips "in order without
overlapping" (104).

Seen while modelling, described here and not the subject of a run of their own:

* a clip that cannot be loaded can silence the voice for good, with nobody ending
  it (`index.html:436-440`).  Sentence 1 is heard, clip 2 cannot be loaded while
  clip 3 has already arrived: `onerror` calls `done`, `runTTS` goes on in a
  microtask and gives clip 3 to the element, then the rejected `play()` of clip 2
  calls `done` again, which clears the handlers of clip 3.  Its activation never
  comes back, the running flag stays set, and sentence 4 stays in the queue.  Take
  `WaitsUnheard` out of `EverySentenceComes` and run `voice` shows a trace of this;
* an activation that outlives End voice plays the clip it awaited and the one it
  prefetched, `send` reads `voiceState` once (610), so a reply under way is
  spoken to its end, and an activation whose clip another one cut off never
  comes back, with the sentence it had prefetched
  (`chat-app/README.md:81` and `:84-85`);
* `server.js` ends the response of a broken upstream stream like that of a
  complete one (310-313), and `agentService.ts:151-160` takes a stream that ends
  without `done` for a complete reply: the reader of either cannot tell;
* after `az logout` the chat server goes on with the cached token until a minute
  before its recorded end;
* the web client forgets the session of a first turn that fails (`App.tsx:90` is
  not reached), so the next message starts another conversation;
* `crm-process` debits the source and never credits a destination inside the
  bank, and no tool lists the disputes that were raised;
* several World Cup tools test optional numbers by truth, so a filter of 0 is
  no filter.

## Proofs

`CopilotSessions_proofs` proves, for any sets of requests and session ids and
from the one assumption `None \notin Requests`:

* `TypeCorrect`, `LockDiscipline`, `SessionUniqueness`, `OneStart`,
  `DisposalComplete`: the invariants of run `sessions`;
* `CacheGrowsOnly`: the action property `CachedForever`;
* `Refinement`: `Spec => ImplementsRegistry`.

None of the invariants but the lock's is inductive alone.  `IInv` adds where
things come from: a cached session was made by a request for that id
(`CacheProvenance`), a request holds either the cached session or its own
fresh one and then is the lock holder after a missed second lookup
(`HeldProvenance`), the start is settled before any session exists
(`StartProvenance`), and what disposal has left to do covers every cached
session that is neither disposed of nor late (`DisposalProgress`).
`Invariance` shows that every action keeps `IInv`; the other theorems follow
from it.  For the refinement, `StoreSession` maps to `Register`, returning to
`Answer`, throwing to `Fail`, everything else to a stutter.

`ChatApp_proofs` proves of `ChatServer`, for any set of requests, margin and
fallback, and any lifetimes of `az` that reach the fallback
(`AzRenewsAssumption`, which is what makes the fallback of a token whose end `az`
does not tell a safe guess):

* `ServerTypeCorrect`: the types, and that no synthesizer outlives its request;
* `HeadsAreSingle`: one status line per response (`OneHeadPerResponse`);
* `CacheIsHonest`: `ServerSpec => HitsAreLive`.

The last rests on `CacheNeverOverstates` (the entry never records a later end
than its token has), which is not inductive, since an entry is written long after
its run of `az` began and other runs write in between.  `PendingRuns` says what
every pending output knows of its token; the clock does not advance while `az`
prints, so the fallback counted from the callback is the one counted from the
run.  `HitStep` then shows that only `BodyForAgent` leads from a body to `fetch`.

`ChatApp_proofs` proves of `ChatVoice`, for any number of sentences and turns:

* `VoiceTypeCorrect`: the types of the page and of the audio element;
* `RunnersStayInOrder`: `RunnersKeepOrder`;
* `SpeechIsOfOneReply`: `SpokenTextIsOfThisReply`;
* `ClipsPlayInTurn`: the action property `OneClipAtATime`.

None of them is inductive: an activation that End voice did not stop goes on with
its two sentences while another one works off the queue.  `VoiceInv` therefore
keeps book of every sentence (`Books`): those in the queue are in their order and
later than all that were asked for, no two activations hold the same sentence
(`RunnersWell`), and what an activation still has to play was not spoken before.
That makes `NoneSpokenTwice` inductive, also after End voice.  `InTurn` adds what
holds until End voice: the element is busy only with a clip some activation waits
for, and everything heard comes before everything held.  `Passed` says what one
pass of the loop may have done, whatever the queue was (`LoopFacts`), so that the
passes in `Enqueue`, `SkipNull` and `Resolve` are reasoned about once
(`LoopKeeps`).  While the rejection of an unloadable clip is still due, an element
that is busy is busy with another clip (`ElementWell`): the second `done` takes
handlers away and ends no wait but that of its own clip.

`McpFrontEnd_proofs` proves, for any set of POSTs and of JSON-RPC ids and from
`None \notin Posts`:

* `TypeCorrect`: the types, that exactly the POSTs in their handler have a server
  open, and that none gets two status lines.  It needs to know where the first
  one is written: not before `handleRequest` (`NoHeadYet`);
* `AnswersStayHome`: `OwnAnswer`.  It rests on `OwnTransport`: a transport has
  only its own POST waiting in it, whatever the id.  The model checker cannot
  say this for more ids and clients than the instance has;
* `StayersGetAnswers`: `StayersAreAnswered`.  `HandedOver` follows a call from the
  transport to the tool and back: a POST that waits for its response is
  registered under its id and its call is either with the tool or carried out,
  once, with at most its own result written (`EffectsOfCall`).

`BurnleyTickets_proofs` proves, for any fixtures, customers, capacities, quantities
and number of instants:

* `TypeCorrect`: the types; no count of tickets becomes negative;
* `CallersKnowTheirBookings`: `BookingsAreKnown`.  It needs `IdsAreOfNow`: all ids
  in the Map were made since the process began, no receipt is of an instant to
  come, and one of this process was really issued;
* `SeatsAddUp`: `SeatsAccounted`.  The seats of a fixture are those of the booking
  under one id and those of all others (`SeatsOfOneBooking`), so a call that
  changes one booking changes the count by the quantities under that id.

`BankCrm_proofs` proves, for any accounts, cards, customers and spellings, any range
of doubles (`DoublesAssumption`) and any opening balances whose available part is
not negative:

* `TypeCorrect`: the types; no available balance becomes negative and every
  register stays a sequence of records;
* `LimitsHold`: `LimitRespected`.  A payment checks the available balance, and the
  limit is about the balance: `Headroom` says that their distance is what it was
  in the literals but for half a gap per rounding.  `RoundFacts` is what is known of
  one rounded difference (it does not cross zero, and it is exact or counted),
  `PaymentFacts` puts the two of a payment together;
* `WhatWasToldHolds`: `ToldRecordsHold`.  `RecordsInPlace` says that a record's number
  is its place in the register and that every receipt is of the record there; the
  lists then name it once, in whatever spelling they are asked for.

`WorldcupFans_proofs` proves, for any fans, awards and bounds and pack counts of
1 to 50 (the limits of the tool's schema):

* `TypeCorrect`: the types; every album and every RSVP has its passport;
* `IdsKeepTheirMeaning`: `ReceiptsStayTrue`.  It needs `IdsAreCounted`: an id
  told by the running process is at most its counter, so the next one is told to
  nobody yet (`OldIds`);
* `NobodyFinishes`: `NoCertificateIssued`, since an album never has more than its
  starter packs (`StartersOnly`);
* `ReportsAgree`: `CateringAddsUp`.  The plates of a diet are numbered off against the
  passports that ask for it, which is a bijection from plates to exported
  passports (`PlatesAreExports`); the passports are those with an id up to the
  counter (`PassportsAreCounted`).

`Invocations_proofs` proves, for any number of invocations of a session and any
number of texts:

* `TypeCorrect`: the types;
* `StreamsEndProperly`: `StreamIsWellFormed`.  What may be written next depends on
  what was written last, so `StreamAt` says for each place in the handler which
  payload its stream ends in (`Allowed`), and `AppendShape` that a stream keeps
  its shape when the next payload may follow that one;
* `AnswersStayTogether`: `AnswersKeepTogether`.  For an invocation that never shared
  its session, what was said of its turn is at every moment what its stream and its
  channel hold, one behind the other, and the texts the handler has kept are those
  of the stream (`Relayed`); when it has returned, the whole turn is in the stream
  (`Answered`) or an error is.  `AloneMeansAlone` says that no other prompt is on
  the session then, and `TurnsComeOnce` that a prompt is accepted once, that its
  events are numbered as they are said, and that nothing comes after its idle.

`SupportChat_proofs` proves, for any number of turns and any files:

* `TypeCorrect`: the types, and that `loading` and `uploading` are set exactly while
  their handler runs;
* `UploadsArrive` and `OneConversation`: `UploadsReachTheThread` and
  `ConversationStaysTogether`.  Both rest on what a capture is worth later: as long
  as the page has a session, the running turn and the running upload hold that
  session, and the turn holds the thread as it is (`CapturesAreFresh`).
  `TurnSteps` sorts the steps of a turn by what they do to the page, and
  `AnsweredInSession` ties every whole reply to the page's own session;
* `HandlersDoNotMeddle`: the action property `HandlersKeepApart`.  It needs to know
  that the chosen file is the one being uploaded (`UploadIsChosen`);
* `ThreadStaysWhole`: `ThreadIsWhole`.  `TurnAwaitsReply` says that the question of
  the running turn is the last message, that nothing answers it yet and no error
  of it was read; a capture is the thread as it is (`CapturesAreFresh`), so writing
  it back with the reply loses nothing.

The assumptions on `None` say only that it is none of the values it stands beside.

Only model-checked: liveness (`EveryCallSettles`, `AcceptedPromptsEnd`,
`EverySentenceComes`, `EveryRequestEnds`, `TurnsAndUploadsEnd`, `PostsEnd`), since
temporal reasoning with fairness is out of the prover's reach, and the two
properties that fail.  Every invariant, every action property and the refinement
that a run checks is a theorem.  Where a property counts or filters, it is stated
by sets of named things and places of sequences: sums and filters are recursive
definitions, which the provers do not reason about.

## Plan

Done: session manager, invocation handler, ticket, CRM and World Cup tools,
voice, web client, MCP front end, chat server, and the theorems above.  Worth
proving next: step-wise parts of the liveness properties, such as that a request
which holds the semaphore always has a step that brings it nearer to `Release`,
and that the bounds on records and ids only stop calls.  Further components, by
what they would add: the thread of the chat page under New chat, the autopilot's
turns (its typing loop and the previous response id kept in a file), the
governance scripts with partial failures and re-runs, and the deploy and publish
retries.

## Not modelled

Infrastructure templates, the gateway and the mock page have no behaviour of
their own.  Tools that read constant tables return literals.  The A2A routes
belong to their SDK, and `/weather` and `/health` answer from constants.  Sign-in
and the layout of the web client, and the message list, attachments and screen
capture of the chat page are left out.  The PowerShell and shell scripts and the
workflows are straight-line sequences of calls to Azure whose state is outside
the repository; the two Python agents run on host libraries that decide how
turns overlap.  Their hazards are listed with a note.  The contents of texts,
tokens and policies, time other than the booking clock and the chat server's
minutes, and what the Copilot service does with an expired token or a second
session of the same id are outside the models; `PROJECT.json` lists each
component and each uncovered hazard.
