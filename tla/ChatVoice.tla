------------------------------ MODULE ChatVoice ------------------------------
(***************************************************************************)
(* The voice of the chat page (chat-app/index.html).  While the agent's    *)
(* reply streams in, every complete sentence is put into a queue; runTTS   *)
(* takes sentences from it, has each one synthesised by /api/tts and plays *)
(* the clips through one hidden audio element, asking for the next clip    *)
(* before it plays the current one.                                        *)
(*                                                                         *)
(* JavaScript runs from one await to the next without interruption, so an  *)
(* action here is what happens between two awaits.  An activation whose    *)
(* promise has settled goes on in a microtask: before the next event, and  *)
(* before the browser goes on with the event it is in.  A sentence is      *)
(* named by its place in the order of enqueueing, its clip by the same     *)
(* number.  An activation of runTTS is named by nothing: it is the record  *)
(* of its locals, and no two activations hold the same clip.               *)
(*                                                                         *)
(* External are /api/tts, which answers with a clip or an error, the agent *)
(* whose reply streams in, and the audio element, which follows the HTML   *)
(* standard: play() gives a promise that settles when playback begins, and *)
(* pause(), load() or a new src rejects the one still pending.  For a clip *)
(* that cannot be loaded the element fires its error event and then        *)
(* rejects the promise.                                                    *)
(***************************************************************************)
EXTENDS Naturals, Sequences, SequencesExt

CONSTANTS
  MaxSentences,  \* bound: sentences the agent says
  MaxTurns       \* bound: messages the user sends

ASSUME BoundsAssumption == MaxSentences \in Nat /\ MaxTurns \in Nat

Sentences == 1..MaxSentences
Turns == 1..MaxTurns
None == 0

VARIABLES
  voice,      \* voiceState
  turn,       \* how many messages were sent; the last one is being answered
  busy,       \* a reply is streaming in
  speakLive,  \* the voiceState that send() read when it began
  buffer,     \* ttsBufferRef: the turns whose text is in the partial sentence
  queue,      \* ttsQueueRef
  running,    \* ttsRunningRef
  runners,    \* the activations of runTTS that have not ended
  clips,      \* what has become of the request for each clip
  audio,      \* the audio element: loaded clip, clip of its handlers, playback, rejection that is due
  said,       \* history: how many sentences were enqueued
  heard,      \* history: the clips in the order they were given to the element
  broken,     \* history: the last clip that could not be loaded
  ended       \* history: End voice has been pressed

replyVars == <<turn, busy, speakLive>>
vars == <<voice, replyVars, buffer, queue, running, runners, clips, audio, said, heard, broken, ended>>

Silence == [src |-> None, onended |-> None, playback |-> "stopped", rejected |-> None]

Init ==
  /\ voice = "idle"
  /\ turn = 0 /\ busy = FALSE /\ speakLive = FALSE
  /\ buffer = {}
  /\ queue = <<>> /\ running = FALSE /\ runners = {}
  /\ clips = [s \in Sentences |-> "unasked"]
  /\ audio = Silence
  /\ said = 0 /\ heard = <<>> /\ broken = None /\ ended = FALSE

-----------------------------------------------------------------------------
(* runTTS.                                                                 *)

Runner(at, clip, next) == [at |-> at, clip |-> clip, next |-> next]

(* Mutant: the prefetched sentence is looked at but stays in the queue.    *)
LoopPeeking(others, next, waiting, flag) ==
  LET work == IF next = None THEN waiting ELSE Cons(next, waiting)
      prefetched == IF Len(work) > 1 THEN work[2] ELSE None
  IN IF work = <<>>
       THEN /\ runners' = others /\ running' = FALSE
            /\ queue' = <<>> /\ UNCHANGED clips
       ELSE /\ runners' = others \cup {Runner("fetching", Head(work), prefetched)}
            /\ running' = flag
            /\ queue' = Tail(work)
            /\ clips' = [s \in Sentences |->
                 IF clips[s] = "unasked" /\ s \in {Head(work), prefetched} THEN "asked" ELSE clips[s]]

(* One pass of the loop up to its first await, made by an activation that  *)
(* has prefetched "next" and stands beside "others": the first of the      *)
(* sentences at hand is awaited and the second is asked for.  With none at *)
(* hand the loop ends and the finally block clears the flag; the queue is  *)
(* empty then, nothing having run since the loop's test, so the block's    *)
(* restart finds nothing to do.                                            *)
Loop(others, next, waiting, flag) ==
  LET work == IF next = None THEN waiting ELSE Cons(next, waiting)
      prefetched == IF Len(work) > 1 THEN work[2] ELSE None
  IN IF work = <<>>
       THEN /\ runners' = others /\ running' = FALSE
            /\ queue' = <<>> /\ UNCHANGED clips
       ELSE /\ runners' = others \cup {Runner("fetching", Head(work), prefetched)}
            /\ running' = flag
            /\ queue' = SubSeq(work, 3, Len(work))
            /\ clips' = [s \in Sentences |->
                 IF clips[s] = "unasked" /\ s \in {Head(work), prefetched} THEN "asked" ELSE clips[s]]

(* The promise of playUrl resolves: the activation that plays "clip" goes  *)
(* on beside "others".                                                     *)
Resolve(clip, others, waiting, flag) ==
  \E r \in runners :
    /\ r.clip = clip /\ r.at = "playing"
    /\ Loop(others \ {r}, r.next, waiting, flag)

(* Mutant: every sentence starts an activation of its own.                 *)
EnqueueUnguarded ==
  /\ said < MaxSentences
  /\ said' = said + 1
  /\ Loop(runners, None, Append(queue, said + 1), TRUE)

(* enqueueTTS, and runTTS up to its first await unless one is running.     *)
Enqueue ==
  /\ said < MaxSentences
  /\ said' = said + 1
  /\ IF running
       THEN queue' = Append(queue, said + 1) /\ UNCHANGED <<running, runners, clips>>
       ELSE Loop(runners, None, Append(queue, said + 1), TRUE)

NothingEnqueued == UNCHANGED <<queue, running, runners, clips, said>>

(* No activation can go on by itself: the microtasks have run.             *)
MicrotasksDone == \A r \in runners : r.at = "fetching" => clips[r.clip] \notin {"clip", "null"}

(* The browser takes the next event only then, and not in the middle of    *)
(* telling that a clip cannot be loaded.                                   *)
BetweenEvents == MicrotasksDone /\ audio.rejected = None

-----------------------------------------------------------------------------
(* The buttons.                                                            *)

(* resetTTS, then the element is unlocked by play() and pause(): a clip    *)
(* that is playing stops where it is, with its handlers in place; one that *)
(* has not begun has its play() promise rejected.                          *)
StartVoice ==
  /\ BetweenEvents
  /\ voice = "idle"
  /\ voice' = "live"
  /\ queue' = <<>> /\ running' = FALSE /\ buffer' = {}
  /\ audio' = [audio EXCEPT !.playback = IF @ = "playing" THEN "stopped"
                                         ELSE IF @ = "beginning" THEN "aborted" ELSE @]
  /\ UNCHANGED <<replyVars, runners, clips, said, heard, broken, ended>>

(* resetTTS, then the element is emptied.  A clip that is playing is cut   *)
(* off and its activation waits for ever; one that has not begun has its   *)
(* promise rejected, so its activation goes on with what it prefetched.    *)
StopVoice ==
  /\ BetweenEvents
  /\ voice = "live"
  /\ voice' = "idle" /\ ended' = TRUE
  /\ buffer' = {}
  /\ audio' = Silence
  /\ IF audio.playback \in {"beginning", "aborted"}
       THEN Resolve(audio.src, runners, <<>>, FALSE)
       ELSE queue' = <<>> /\ running' = FALSE /\ UNCHANGED <<runners, clips>>
  /\ UNCHANGED <<replyVars, said, heard, broken>>

-----------------------------------------------------------------------------
(* send(): the reply of the agent.                                         *)

(* Mutant: what the last reply left in the buffer stays there.             *)
SendWithoutClearing ==
  /\ BetweenEvents
  /\ ~busy /\ turn < MaxTurns
  /\ busy' = TRUE /\ turn' = turn + 1
  /\ speakLive' = (voice = "live")
  /\ UNCHANGED <<voice, buffer, queue, running, runners, clips, audio, said, heard, broken, ended>>

Send ==
  /\ BetweenEvents
  /\ ~busy /\ turn < MaxTurns
  /\ busy' = TRUE /\ turn' = turn + 1
  /\ speakLive' = (voice = "live")
  /\ buffer' = IF voice = "live" THEN {} ELSE buffer
  /\ UNCHANGED <<voice, queue, running, runners, clips, audio, said, heard, broken, ended>>

(* A delta without the end of a sentence.  Without the voice deltas only   *)
(* change the thread, which is not modelled.                               *)
Delta ==
  /\ BetweenEvents
  /\ busy /\ speakLive
  /\ buffer' = buffer \cup {turn}
  /\ UNCHANGED <<voice, replyVars, queue, running, runners, clips, audio, said, heard, broken, ended>>

(* A delta with the end of a sentence and perhaps the beginning of another *)
(* one (a delta with several ends is several of these without a break).    *)
DeltaEndsSentence ==
  /\ BetweenEvents
  /\ busy /\ speakLive
  /\ Enqueue
  /\ buffer' \in {{}, {turn}}
  /\ UNCHANGED <<voice, replyVars, audio, heard, broken, ended>>

(* The stream is over; what is left in the buffer is spoken too.           *)
ReplyEnds ==
  /\ BetweenEvents
  /\ busy
  /\ busy' = FALSE
  /\ IF speakLive /\ buffer # {}
       THEN Enqueue /\ buffer' = {}
       ELSE NothingEnqueued /\ UNCHANGED buffer
  /\ UNCHANGED <<voice, turn, speakLive, audio, heard, broken, ended>>

(* ensureConversation, the request or the stream fails; the buffer keeps   *)
(* its text.                                                               *)
ReplyFails ==
  /\ BetweenEvents
  /\ busy
  /\ busy' = FALSE
  /\ NothingEnqueued
  /\ UNCHANGED <<voice, turn, speakLive, buffer, audio, heard, broken, ended>>

-----------------------------------------------------------------------------
(* The clips.                                                              *)

(* fetchTTS ends with a clip, or with null after any failure.              *)
FetchSettles(s) ==
  /\ BetweenEvents
  /\ clips[s] = "asked"
  /\ \E result \in {"clip", "null"} : clips' = [clips EXCEPT ![s] = result]
  /\ UNCHANGED <<voice, replyVars, buffer, queue, running, runners, audio, said, heard, broken, ended>>

(* Mutant: a failed synthesis ends the activation.                         *)
SkipNullAndLeave(r) ==
  /\ r.at = "fetching" /\ clips[r.clip] = "null"
  /\ runners' = runners \ {r}
  /\ UNCHANGED <<voice, replyVars, buffer, queue, running, clips, audio, said, heard, broken, ended>>

(* playUrl returns at once when there is no clip.                          *)
SkipNull(r) ==
  /\ r.at = "fetching" /\ clips[r.clip] = "null"
  /\ Loop(runners \ {r}, r.next, queue, running)
  /\ UNCHANGED <<voice, replyVars, buffer, audio, said, heard, broken, ended>>

(* Mutant: a clip that failed is played like any other.                    *)
PlayUnchecked(r) ==
  /\ r.at = "fetching" /\ clips[r.clip] \in {"clip", "null"}
  /\ heard' = Append(heard, r.clip)
  /\ audio' = [audio EXCEPT !.src = r.clip, !.onended = r.clip, !.playback = "beginning"]
  /\ runners' = (runners \ {r}) \cup {[r EXCEPT !.at = "playing"]}
  /\ UNCHANGED <<voice, replyVars, buffer, queue, running, clips, said, broken, ended>>

(* playUrl up to its promise.  A clip that another activation has loaded   *)
(* is replaced, its handlers too.  If that one had not begun to play, its  *)
(* promise is rejected: the other activation's done() clears the handlers  *)
(* of the new clip and that activation goes on.                            *)
Play(r) ==
  LET loaded == {[r EXCEPT !.at = "playing"]} IN
  /\ r.at = "fetching" /\ clips[r.clip] = "clip"
  /\ heard' = Append(heard, r.clip)
  /\ IF audio.playback \in {"beginning", "aborted"}
       THEN /\ audio' = [audio EXCEPT !.src = r.clip, !.onended = None, !.playback = "beginning"]
            /\ Resolve(audio.src, (runners \ {r}) \cup loaded, queue, running)
       ELSE /\ audio' = [audio EXCEPT !.src = r.clip, !.onended = r.clip, !.playback = "beginning"]
            /\ runners' = (runners \ {r}) \cup loaded
            /\ UNCHANGED <<queue, running, clips>>
  /\ UNCHANGED <<voice, replyVars, buffer, said, broken, ended>>

(* The audio element begins to play the clip.                              *)
PlaybackBegins ==
  /\ BetweenEvents
  /\ audio.playback = "beginning"
  /\ audio' = [audio EXCEPT !.playback = "playing"]
  /\ UNCHANGED <<voice, replyVars, buffer, queue, running, runners, clips, said, heard, broken, ended>>

(* Playback is refused, or was aborted by the pause() of StartVoice: the   *)
(* play() promise is rejected and done() is called, once.                  *)
PlaybackRejected ==
  /\ BetweenEvents
  /\ audio.playback \in {"beginning", "aborted"}
  /\ audio' = [audio EXCEPT !.playback = "stopped", !.onended = None]
  /\ Resolve(audio.src, runners, queue, running)
  /\ UNCHANGED <<voice, replyVars, buffer, said, heard, broken, ended>>

(* The clip cannot be loaded.  First the error event: done(), if it is     *)
(* still on the element, and the activation goes on in the microtasks,     *)
(* where it may load the clip it has prefetched.                           *)
LoadFails ==
  /\ BetweenEvents
  /\ audio.playback \in {"beginning", "aborted"}
  /\ audio' = [audio EXCEPT !.playback = "stopped", !.onended = None, !.rejected = audio.src]
  /\ broken' = audio.src
  /\ IF audio.onended = None
       THEN UNCHANGED <<queue, running, runners, clips>>
       ELSE Resolve(audio.onended, runners, queue, running)
  /\ UNCHANGED <<voice, replyVars, buffer, said, heard, ended>>

(* Then its play() promise is rejected: done() again.  It takes away the   *)
(* handlers of whatever the element has loaded by now, and resolves the    *)
(* promise if the event found no handler.                                  *)
RejectionFollows ==
  /\ MicrotasksDone
  /\ audio.rejected # None
  /\ audio' = [audio EXCEPT !.onended = None, !.rejected = None]
  /\ \/ Resolve(audio.rejected, runners, queue, running)
     \/ /\ \A r \in runners : r.at = "playing" => r.clip # audio.rejected
        /\ UNCHANGED <<queue, running, runners, clips>>
  /\ UNCHANGED <<voice, replyVars, buffer, said, heard, broken, ended>>

(* The clip ends or breaks off: done(), if it is still on the element.     *)
ClipEnds ==
  /\ BetweenEvents
  /\ audio.playback = "playing"
  /\ audio' = [audio EXCEPT !.playback = "stopped", !.onended = None]
  /\ IF audio.onended = None
       THEN UNCHANGED <<queue, running, runners, clips>>
       ELSE Resolve(audio.onended, runners, queue, running)
  /\ UNCHANGED <<voice, replyVars, buffer, said, heard, broken, ended>>

-----------------------------------------------------------------------------
Speak ==
  \/ \E s \in Sentences : FetchSettles(s)
  \/ \E r \in runners : SkipNull(r) \/ Play(r)
  \/ PlaybackBegins
  \/ PlaybackRejected
  \/ LoadFails
  \/ RejectionFollows
  \/ ClipEnds

Next ==
  \/ StartVoice
  \/ StopVoice
  \/ Send
  \/ Delta
  \/ DeltaEndsSentence
  \/ ReplyEnds
  \/ ReplyFails
  \/ Speak

Spec == Init /\ [][Next]_vars

(* The page's tasks run, /api/tts answers every request, and the element   *)
(* plays a clip to its end or reports that it cannot.  Nobody need press a *)
(* button, and the agent may fall silent.                                  *)
Fairness ==
  /\ WF_vars(\E s \in Sentences : FetchSettles(s))
  /\ WF_vars(\E r \in runners : SkipNull(r) \/ Play(r))
  /\ WF_vars(PlaybackBegins \/ PlaybackRejected \/ LoadFails)
  /\ WF_vars(RejectionFollows)
  /\ WF_vars(ClipEnds)

FairSpec == Spec /\ Fairness

-----------------------------------------------------------------------------
(* The values of the variables; an activation works on two different       *)
(* sentences that were asked for, and only clips that arrived are played.  *)
TypeOK ==
  /\ voice \in {"idle", "live"}
  /\ turn \in 0..MaxTurns /\ busy \in BOOLEAN /\ speakLive \in BOOLEAN
  /\ buffer \subseteq Turns
  /\ queue \in Seq(Sentences) /\ running \in BOOLEAN
  /\ \A r \in runners :
       /\ r.at \in {"fetching", "playing"}
       /\ r.clip \in 1..said /\ r.next \in 0..said
       /\ clips[r.clip] # "unasked" /\ r.next # r.clip
  /\ clips \in [Sentences -> {"unasked", "asked", "clip", "null"}]
  /\ audio \in [src : 0..said, onended : 0..said,
                playback : {"stopped", "beginning", "playing", "aborted"}, rejected : 0..said]
  /\ said \in 0..MaxSentences /\ broken \in 0..said /\ ended \in BOOLEAN
  /\ \A i \in 1..Len(heard) : heard[i] \in Sentences /\ clips[heard[i]] = "clip"

(* Until End voice is pressed for the first time there is at most one      *)
(* activation of runTTS, and the flag says whether there is one: this is   *)
(* what the flag is for (lines 447-448 and 463).                           *)
FlagMeansOneRunner ==
  ~ended => /\ running = (runners # {})
            /\ \A r1, r2 \in runners : r1 = r2

(* Until then a clip is given to the element only when the one before it   *)
(* is over, and clips come in the order of their sentences, although the   *)
(* next one is asked for ahead of time and may arrive first.               *)
OneClipAtATime ==
  [][heard' # heard /\ ~ended =>
       /\ audio.playback = "stopped"
       /\ \A i \in 1..Len(heard) : heard[i] < Last(heard')]_vars

(* No sentence is spoken twice, also when the voice is ended and started   *)
(* again while activations of before are still about.                      *)
NoneSpokenTwice ==
  \A i, j \in 1..Len(heard) : heard[i] = heard[j] => i = j

(* The handler on the element is that of the clip it has loaded, and an    *)
(* activation waits for it: done() never ends the wait of another clip.    *)
HandlerIsOfLoadedClip ==
  audio.onended # None =>
    /\ audio.onended = audio.src
    /\ \E r \in runners : r.at = "playing" /\ r.clip = audio.src

(* The bookkeeping of runners, handlers and clips is sound.                *)
RunnersKeepOrder == FlagMeansOneRunner /\ NoneSpokenTwice /\ HandlerIsOfLoadedClip

(* What is put together for speaking is text of the reply that streams in, *)
(* never a rest of one that broke off.                                     *)
SpokenTextIsOfThisReply ==
  busy /\ speakLive => buffer \subseteq {turn}

(* An activation waits for a clip that has no handlers any more, although  *)
(* nothing was wrong with it: the clip before it could not be loaded, and  *)
(* the second done() of that one came when this one was on the element.    *)
WaitsUnheard ==
  /\ audio.onended = None /\ audio.rejected = None /\ audio.playback \in {"playing", "stopped"}
  /\ \E r \in runners : r.at = "playing" /\ r.clip = audio.src
  /\ Len(heard) > 1 /\ heard[Len(heard) - 1] = broken

(* A sentence that was enqueued is given to the element or its synthesis   *)
(* has failed, sooner or later, unless the voice is ended or an activation *)
(* hangs behind a clip that could not be loaded (WaitsUnheard): nothing    *)
(* else stops the sentences, not an activation that was just ending when   *)
(* one was enqueued, nor a failed synthesis, nor a refused play().         *)
EverySentenceComes ==
  \A s \in Sentences :
    said >= s ~> ended \/ WaitsUnheard \/ clips[s] = "null" \/ s \in ToSet(heard)

(* chat-app/README.md:104: "audio plays in order without overlapping".     *)
PlaysInOrder ==
  [][heard' # heard => \A i \in 1..Len(heard) : heard[i] < Last(heard')]_vars
=============================================================================
