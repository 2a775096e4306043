----------------------------- MODULE TurnStream -----------------------------
(***************************************************************************)
(* What a turn says, from the provider to the page: the streamed answers   *)
(* with their retries (openai_compat.py), the agent's loop that takes them *)
(* (agent/loop.py), the session's transcript and text buffer, the event    *)
(* queues of the pages (gui/server.py), and what a page shows (app.html).  *)
(* One session; texts are numbered in the order they are streamed.         *)
(***************************************************************************)
EXTENDS Naturals, Sequences

CONSTANTS
  Page,       \* open tabs that show the session
  Retries,    \* the provider's setting
  MAX_STEPS,  \* model calls a turn may make
  MaxTexts,   \* bound: texts streamed
  MaxCalls,   \* bound: tool-call deltas of one answer
  MaxTurns    \* bound: turns

VARIABLES
  turn,        \* where the turn is, its number, and that of its model call
  reply,       \* the answer being streamed: see stream()
  texts,       \* the number of texts streamed so far
  transcript,  \* the session's transcript
  buffer,      \* its _text_buffer
  queue,       \* the event queue of each connected page
  page         \* what each page shows, and the snapshot on its way to it

vars == <<turn, reply, texts, transcript, buffer, queue, page>>

Item      == [kind : {"user", "text", "tool", "error"}, n : 0..MaxTexts]
Of(kind)  == [kind |-> kind, n |-> 0]
Said(n)   == [kind |-> "text", n |-> n]
Texts(s)  == {i \in DOMAIN s : s[i].kind = "text"}
NoReply   == [attempt |-> 0, started |-> FALSE, content |-> <<>>, calls |-> <<>>]
Blank     == [at |-> "blank", shown |-> <<>>, coming |-> <<>>, calm |-> FALSE]

TypeOK ==
  /\ turn \in [at : {"idle", "ask", "stream", "tools", "failed", "flush", "clear"},
               then : {"tool", "done"},
               no : 0..MaxTurns, step : 1..MAX_STEPS]
  /\ reply \in [attempt : 0..Retries, started : BOOLEAN, content : Seq(0..Retries),
                calls : Seq(0..Retries)]
  /\ texts \in 0..MaxTexts
  /\ transcript \in Seq(Item) /\ buffer \in Seq(Item)
  /\ queue \in [Page -> [on : BOOLEAN, events : Seq(Item)]]
  /\ page \in [Page -> [at : {"blank", "copying", "coming", "shown"}, shown : Seq(Item),
                        coming : Seq(Item), calm : BOOLEAN]]

Init ==
  /\ turn = [at |-> "idle", then |-> "done", no |-> 0, step |-> 1]
  /\ reply = NoReply
  /\ texts = 0
  /\ transcript = <<>> /\ buffer = <<>>
  /\ queue = [p \in Page |-> [on |-> FALSE, events |-> <<>>]]
  /\ page = [p \in Page |-> Blank]

-----------------------------------------------------------------------------
(* broadcast() reaches the queues subscribed at the moment.                *)
BroadcastBounded(e) ==
  queue' = [p \in Page |-> IF queue[p].on /\ queue[p].events = <<>>
                           THEN [queue[p] EXCEPT !.events = <<e>>] ELSE queue[p]]
Broadcast(e) ==
  queue' = [p \in Page |-> IF queue[p].on THEN [queue[p] EXCEPT !.events = Append(@, e)]
                           ELSE queue[p]]

Goto(at)  == turn' = [turn EXCEPT !.at = at]
Report(i) == transcript' = Append(transcript, i) /\ Broadcast(i)

(* start_turn(): a page that was loading is no longer loading in peace.    *)
StartTurn ==
  /\ turn.at = "idle" /\ turn.no < MaxTurns
  /\ turn' = [at |-> "ask", then |-> "done", no |-> turn.no + 1, step |-> 1]
  /\ Report(Of("user"))
  /\ page' = [p \in Page |-> IF page[p].at \in {"copying", "coming"}
                             THEN [page[p] EXCEPT !.calm = FALSE] ELSE page[p]]
  /\ UNCHANGED <<reply, texts, buffer>>

(* stream(): the request is refused, and asked again when the status says  *)
(* so; or its answer is accepted.                                          *)
Again(retry) ==
  IF retry /\ reply.attempt < Retries
  THEN Goto("ask") /\ reply' = [reply EXCEPT !.attempt = @ + 1]
  ELSE Goto("failed") /\ UNCHANGED reply

Refused ==
  /\ turn.at = "ask"
  /\ \E busy \in BOOLEAN : Again(busy /\ ~reply.started)
  /\ UNCHANGED <<texts, transcript, buffer, queue, page>>

Accepted ==
  /\ turn.at = "ask"
  /\ Goto("stream")
  /\ UNCHANGED <<reply, texts, transcript, buffer, queue, page>>

(* A text goes straight to the transcript's buffer and to the pages.       *)
Text ==
  /\ turn.at = "stream" /\ texts < MaxTexts
  /\ texts' = texts + 1
  /\ reply' = [reply EXCEPT !.started = TRUE, !.content = Append(@, reply.attempt)]
  /\ buffer' = Append(buffer, Said(texts + 1))
  /\ Broadcast(Said(texts + 1))
  /\ UNCHANGED <<turn, transcript, page>>

(* A piece of a tool call's arguments only goes to `calls`.                *)
CallDelta ==
  /\ turn.at = "stream" /\ Len(reply.calls) < MaxCalls
  /\ reply' = [reply EXCEPT !.calls = Append(@, reply.attempt)]
  /\ UNCHANGED <<turn, texts, transcript, buffer, queue, page>>

(* The connection breaks, or a line is no JSON (which is never retried).   *)
BreaksAnyway ==
  /\ turn.at = "stream"
  /\ \E transient \in BOOLEAN : Again(transient)
  /\ UNCHANGED <<texts, transcript, buffer, queue, page>>
Breaks ==
  /\ turn.at = "stream"
  /\ \E transient \in BOOLEAN : Again(transient /\ ~reply.started)
  /\ UNCHANGED <<texts, transcript, buffer, queue, page>>

(* [DONE], or the connection's regular end: run_turn() has its result.     *)
Ends ==
  /\ turn.at = "stream"
  /\ IF reply.calls = <<>> THEN turn' = [turn EXCEPT !.at = "flush", !.then = "done"]
     ELSE Goto("tools")
  /\ UNCHANGED <<reply, texts, transcript, buffer, queue, page>>

(* The tool runs, or its arguments are refused and nothing is shown of it. *)
NextStep ==
  turn' = IF turn.step < MAX_STEPS THEN [turn EXCEPT !.at = "ask", !.step = @ + 1]
          ELSE [turn EXCEPT !.at = "flush", !.then = "done"]

ToolStarts ==
  /\ turn.at = "tools"
  /\ turn' = [turn EXCEPT !.at = "flush", !.then = "tool"]
  /\ UNCHANGED <<reply, texts, transcript, buffer, queue, page>>

ToolRefused ==
  /\ turn.at = "tools"
  /\ NextStep /\ reply' = NoReply
  /\ UNCHANGED <<texts, transcript, buffer, queue, page>>

Stopped ==
  /\ turn.at = "tools"
  /\ turn' = [turn EXCEPT !.at = "flush", !.then = "done"]
  /\ UNCHANGED <<reply, texts, transcript, buffer, queue, page>>

(* report() of _run_turn: the error is in the transcript before the text   *)
(* that is still in the buffer.                                            *)
FailsSilently ==
  /\ turn.at = "failed"
  /\ turn' = [turn EXCEPT !.at = "idle", !.then = "done"]
  /\ reply' = NoReply
  /\ Report(Of("error"))
  /\ UNCHANGED <<texts, buffer, page>>
Fails ==
  /\ turn.at = "failed"
  /\ turn' = [turn EXCEPT !.at = "flush", !.then = "done"]
  /\ Report(Of("error"))
  /\ UNCHANGED <<reply, texts, buffer, page>>

(* flush_text(): the buffer's text is put into the transcript ...          *)
FlushAppend ==
  /\ turn.at = "flush"
  /\ Goto("clear")
  /\ transcript' = transcript \o buffer
  /\ UNCHANGED <<reply, texts, buffer, queue, page>>

(* ... before the buffer is cleared; then the turn goes on or is done.     *)
FlushClear ==
  /\ turn.at = "clear"
  /\ buffer' = <<>>
  /\ reply' = NoReply
  /\ IF turn.then = "tool" THEN NextStep /\ Report(Of("tool"))
     ELSE Goto("idle") /\ UNCHANGED <<transcript, queue>>
  /\ UNCHANGED <<texts, page>>

-----------------------------------------------------------------------------
(* The page opens its event stream and loads the transcript, in any order. *)

Connect(p) ==
  /\ ~queue[p].on
  /\ queue' = [queue EXCEPT ![p] = [on |-> TRUE, events |-> <<>>]]
  /\ UNCHANGED <<turn, reply, texts, transcript, buffer, page>>

(* The stream breaks, with what was in its queue; the browser reconnects   *)
(* by itself, and the page does not load again; unless the user does it.   *)
Disconnect(p) ==
  /\ queue[p].on
  /\ queue' = [queue EXCEPT ![p] = [on |-> FALSE, events |-> <<>>]]
  /\ \/ page' = [page EXCEPT ![p].calm = FALSE]
     \/ page[p].at = "shown" /\ page' = [page EXCEPT ![p] = Blank]
  /\ UNCHANGED <<turn, reply, texts, transcript, buffer>>

(* transcript_snapshot(): the transcript is copied, then the buffer.       *)
Copy(p) ==
  /\ page[p].at = "blank"
  /\ page' = [page EXCEPT ![p].at = "copying", ![p].coming = transcript,
                          ![p].calm = turn.at = "idle" /\ queue[p] = [on |-> TRUE, events |-> <<>>]]
  /\ UNCHANGED <<turn, reply, texts, transcript, buffer, queue>>

CopyBuffer(p) ==
  /\ page[p].at = "copying"
  /\ page' = [page EXCEPT ![p].at = "coming", ![p].coming = @ \o buffer]
  /\ UNCHANGED <<turn, reply, texts, transcript, buffer, queue>>

Show(p) ==
  /\ page[p].at = "coming"
  /\ page' = [page EXCEPT ![p].at = "shown", ![p].shown = page[p].coming, ![p].coming = <<>>]
  /\ UNCHANGED <<turn, reply, texts, transcript, buffer, queue>>

(* handleEvent(): applied to what the page shows at the moment.            *)
Deliver(p) ==
  /\ queue[p].events # <<>>
  /\ queue' = [queue EXCEPT ![p].events = Tail(@)]
  /\ page' = [page EXCEPT ![p].shown = Append(@, Head(queue[p].events))]
  /\ UNCHANGED <<turn, reply, texts, transcript, buffer>>

Next ==
  \/ StartTurn \/ Refused \/ Accepted \/ Text \/ CallDelta \/ Breaks \/ Ends
  \/ ToolStarts \/ ToolRefused \/ Stopped \/ Fails \/ FlushAppend \/ FlushClear
  \/ \E p \in Page : \/ Connect(p) \/ Disconnect(p)
                     \/ Copy(p) \/ CopyBuffer(p) \/ Show(p) \/ Deliver(p)

Spec == Init /\ [][Next]_vars

-----------------------------------------------------------------------------
(* No text is streamed twice: what an answer says is of one attempt, the   *)
(* last (the comment of stream(): a retry after the first chunk would      *)
(* duplicate output).                                                      *)
TextIsOnce == \A i \in 1..Len(reply.content) : reply.content[i] = reply.attempt

(* The arguments handed to a tool are those of one attempt as well.        *)
ArgumentsAreWhole ==
  turn.at = "tools" => \A i \in 1..Len(reply.calls) : reply.calls[i] = reply.attempt

(* Items that say texts 1 to n, each once and in order.                    *)
Says(s, n) ==
  /\ {s[i].n : i \in Texts(s)} = 1..n
  /\ \A i, j \in Texts(s) : i < j => s[i].n < s[j].n

(* When no turn runs, the transcript holds every text there has been, once *)
(* and in order, however the turns ended.                                  *)
TranscriptIsComplete == turn.at = "idle" => buffer = <<>> /\ Says(transcript, texts)

(* A page that loaded while no turn ran, and whose stream has not broken   *)
(* since, shows or is about to be sent every text, once and in order.      *)
PageFollows ==
  \A p \in Page : page[p].at = "shown" /\ page[p].calm =>
    Says(page[p].shown \o queue[p].events, texts)
=============================================================================
