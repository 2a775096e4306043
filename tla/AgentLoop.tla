------------------------------ MODULE AgentLoop ------------------------------
(***************************************************************************)
(* The agent loop of src/silkcode/agent/loop.py: the conversation one      *)
(* agent keeps over many turns, its model and tool calls, the stop         *)
(* request, the interrupt of the REPL and its repair, the compaction of    *)
(* the context with the light model's checkpoint, and the cut of a fork    *)
(* (src/silkcode/sessions.py).                                             *)
(*                                                                         *)
(* A message is what its role says it is; what it says is its id.  Its     *)
(* size is 1, or 2 for a tool output that has not been truncated.          *)
(***************************************************************************)
EXTENDS Naturals, Sequences, FiniteSets

CONSTANTS
  MaxSteps,     \* MAX_STEPS: model calls of one turn
  MaxContext,   \* max_context_tokens, in messages
  KeepRecent,   \* KEEP_RECENT_TOOL_RESULTS
  Light,        \* the light model: "none", "works" or "may fail"
  Interrupts,   \* when Ctrl-C may come in the REPL; {} for the page
  MaxCalls,     \* bound: tool calls of one answer
  MaxTurns      \* bound: turns

ASSUME LoopAssumption ==
  /\ MaxSteps \in Nat \ {0} /\ MaxContext \in Nat /\ KeepRecent \in Nat \ {0}
  /\ Light \in {"none", "works", "may fail"}
  /\ Interrupts \subseteq {"model", "first tool", "later tool"}
  /\ MaxCalls \in Nat \ {0} /\ MaxTurns \in Nat \ {0}

VARIABLES
  messages,     \* Agent.messages without the system message
  trimmed,      \* trimmed_messages
  stop,         \* stop_requested
  pc,           \* where the turn thread is
  step,         \* model calls of this turn
  turn,         \* turns so far
  said,         \* messages appended so far; the id of the last one
  \* Observability: the id of the user message that the turn is about.
  request

history == <<messages, trimmed, said, request>>
vars == <<history, stop, pc, step, turn>>

\* calls: tool calls of an assistant message.  of, n: the assistant message
\* and the call that a tool message answers.  covers: the messages that a
\* checkpoint summarizes.
Message == [role : {"user", "assistant", "tool", "checkpoint"}, id : Nat, calls : 0..MaxCalls,
            of : Nat, n : 0..MaxCalls, long : BOOLEAN, covers : SUBSET Nat]

Plain == [role |-> "user", id |-> 0, calls |-> 0, of |-> 0, n |-> 0, long |-> FALSE,
          covers |-> {}]

TypeOK ==
  /\ messages \in Seq(Message)
  /\ trimmed \in Nat /\ said \in Nat /\ request \in Nat
  /\ stop \in BOOLEAN
  /\ pc \in {"idle", "starting", "compact", "model", "calls", "tool"}
  /\ step \in 0..MaxSteps
  /\ turn \in 0..MaxTurns

Init ==
  /\ messages = <<>> /\ trimmed = 0 /\ said = 0 /\ request = 0
  /\ stop = FALSE
  /\ pc = "idle" /\ step = 0 /\ turn = 0

-----------------------------------------------------------------------------
(***************************************************************************)
(* Conversations.                                                          *)
(***************************************************************************)
\* What a provider accepts: the tool messages after an assistant message
\* answer its calls one by one, and there are no others.
WellFormed(h) ==
  \A i \in DOMAIN h :
    /\ h[i].role = "assistant" =>
         \A k \in 1..h[i].calls :
           /\ i + k <= Len(h)
           /\ h[i + k].role = "tool" /\ h[i + k].of = h[i].id /\ h[i + k].n = k
    /\ h[i].role = "tool" =>
         /\ h[i].n \in 1..(i - 1)
         /\ h[i - h[i].n].role = "assistant" /\ h[i - h[i].n].id = h[i].of
         /\ h[i].n <= h[i - h[i].n].calls

Last(h) == h[Len(h)]

Ids(h) == {h[i].id : i \in DOMAIN h}

Users(h) == {i \in DOMAIN h : h[i].role = "user"}

\* context_tokens.
Size(h) == Len(h) + Cardinality({i \in DOMAIN h : h[i].long})

\* The assistant message whose calls are being answered, and the answers.
Asking == CHOOSE i \in DOMAIN messages :
            /\ messages[i].role = "assistant"
            /\ \A j \in DOMAIN messages : j > i => messages[j].role = "tool"

Answered == Len(messages) - Asking

Say(m) ==
  /\ said' = said + 1
  /\ messages' = Append(messages, [m EXCEPT !.id = said + 1])

Answer(i, k, long) == [Plain EXCEPT !.role = "tool", !.of = messages[i].id, !.n = k, !.long = long]

-----------------------------------------------------------------------------
(***************************************************************************)
(* A turn.                                                                 *)
(***************************************************************************)
\* start_turn: the session is marked running and its thread started.
StartTurn ==
  /\ pc = "idle" /\ turn < MaxTurns
  /\ pc' = "starting"
  /\ turn' = turn + 1
  /\ UNCHANGED <<history, stop, step>>

\* run_turn up to its loop.
BeginTurn ==
  /\ pc = "starting"
  /\ pc' = "compact"
  /\ stop' = FALSE
  /\ step' = 1
  /\ Say(Plain)
  /\ request' = said + 1
  /\ UNCHANGED <<trimmed, turn>>

\* _compact, stage 1: all but the most recent tool results are truncated.
Truncated(h) ==
  LET tools == {i \in DOMAIN h : h[i].role = "tool"}
  IN  [i \in DOMAIN h |->
         IF i \in tools /\ Cardinality({j \in tools : j > i}) >= KeepRecent
           THEN [h[i] EXCEPT !.long = FALSE] ELSE h[i]]

\* Stage 2: whole turns are dropped from the first user message on, until
\* the rest fits or only the current turn is left.
First(h) == CHOOSE i \in Users(h) : \A j \in Users(h) : i <= j

Without(h, cut) == SubSeq(h, 1, First(h) - 1) \o SubSeq(h, cut, Len(h))

Least(cuts, h, last) ==
  LET enough(cut) == Size(Without(h, cut)) <= MaxContext \/ cut = last
  IN  {cut \in cuts : enough(cut) /\ \A c \in cuts : c < cut => ~enough(c)}

Latest(h) == CHOOSE i \in Users(h) : \A j \in Users(h) : j <= i

\* Mutant of Cuts: messages are dropped one by one.
CutsAnywhere(h) == Least(First(h)..Latest(h), h, Latest(h))

\* Mutant of Cuts: the current turn may be dropped too.
CutsAll(h) == Least(Users(h) \cup {Len(h) + 1}, h, Len(h) + 1)

Cuts(h) == Least(Users(h), h, Latest(h))

\* _write_checkpoint: the earlier checkpoint, the first that is found, goes
\* into the new one.
Earlier(h) == {i \in DOMAIN h : /\ h[i].role = "checkpoint"
                               /\ \A j \in 1..(i - 1) : h[j].role # "checkpoint"}

WithoutEarlier(h) ==
  IF Earlier(h) = {} THEN h
  ELSE LET i == CHOOSE i \in Earlier(h) : TRUE IN SubSeq(h, 1, i - 1) \o SubSeq(h, i + 1, Len(h))

\* Mutant of Checkpoint: the earlier one is thrown away.
CheckpointAfresh(h, dropped) == [Plain EXCEPT !.role = "checkpoint", !.covers = Ids(dropped)]

Checkpoint(h, dropped) ==
  [Plain EXCEPT !.role = "checkpoint",
                !.covers = Ids(dropped) \cup UNION {h[i].covers : i \in Earlier(h)}]

Summarized(h, dropped) ==
  LET kept == WithoutEarlier(h)
  IN  IF Light = "none" \/ dropped = <<>> THEN {h}
      ELSE {<<Checkpoint(h, dropped)>> \o kept} \cup (IF Light = "may fail" THEN {kept} ELSE {})

\* Mutant of Compact: turns are counted, not messages.
CompactCountsTurns ==
  /\ pc = "compact"
  /\ pc' = "model"
  /\ IF Size(messages) <= MaxContext
       THEN UNCHANGED <<messages, trimmed>>
       ELSE LET h == Truncated(messages)
            IN  \E cut \in IF Size(h) <= MaxContext THEN {First(h)} ELSE Cuts(h) :
                  LET dropped == SubSeq(h, First(h), cut - 1)
                  IN  /\ trimmed' = trimmed + Cardinality(Users(dropped))
                      /\ messages' \in Summarized(Without(h, cut), dropped)
  /\ UNCHANGED <<said, request, stop, step, turn>>

\* _call_model before the request: _compact.
Compact ==
  /\ pc = "compact"
  /\ pc' = "model"
  /\ IF Size(messages) <= MaxContext
       THEN UNCHANGED <<messages, trimmed>>
       ELSE LET h == Truncated(messages)
            IN  \E cut \in IF Size(h) <= MaxContext THEN {First(h)} ELSE Cuts(h) :
                  LET dropped == SubSeq(h, First(h), cut - 1)
                  IN  /\ trimmed' = trimmed + Len(dropped)
                      /\ messages' \in Summarized(Without(h, cut), dropped)
  /\ UNCHANGED <<said, request, stop, step, turn>>

\* The provider's answer; one without tool calls ends the turn.
Reply(calls) ==
  /\ pc = "model"
  /\ pc' = IF calls = 0 THEN "idle" ELSE "calls"
  /\ Say([Plain EXCEPT !.role = "assistant", !.calls = calls])
  /\ UNCHANGED <<trimmed, request, stop, step, turn>>

\* ProviderError, or a stream without a result.
ModelFails ==
  /\ pc = "model"
  /\ pc' = "idle"
  /\ UNCHANGED <<history, stop, step, turn>>

\* The next call of the answer: executed, or cancelled by a stop request.
CallTool ==
  /\ pc = "calls" /\ Answered < messages[Asking].calls
  /\ ~stop
  /\ pc' = "tool"
  /\ UNCHANGED <<history, stop, step, turn>>

CancelTool ==
  /\ pc = "calls" /\ Answered < messages[Asking].calls
  /\ stop
  /\ Say(Answer(Asking, Answered + 1, FALSE))
  /\ UNCHANGED <<trimmed, request, stop, pc, step, turn>>

ToolDone(long) ==
  /\ pc = "tool"
  /\ pc' = "calls"
  /\ Say(Answer(Asking, Answered + 1, long))
  /\ UNCHANGED <<trimmed, request, stop, step, turn>>

\* Mutant of NextStep: one step too many.
NextStepLate ==
  /\ pc = "calls" /\ Answered = messages[Asking].calls
  /\ IF stop \/ step > MaxSteps
       THEN pc' = "idle" /\ UNCHANGED step
       ELSE pc' = "compact" /\ step' = step + 1
  /\ UNCHANGED <<history, stop, turn>>

\* Mutant of NextStep: a stopped turn waits for the flag to be cleared.
NextStepWaits ==
  /\ pc = "calls" /\ Answered = messages[Asking].calls
  /\ ~stop
  /\ IF step = MaxSteps
       THEN pc' = "idle" /\ UNCHANGED step
       ELSE pc' = "compact" /\ step' = step + 1
  /\ UNCHANGED <<history, stop, turn>>

\* All calls are answered: stopped, out of steps, or the next model call.
NextStep ==
  /\ pc = "calls" /\ Answered = messages[Asking].calls
  /\ IF stop \/ step = MaxSteps
       THEN pc' = "idle" /\ UNCHANGED step
       ELSE pc' = "compact" /\ step' = step + 1
  /\ UNCHANGED <<history, stop, turn>>

\* request_stop, from /api/stop or close_session while the session runs.
RequestStop ==
  /\ pc # "idle"
  /\ stop' = TRUE
  /\ UNCHANGED <<history, pc, step, turn>>

\* repair_dangling_tool_calls.
Repaired(h) ==
  IF h # <<>> /\ Last(h).role = "assistant"
    THEN h \o [k \in 1..Last(h).calls |-> [Answer(Len(h), k, FALSE) EXCEPT !.id = said + k]]
    ELSE h

\* Ctrl-C while the model or a tool is at work.
Interrupt ==
  /\ \/ pc = "model" /\ "model" \in Interrupts
     \/ pc = "tool" /\ (IF Answered = 0 THEN "first tool" ELSE "later tool") \in Interrupts
  /\ pc' = "idle"
  /\ messages' = Repaired(messages)
  /\ said' = said + (Len(messages') - Len(messages))
  /\ UNCHANGED <<trimmed, request, stop, step, turn>>

Work ==
  \/ BeginTurn \/ Compact \/ ModelFails \/ CallTool \/ CancelTool \/ NextStep
  \/ \E calls \in 0..MaxCalls : Reply(calls)
  \/ \E long \in BOOLEAN : ToolDone(long)

Next == StartTurn \/ Work \/ RequestStop \/ Interrupt

Spec == Init /\ [][Next]_vars

\* The turn thread runs on; the provider answers or fails, tools time out.
FairSpec == Spec /\ WF_vars(Work)

-----------------------------------------------------------------------------
(***************************************************************************)
(* Forks.                                                                  *)
(***************************************************************************)
\* Mutant of SafeCut: only the tool results are stripped.
SafeCutTools(h) ==
  LET end == CHOOSE e \in 0..Len(h) :
               /\ e > 0 => h[e].role # "tool"
               /\ \A i \in (e + 1)..Len(h) : h[i].role = "tool"
  IN  SubSeq(h, 1, end)

\* _safe_cut: a prefix is stripped back to the end of a complete exchange.
SafeCut(h) ==
  LET end == CHOOSE e \in 0..Len(h) :
               /\ e > 0 => h[e].role # "tool"
               /\ \A i \in (e + 1)..Len(h) : h[i].role = "tool"
      calls == IF end > 0 THEN h[end].calls ELSE 0
  IN  IF calls = 0 THEN SubSeq(h, 1, end)
      ELSE IF calls = Len(h) - end THEN h
      ELSE SubSeq(h, 1, end - 1)

-----------------------------------------------------------------------------
(***************************************************************************)
(* Properties.                                                             *)
(***************************************************************************)
\* "So the message history stays valid for the next request": what is sent
\* to the provider has an answer for every tool call and nothing else.
RequestIsValid == pc = "model" => WellFormed(messages)

\* A fork taken at any message, even in the middle of a turn, is a
\* conversation that a provider accepts.
ForksAreValid ==
  \A k \in 0..Len(messages) : WellFormed(SafeCut(SubSeq(messages, 1, k)))

\* What a provider is sent, now or from a fork, is always acceptable to it.
HistoriesAreValid == RequestIsValid /\ ForksAreValid

\* The number the context note gives the model is right: each message is in
\* the conversation or was counted as trimmed.
TrimmedIsExact ==
  trimmed + Cardinality({i \in DOMAIN messages : messages[i].role # "checkpoint"}) = said

\* Compaction never takes away the request the agent is working on.
CurrentRequestKept ==
  pc \in {"compact", "model", "calls", "tool"} => request \in Ids(messages)

\* "With a light model configured it becomes a checkpoint instead of
\* vanishing" (_compact), and an earlier checkpoint "joins the input": every
\* message is in the conversation or in its checkpoint.
NothingVanishes ==
  1..said \subseteq Ids(messages) \cup UNION {messages[i].covers : i \in DOMAIN messages}

\* Compaction loses no message without a trace, nor the current request, nor
\* the count of what it trimmed.
CompactionIsExact == TrimmedIsExact /\ CurrentRequestKept /\ NothingVanishes

\* Every turn ends, stop request or not.
TurnEnds == (pc # "idle") ~> (pc = "idle")
=============================================================================
