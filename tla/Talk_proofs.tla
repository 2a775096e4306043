----------------------------- MODULE Talk_proofs -----------------------------
(***************************************************************************)
(* What is proved about the conversations that meet in MCDesk: what a turn *)
(* says to the pages, and what the terminal's prompt saves.  It holds for  *)
(* every number of pages, texts, calls, retries, turns, models and         *)
(* directories.                                                            *)
(***************************************************************************)
EXTENDS MCDesk, SequenceTheorems, TLAPS

-----------------------------------------------------------------------------
(***************************************************************************)
(* TurnStream: what is said arrives once and in order.  Every text is in   *)
(* the transcript or in the buffer that will be put there, and with a page *)
(* that follows it is shown or in the page's queue.                        *)
(***************************************************************************)
StreamConstants ==
  /\ Retries \in Nat /\ MAX_STEPS \in Nat \ {0} /\ MaxTexts \in Nat /\ MaxCalls \in Nat
  /\ StreamTurns \in Nat

Items == Seq(Stream!Item)

LEMMA SaidIsItem ==
  ASSUME StreamConstants, NEW n \in 0..MaxTexts
  PROVE  Stream!Said(n) \in Stream!Item /\ Stream!Said(n).kind = "text" /\ Stream!Said(n).n = n
BY DEF Stream!Said, Stream!Item, StreamConstants

LEMMA OfIsItem ==
  ASSUME StreamConstants, NEW kind \in {"user", "tool", "error"}
  PROVE  Stream!Of(kind) \in Stream!Item /\ Stream!Of(kind).kind # "text"
BY DEF Stream!Of, Stream!Item, StreamConstants

LEMMA NothingSays == Stream!Says(<<>>, 0)
<1>1. Stream!Texts(<<>>) = {}
  BY DEF Stream!Texts
<1> QED
  BY <1>1 DEF Stream!Says

\* What is inserted and is no text leaves the texts as they are.
LEMMA InsertSays ==
  ASSUME NEW s \in Items, NEW t \in Items, NEW n \in Nat, Stream!Says(s \o t, n),
         NEW x \in Stream!Item, x.kind # "text"
  PROVE  Stream!Says(Append(s, x) \o t, n)
<1> DEFINE u == s \o t
           v == Append(s, x) \o t
           k == Len(s)
           Moved(i) == IF i <= k THEN i ELSE i + 1
<1>1. /\ u \in Items /\ Len(u) = k + Len(t) /\ k \in Nat /\ Len(t) \in Nat
      /\ \A i \in 1..Len(u) : u[i] = IF i <= k THEN s[i] ELSE t[i - k]
  BY ConcatProperties, LenProperties DEF Items
<1>2. /\ v \in Items /\ Len(v) = k + 1 + Len(t)
      /\ \A i \in 1..Len(v) : v[i] = IF i <= k + 1 THEN Append(s, x)[i] ELSE t[i - k - 1]
  <2>1. PICK w \in Items : w = Append(s, x) /\ Len(w) = k + 1
    BY AppendProperties DEF Items
  <2>2. /\ w \o t \in Items /\ Len(w \o t) = Len(w) + Len(t)
        /\ \A i \in 1..(Len(w) + Len(t)) : (w \o t)[i] = IF i <= Len(w) THEN w[i] ELSE t[i - Len(w)]
    BY ConcatProperties DEF Items
  <2>3. v = w \o t
    BY <2>1
  <2> HIDE DEF v, k, u
  <2>4. Len(w) = k + 1 /\ Len(v) = k + 1 + Len(t)
    BY <1>1, <2>1, <2>2, <2>3
  <2>5. ASSUME NEW i \in 1..Len(v) PROVE v[i] = IF i <= k + 1 THEN w[i] ELSE t[i - k - 1]
    <3>1. v[i] = IF i <= k + 1 THEN w[i] ELSE t[i - (k + 1)]
      BY <2>2, <2>3, <2>4
    <3>2. i - (k + 1) = i - k - 1
      BY <1>1
    <3> QED
      BY <3>1, <3>2
  <2> QED
    BY <2>1, <2>2, <2>3, <2>4, <2>5
<1>3. \A i \in 1..k : Append(s, x)[i] = s[i]
  BY AppendProperties DEF Items
<1>4. Append(s, x)[k + 1] = x
  BY AppendProperties DEF Items
<1>5. /\ \A i \in 1..k : v[i] = u[i]
      /\ v[k + 1] = x
      /\ \A i \in (k + 1)..Len(u) : v[i + 1] = u[i]
  BY <1>1, <1>2, <1>3, <1>4
<1>6. DOMAIN u = 1..Len(u) /\ DOMAIN v = 1..(Len(u) + 1)
  BY <1>1, <1>2, LenProperties DEF Items
<1> HIDE DEF u, v, k
<1>7. /\ \A i \in Stream!Texts(u) : Moved(i) \in Stream!Texts(v) /\ v[Moved(i)] = u[i]
      /\ \A j \in Stream!Texts(v) : \E i \in Stream!Texts(u) : j = Moved(i)
  <2>1. ASSUME NEW i \in Stream!Texts(u) PROVE Moved(i) \in Stream!Texts(v) /\ v[Moved(i)] = u[i]
    BY <1>1, <1>5, <1>6 DEF Stream!Texts
  <2>2. ASSUME NEW j \in Stream!Texts(v) PROVE \E i \in Stream!Texts(u) : j = Moved(i)
    <3>1. j \in 1..(Len(u) + 1) /\ j # k + 1 /\ v[j].kind = "text"
      BY <1>5, <1>6 DEF Stream!Texts
    <3>2. CASE j <= k
      BY <1>1, <1>5, <1>6, <3>1, <3>2 DEF Stream!Texts
    <3>3. CASE j > k
      <4>1. j - 1 \in (k + 1)..Len(u) /\ v[j] = u[j - 1]
        <5>1. j - 1 \in (k + 1)..Len(u) /\ (j - 1) + 1 = j
          BY <1>1, <3>1, <3>3
        <5> QED
          BY <1>5, <5>1
      <4> QED
        BY <1>1, <1>6, <3>1, <4>1 DEF Stream!Texts
    <3> QED
      BY <1>1, <3>1, <3>2, <3>3
  <2> QED
    BY <2>1, <2>2
<1>8. \A i, j \in Stream!Texts(u) : Moved(i) < Moved(j) => i < j
  BY <1>1, <1>6 DEF Stream!Texts
<1>9. Stream!Says(u, n)
  BY DEF u
<1> HIDE DEF Moved
<1>10. {v[i].n : i \in Stream!Texts(v)} = {u[i].n : i \in Stream!Texts(u)}
  BY <1>7
<1>11. \A i, j \in Stream!Texts(v) : i < j => v[i].n < v[j].n
  BY <1>7, <1>8, <1>9 DEF Stream!Says
<1>12. Stream!Says(v, n)
  BY <1>9, <1>10, <1>11 DEF Stream!Says
<1> QED
  BY <1>12 DEF v

\* What is appended and is no text leaves the texts as they are ...
LEMMA AppendSays ==
  ASSUME NEW s \in Items, NEW n \in Nat, Stream!Says(s, n),
         NEW x \in Stream!Item, x.kind # "text"
  PROVE  Stream!Says(Append(s, x), n)
<1>1. <<>> \in Items
  BY DEF Items
<1>2. s \o <<>> = s /\ Append(s, x) \o <<>> = Append(s, x)
  BY ConcatEmptySeq, AppendProperties DEF Items
<1> QED
  BY <1>1, <1>2, InsertSays

\* ... and the next text is one more of them.
LEMMA AppendSaysMore ==
  ASSUME NEW s \in Items, NEW n \in Nat, Stream!Says(s, n),
         NEW x \in Stream!Item, x.kind = "text", x.n = n + 1
  PROVE  Stream!Says(Append(s, x), n + 1)
<1> DEFINE k == Len(s)
<1>1. PICK v : v = Append(s, x)
  OBVIOUS
<1>2. k \in Nat /\ DOMAIN s = 1..k /\ DOMAIN v = 1..(k + 1)
  BY <1>1, AppendProperties, LenProperties DEF Items
<1>3. v[k + 1] = x /\ \A i \in 1..k : v[i] = s[i]
  BY <1>1, AppendProperties DEF Items
<1> HIDE DEF k
<1>4. Stream!Texts(v) = Stream!Texts(s) \cup {k + 1}
  BY <1>2, <1>3 DEF Stream!Texts
<1>5. \A i \in Stream!Texts(s) : v[i] = s[i] /\ i \in Nat /\ i < k + 1
  BY <1>2, <1>3 DEF Stream!Texts
<1>6. {v[i].n : i \in Stream!Texts(v)} = {s[i].n : i \in Stream!Texts(s)} \cup {n + 1}
  BY <1>3, <1>4, <1>5
<1>7. \A i \in Stream!Texts(s) : s[i].n \in 1..n
  BY DEF Stream!Says
<1>8. (1..n) \cup {n + 1} = 1..(n + 1)
  OBVIOUS
<1>9. \A i, j \in Stream!Texts(v) : i < j => v[i].n < v[j].n
  <2> SUFFICES ASSUME NEW i \in Stream!Texts(v), NEW j \in Stream!Texts(v), i < j PROVE v[i].n < v[j].n
    OBVIOUS
  <2>1. i \in Stream!Texts(s)
    BY <1>2, <1>4, <1>5
  <2>2. CASE j = k + 1
    <3>1. v[j].n = n + 1
      BY <1>3, <2>2
    <3>2. s[i].n \in 1..n /\ v[i].n = s[i].n
      BY <1>5, <1>7, <2>1
    <3> QED
      BY <3>1, <3>2
  <2>3. CASE j \in Stream!Texts(s)
    BY <1>5, <2>1, <2>3 DEF Stream!Says
  <2> QED
    BY <1>4, <2>2, <2>3
<1> QED
  BY <1>1, <1>6, <1>8, <1>9 DEF Stream!Says

LEMMA AppendToLast ==
  ASSUME NEW s \in Items, NEW t \in Items, NEW x \in Stream!Item
  PROVE  s \o Append(t, x) = Append(s \o t, x)
<1>1. Append(t, x) = t \o <<x>> /\ <<x>> \in Items
  BY AppendIsConcat DEF Items
<1>2. s \o t \in Items
  BY ConcatProperties DEF Items
<1>3. Append(s \o t, x) = (s \o t) \o <<x>>
  BY <1>2, AppendIsConcat DEF Items
<1> QED
  BY <1>1, <1>3, ConcatAssociative DEF Items

LEMMA MoveHead ==
  ASSUME NEW s \in Items, NEW t \in Items, t # <<>>
  PROVE  Append(s, Head(t)) \o Tail(t) = s \o t
<1>1. Head(t) \in Stream!Item /\ Tail(t) \in Items /\ <<Head(t)>> \in Items
  BY HeadTailProperties DEF Items
<1>2. Append(s, Head(t)) = s \o <<Head(t)>>
  BY <1>1, AppendIsConcat DEF Items
<1>3. (s \o <<Head(t)>>) \o Tail(t) = s \o (<<Head(t)>> \o Tail(t))
  BY <1>1, ConcatAssociative DEF Items
<1>4. <<Head(t)>> \o Tail(t) = t
  <2>1. PICK u \in Items : u = <<Head(t)>> \o Tail(t)
    BY <1>1, ConcatProperties DEF Items
  <2>2. /\ Len(t) \in Nat /\ Len(Tail(t)) = Len(t) - 1
        /\ \A i \in 1..Len(Tail(t)) : Tail(t)[i] = t[i + 1]
        /\ Head(t) = t[1]
    BY HeadTailProperties, LenProperties DEF Items
  <2>3. /\ Len(u) = 1 + Len(Tail(t))
        /\ \A i \in 1..(1 + Len(Tail(t))) : u[i] = IF i <= 1 THEN Head(t) ELSE Tail(t)[i - 1]
    BY <1>1, <2>1, ConcatProperties DEF Items
  <2>4. \A i \in 1..Len(u) : u[i] = t[i]
    BY <2>2, <2>3
  <2> QED
    BY <2>1, <2>2, <2>3, <2>4, SeqEqual DEF Items
<1> QED
  BY <1>2, <1>3, <1>4

Calm(p) ==
  page[p].calm =>
    /\ queue[p].on /\ page[p].at # "blank"
    /\ page[p].at \in {"copying", "coming"} =>
         turn.at = "idle" /\ queue[p].events = <<>> /\ Stream!Says(page[p].coming, texts)
    /\ page[p].at = "shown" => Stream!Says(page[p].shown \o queue[p].events, texts)

\* The transcript with what is still to be put there.
Spoken ==
  /\ turn.at # "clear" => Stream!Says(transcript \o buffer, texts)
  /\ turn.at = "clear" => Stream!Says(transcript, texts)
  /\ turn.at = "idle" => buffer = <<>>

OneAttempt == Stream!TextIsOnce /\ (~reply.started => reply.content = <<>>)

StreamInv == Stream!TypeOK /\ OneAttempt /\ Spoken /\ \A p \in Page : Calm(p)

LEMMA ConcatNothing ==
  ASSUME NEW s \in Items PROVE s \o <<>> = s
BY ConcatEmptySeq DEF Items

LEMMA StreamInitial == StreamConstants /\ Stream!Init => StreamInv
<1> SUFFICES ASSUME StreamConstants, Stream!Init PROVE StreamInv
  OBVIOUS
<1>1. Stream!TypeOK
  <2>1. /\ turn \in [at : {"idle", "ask", "stream", "tools", "failed", "flush", "clear"},
                     then : {"tool", "done"}, no : 0..StreamTurns, step : 1..MAX_STEPS]
        /\ texts \in 0..MaxTexts
    BY DEF StreamConstants, Stream!Init
  <2>2. reply \in [attempt : 0..Retries, started : BOOLEAN, content : Seq(0..Retries), calls : Seq(0..Retries)]
    BY DEF StreamConstants, Stream!Init, Stream!NoReply
  <2>3. /\ transcript \in Seq(Stream!Item) /\ buffer \in Seq(Stream!Item)
        /\ queue \in [Page -> [on : BOOLEAN, events : Seq(Stream!Item)]]
        /\ page \in [Page -> [at : {"blank", "copying", "coming", "shown"}, shown : Seq(Stream!Item),
                              coming : Seq(Stream!Item), calm : BOOLEAN]]
    BY DEF Stream!Init, Stream!Blank
  <2> QED
    BY <2>1, <2>2, <2>3 DEF Stream!TypeOK
<1>2. OneAttempt
  BY DEF OneAttempt, Stream!TextIsOnce, Stream!Init, Stream!NoReply
<1>3. Spoken
  <2>1. <<>> \in Items
    BY DEF Items
  <2>2. turn.at = "idle" /\ transcript = <<>> /\ buffer = <<>> /\ texts = 0
    BY DEF Stream!Init
  <2> QED
    BY <2>1, <2>2, ConcatNothing, NothingSays DEF Spoken
<1>4. \A p \in Page : Calm(p)
  BY DEF Calm, Stream!Init, Stream!Blank
<1> QED
  BY <1>1, <1>2, <1>3, <1>4 DEF StreamInv

LEMMA StreamTyped ==
  ASSUME StreamConstants, Stream!TypeOK, [Stream!Next]_(Stream!vars)
  PROVE  Stream!TypeOK'
<1> DEFINE Turns == [at : {"idle", "ask", "stream", "tools", "failed", "flush", "clear"},
                     then : {"tool", "done"}, no : 0..StreamTurns, step : 1..MAX_STEPS]
           Replies == [attempt : 0..Retries, started : BOOLEAN, content : Seq(0..Retries), calls : Seq(0..Retries)]
           Queues == [on : BOOLEAN, events : Items]
           Pages == [at : {"blank", "copying", "coming", "shown"}, shown : Items, coming : Items, calm : BOOLEAN]
<1>1. /\ turn \in Turns /\ reply \in Replies /\ texts \in 0..MaxTexts
      /\ transcript \in Items /\ buffer \in Items
      /\ queue \in [Page -> Queues] /\ page \in [Page -> Pages]
  BY DEF Stream!TypeOK, Items
<1>2. SUFFICES /\ turn' \in Turns /\ reply' \in Replies /\ texts' \in 0..MaxTexts
               /\ transcript' \in Items /\ buffer' \in Items
               /\ queue' \in [Page -> Queues] /\ page' \in [Page -> Pages]
  BY DEF Stream!TypeOK, Items
\* What may become of a turn, an answer, a queue and a page.
<1>3. ASSUME NEW x \in {"idle", "ask", "stream", "tools", "failed", "flush", "clear"}
      PROVE  [turn EXCEPT !.at = x] \in Turns
  BY <1>1
<1>4. ASSUME NEW x \in {"idle", "flush"}, NEW y \in {"tool", "done"}
      PROVE  [turn EXCEPT !.at = x, !.then = y] \in Turns
  BY <1>1
<1>5. Stream!NextStep => turn' \in Turns
  <2>1. turn.step \in 1..MAX_STEPS /\ MAX_STEPS \in Nat
    BY <1>1 DEF StreamConstants
  <2>2. ASSUME turn.step < MAX_STEPS PROVE [turn EXCEPT !.at = "ask", !.step = turn.step + 1] \in Turns
    <3>1. turn.step + 1 \in 1..MAX_STEPS
      BY <2>1, <2>2
    <3> QED
      BY <1>1, <3>1
  <2> HIDE DEF Turns
  <2> QED
    BY <1>4, <2>2 DEF Stream!NextStep
<1>6. Stream!NoReply \in Replies
  BY DEF Stream!NoReply, StreamConstants
<1>7. \A retry \in BOOLEAN : Stream!Again(retry) => turn' \in Turns /\ reply' \in Replies
  <2>1. reply.attempt \in 0..Retries /\ Retries \in Nat
    BY <1>1 DEF StreamConstants
  <2>2. ASSUME reply.attempt < Retries PROVE [reply EXCEPT !.attempt = reply.attempt + 1] \in Replies
    <3>1. reply.attempt + 1 \in 0..Retries
      BY <2>1, <2>2
    <3> QED
      BY <1>1, <3>1
  <2> HIDE DEF Turns, Replies
  <2> QED
    BY <1>1, <1>3, <2>2 DEF Stream!Again, Stream!Goto
<1>8. ASSUME NEW x \in Stream!Item
      PROVE  Stream!Broadcast(x) => queue' \in [Page -> Queues]
  <2>1. ASSUME NEW p \in Page PROVE [queue[p] EXCEPT !.events = Append(queue[p].events, x)] \in Queues
    <3>1. queue[p] \in Queues
      BY <1>1
    <3>2. PICK e \in Items : e = Append(queue[p].events, x)
      BY <3>1, AppendProperties DEF Items
    <3> QED
      BY <3>1, <3>2
  <2> HIDE DEF Queues
  <2> QED
    BY <1>1, <2>1 DEF Stream!Broadcast
<1>9. ASSUME NEW p \in Page, NEW u \in Pages, page' = [page EXCEPT ![p] = u] PROVE page' \in [Page -> Pages]
  BY <1>1, <1>9
<1>10. ASSUME NEW p \in Page, NEW q \in Queues, queue' = [queue EXCEPT ![p] = q] PROVE queue' \in [Page -> Queues]
  BY <1>1, <1>10
<1>11. ASSUME NEW p \in Page PROVE page[p] \in Pages /\ queue[p] \in Queues
  BY <1>1
<1>12. Stream!Blank \in Pages
  BY DEF Stream!Blank, Items
<1>13. <<>> \in Items /\ \A t, u \in Items : t \o u \in Items
  BY ConcatProperties DEF Items
<1>14. \A t \in Items, x \in Stream!Item : Append(t, x) \in Items
  BY AppendProperties DEF Items
<1>15. \A c \in BOOLEAN, p \in Page : [page[p] EXCEPT !.calm = c] \in Pages
  BY <1>1
<1>16. Stream!Said(texts + 1) \in Stream!Item \/ texts >= MaxTexts
  BY <1>1, SaidIsItem DEF StreamConstants
<1>17. Stream!Of("user") \in Stream!Item /\ Stream!Of("error") \in Stream!Item /\ Stream!Of("tool") \in Stream!Item
  BY OfIsItem
<1>s. CASE Stream!StartTurn
  <2>1. turn' \in Turns
    <3>1. turn.no + 1 \in 0..StreamTurns /\ 1 \in 1..MAX_STEPS
      BY <1>s, <1>1 DEF Stream!StartTurn, StreamConstants
    <3> QED
      BY <1>s, <3>1 DEF Stream!StartTurn
  <2>2. page' \in [Page -> Pages]
    <3> HIDE DEF Pages
    <3> QED
      BY <1>s, <1>1, <1>15 DEF Stream!StartTurn
  <2> HIDE DEF Turns, Pages, Queues, Replies
  <2> QED
    BY <1>s, <1>1, <1>8, <1>14, <1>17, <2>1, <2>2 DEF Stream!StartTurn, Stream!Report
<1>a. CASE Stream!Refused \/ Stream!Accepted \/ Stream!Breaks
  <2> HIDE DEF Turns, Pages, Queues, Replies
  <2>1. turn' \in Turns /\ reply' \in Replies
    <3>1. CASE Stream!Accepted
      BY <1>1, <1>3, <3>1 DEF Stream!Accepted, Stream!Goto
    <3>2. CASE Stream!Refused
      <4>1. PICK busy \in BOOLEAN : Stream!Again(busy /\ ~reply.started)
        BY <3>2 DEF Stream!Refused
      <4> QED
        BY <4>1, <1>7
    <3>3. CASE Stream!Breaks
      <4>1. PICK transient \in BOOLEAN : Stream!Again(transient /\ ~reply.started)
        BY <3>3 DEF Stream!Breaks
      <4> QED
        BY <4>1, <1>7
    <3> QED
      BY <1>a, <3>1, <3>2, <3>3
  <2> QED
    BY <1>a, <1>1, <2>1 DEF Stream!Refused, Stream!Accepted, Stream!Breaks
<1>t. CASE Stream!Text
  <2>1. reply' \in Replies
    <3>1. PICK c \in Seq(0..Retries) : c = Append(reply.content, reply.attempt)
      <4>1. reply.content \in Seq(0..Retries) /\ reply.attempt \in 0..Retries
        BY <1>1
      <4> QED
        BY <4>1, AppendProperties
    <3>2. reply' = [reply EXCEPT !.started = TRUE, !.content = c]
      BY <1>t, <3>1 DEF Stream!Text
    <3> QED
      BY <1>1, <3>2
  <2>2. texts' \in 0..MaxTexts /\ Stream!Said(texts + 1) \in Stream!Item
    BY <1>t, <1>1, <1>16 DEF Stream!Text, StreamConstants
  <2> HIDE DEF Turns, Pages, Queues, Replies
  <2> QED
    BY <1>t, <1>1, <1>8, <1>14, <2>1, <2>2 DEF Stream!Text
<1>d. CASE Stream!CallDelta
  <2>1. reply' \in Replies
    <3>1. PICK c \in Seq(0..Retries) : c = Append(reply.calls, reply.attempt)
      <4>1. reply.calls \in Seq(0..Retries) /\ reply.attempt \in 0..Retries
        BY <1>1
      <4> QED
        BY <4>1, AppendProperties
    <3>2. reply' = [reply EXCEPT !.calls = c]
      BY <1>d, <3>1 DEF Stream!CallDelta
    <3> QED
      BY <1>1, <3>2
  <2> HIDE DEF Turns, Pages, Queues, Replies
  <2> QED
    BY <1>d, <1>1, <2>1 DEF Stream!CallDelta
<1>e. CASE Stream!Ends \/ Stream!ToolStarts \/ Stream!Stopped
  <2> HIDE DEF Turns, Pages, Queues, Replies
  <2> QED
    BY <1>e, <1>1, <1>3, <1>4 DEF Stream!Ends, Stream!ToolStarts, Stream!Stopped, Stream!Goto
<1>r. CASE Stream!ToolRefused
  <2> HIDE DEF Turns, Pages, Queues, Replies
  <2> QED
    BY <1>r, <1>1, <1>5, <1>6 DEF Stream!ToolRefused
<1>f. CASE Stream!Fails
  <2> HIDE DEF Turns, Pages, Queues, Replies
  <2> QED
    BY <1>f, <1>1, <1>4, <1>8, <1>14, <1>17 DEF Stream!Fails, Stream!Report
<1>l. CASE Stream!FlushAppend
  <2> HIDE DEF Turns, Pages, Queues, Replies
  <2> QED
    BY <1>l, <1>1, <1>3, <1>13 DEF Stream!FlushAppend, Stream!Goto
<1>c. CASE Stream!FlushClear
  <2> HIDE DEF Turns, Pages, Queues, Replies
  <2> QED
    BY <1>c, <1>1, <1>3, <1>5, <1>6, <1>8, <1>13, <1>14, <1>17 DEF Stream!FlushClear, Stream!Report, Stream!Goto
<1>p. ASSUME NEW p \in Page,
             Stream!Connect(p) \/ Stream!Disconnect(p) \/ Stream!Copy(p) \/ Stream!CopyBuffer(p)
             \/ Stream!Show(p) \/ Stream!Deliver(p)
      PROVE  /\ UNCHANGED <<turn, reply, texts, transcript, buffer>>
             /\ queue' \in [Page -> Queues] /\ page' \in [Page -> Pages]
  <2>1. UNCHANGED <<turn, reply, texts, transcript, buffer>>
    BY <1>p DEF Stream!Connect, Stream!Disconnect, Stream!Copy, Stream!CopyBuffer, Stream!Show, Stream!Deliver
  <2>2. queue' \in [Page -> Queues]
    <3>1. CASE Stream!Connect(p) \/ Stream!Disconnect(p)
      <4>1. \A c \in BOOLEAN : [on |-> c, events |-> <<>>] \in Queues
        BY <1>13
      <4> HIDE DEF Queues
      <4> QED
        BY <3>1, <4>1, <1>10 DEF Stream!Connect, Stream!Disconnect
    <3>2. CASE Stream!Deliver(p)
      <4>1. queue[p].events \in Items /\ queue[p].events # <<>>
        BY <1>11, <3>2 DEF Stream!Deliver
      <4>2. PICK e \in Items : e = Tail(queue[p].events)
        BY <4>1, HeadTailProperties DEF Items
      <4>3. queue' = [queue EXCEPT ![p].events = e]
        BY <3>2, <4>2 DEF Stream!Deliver
      <4> QED
        BY <1>1, <4>3
    <3>3. CASE Stream!Copy(p) \/ Stream!CopyBuffer(p) \/ Stream!Show(p)
      BY <1>1, <3>3 DEF Stream!Copy, Stream!CopyBuffer, Stream!Show
    <3> QED
      BY <1>p, <3>1, <3>2, <3>3
  <2>3. page' \in [Page -> Pages]
    <3>1. CASE Stream!Connect(p)
      BY <1>1, <3>1 DEF Stream!Connect
    <3>2. CASE Stream!Disconnect(p)
      <4>1. [page[p] EXCEPT !.calm = FALSE] \in Pages
        BY <1>15
      <4> HIDE DEF Pages
      <4> QED
        BY <3>2, <4>1, <1>9, <1>12 DEF Stream!Disconnect
    <3>3. CASE Stream!Copy(p)
      <4>1. PICK c \in BOOLEAN : c = (turn.at = "idle" /\ queue[p] = [on |-> TRUE, events |-> <<>>])
        OBVIOUS
      <4>2. page' = [page EXCEPT ![p] = [page[p] EXCEPT !.at = "copying", !.coming = transcript, !.calm = c]]
        BY <3>3, <4>1 DEF Stream!Copy
      <4>3. [page[p] EXCEPT !.at = "copying", !.coming = transcript, !.calm = c] \in Pages
        BY <1>1, <1>11
      <4> QED
        BY <1>9, <4>2, <4>3
    <3>4. CASE Stream!CopyBuffer(p)
      <4>1. PICK c \in Items : c = page[p].coming \o buffer
        BY <1>1, <1>11, <1>13
      <4>2. page' = [page EXCEPT ![p] = [page[p] EXCEPT !.at = "coming", !.coming = c]]
        BY <3>4, <4>1 DEF Stream!CopyBuffer
      <4>3. [page[p] EXCEPT !.at = "coming", !.coming = c] \in Pages
        BY <1>11
      <4> QED
        BY <1>9, <4>2, <4>3
    <3>5. CASE Stream!Show(p)
      <4>1. page' = [page EXCEPT ![p] = [page[p] EXCEPT !.at = "shown", !.shown = page[p].coming, !.coming = <<>>]]
        BY <3>5 DEF Stream!Show
      <4>2. [page[p] EXCEPT !.at = "shown", !.shown = page[p].coming, !.coming = <<>>] \in Pages
        BY <1>11, <1>13
      <4> QED
        BY <1>9, <4>1, <4>2
    <3>6. CASE Stream!Deliver(p)
      <4>1. queue[p].events \in Items /\ queue[p].events # <<>> /\ page[p].shown \in Items
        BY <1>11, <3>6 DEF Stream!Deliver
      <4>2. PICK c \in Items : c = Append(page[p].shown, Head(queue[p].events))
        BY <4>1, <1>14, HeadTailProperties DEF Items
      <4>3. page' = [page EXCEPT ![p] = [page[p] EXCEPT !.shown = c]]
        BY <3>6, <4>2 DEF Stream!Deliver
      <4>4. [page[p] EXCEPT !.shown = c] \in Pages
        BY <1>11
      <4> QED
        BY <1>9, <4>3, <4>4
    <3> QED
      BY <1>p, <3>1, <3>2, <3>3, <3>4, <3>5, <3>6
  <2> QED
    BY <2>1, <2>2, <2>3
<1>u. CASE UNCHANGED Stream!vars
  BY <1>u, <1>1 DEF Stream!vars
<1> HIDE DEF Turns, Pages, Queues, Replies
<1> QED
  BY <1>1, <1>s, <1>a, <1>t, <1>d, <1>e, <1>r, <1>f, <1>l, <1>c, <1>p, <1>u DEF Stream!Next

LEMMA OneAttemptStays ==
  ASSUME StreamConstants, StreamInv, [Stream!Next]_(Stream!vars)
  PROVE  OneAttempt'
<1>1. /\ reply.attempt \in Nat /\ reply.started \in BOOLEAN /\ reply.content \in Seq(0..Retries)
      /\ \A i \in 1..Len(reply.content) : reply.content[i] = reply.attempt
      /\ ~reply.started => reply.content = <<>>
  BY DEF StreamInv, OneAttempt, Stream!TextIsOnce, Stream!TypeOK, StreamConstants
<1>2. CASE reply' = reply
  BY <1>1, <1>2 DEF OneAttempt, Stream!TextIsOnce
<1>3. CASE reply' = Stream!NoReply
  BY <1>3 DEF OneAttempt, Stream!TextIsOnce, Stream!NoReply
<1>4. ASSUME NEW retry \in BOOLEAN, Stream!Again(retry /\ ~reply.started) PROVE OneAttempt'
  <2>1. CASE reply' = [reply EXCEPT !.attempt = reply.attempt + 1] /\ ~reply.started
    <3>1. reply'.content = reply.content /\ reply'.started = reply.started
      BY <2>1, <1>1 DEF StreamInv, Stream!TypeOK
    <3>2. reply'.content = <<>>
      BY <1>1, <2>1, <3>1
    <3> QED
      BY <3>2 DEF OneAttempt, Stream!TextIsOnce
  <2> QED
    BY <1>2, <1>4, <2>1 DEF Stream!Again
<1>5. CASE Stream!Text
  <2>1. /\ reply'.started = TRUE /\ reply'.content = Append(reply.content, reply.attempt)
        /\ reply'.attempt = reply.attempt
    BY <1>5 DEF Stream!Text, StreamInv, Stream!TypeOK
  <2>2. PICK c : c = Append(reply.content, reply.attempt)
    OBVIOUS
  <2>3. \A i \in 1..Len(c) : c[i] = reply.attempt
    BY <1>1, <2>2
  <2> QED
    BY <2>1, <2>2, <2>3 DEF OneAttempt, Stream!TextIsOnce
<1>6. CASE Stream!CallDelta
  <2>1. /\ reply'.started = reply.started /\ reply'.content = reply.content
        /\ reply'.attempt = reply.attempt
    BY <1>6 DEF Stream!CallDelta, StreamInv, Stream!TypeOK
  <2> QED
    BY <1>1, <2>1 DEF OneAttempt, Stream!TextIsOnce
<1>7. CASE Stream!Refused
  BY <1>4, <1>7 DEF Stream!Refused
<1>8. CASE Stream!Breaks
  BY <1>4, <1>8 DEF Stream!Breaks
<1>9. CASE Stream!StartTurn \/ Stream!Accepted \/ Stream!Ends \/ Stream!ToolStarts \/ Stream!Stopped
           \/ Stream!Fails \/ Stream!FlushAppend
  BY <1>2, <1>9 DEF Stream!StartTurn, Stream!Accepted, Stream!Ends, Stream!ToolStarts, Stream!Stopped,
                    Stream!Fails, Stream!FlushAppend
<1>10. CASE Stream!ToolRefused \/ Stream!FlushClear
  BY <1>3, <1>10 DEF Stream!ToolRefused, Stream!FlushClear
<1>11. ASSUME NEW p \in Page,
              Stream!Connect(p) \/ Stream!Disconnect(p) \/ Stream!Copy(p) \/ Stream!CopyBuffer(p)
              \/ Stream!Show(p) \/ Stream!Deliver(p)
       PROVE  OneAttempt'
  BY <1>2, <1>11 DEF Stream!Connect, Stream!Disconnect, Stream!Copy, Stream!CopyBuffer, Stream!Show, Stream!Deliver
<1>12. CASE UNCHANGED Stream!vars
  BY <1>2, <1>12 DEF Stream!vars
<1> QED
  BY <1>5, <1>6, <1>7, <1>8, <1>9, <1>10, <1>11, <1>12 DEF Stream!Next

LEMMA SpokenStays ==
  ASSUME StreamConstants, StreamInv, [Stream!Next]_(Stream!vars)
  PROVE  Spoken'
<1>1. /\ transcript \in Items /\ buffer \in Items /\ texts \in Nat /\ texts \in 0..MaxTexts
      /\ <<>> \in Items
  BY DEF StreamInv, Stream!TypeOK, StreamConstants, Items
<1>2. Spoken /\ turn.at \in {"idle", "ask", "stream", "tools", "failed", "flush", "clear"}
  BY DEF StreamInv, Stream!TypeOK
<1>3. ASSUME turn.at # "clear", turn'.at \notin {"clear", "idle"}, UNCHANGED <<texts, transcript, buffer>>
      PROVE  Spoken'
  BY <1>2, <1>3 DEF Spoken
<1>4. \A x : Stream!Goto(x) => turn'.at = x
  BY DEF StreamInv, Stream!TypeOK, Stream!Goto
<1>5. Stream!NextStep => turn'.at \in {"ask", "flush"}
  BY DEF StreamInv, Stream!TypeOK, Stream!NextStep
<1>6. CASE Stream!StartTurn
  <2>1. transcript' = Append(transcript, Stream!Of("user")) /\ buffer = <<>> /\ buffer' = <<>> /\ texts' = texts
        /\ turn'.at = "ask"
    BY <1>2, <1>6 DEF Spoken, Stream!StartTurn, Stream!Report
  <2>2. Stream!Says(transcript \o <<>>, texts)
    BY <1>2, <1>6, <2>1 DEF Spoken, Stream!StartTurn
  <2> QED
    BY <1>1, <2>1, <2>2, OfIsItem, InsertSays DEF Spoken
<1>7. CASE Stream!Refused \/ Stream!Accepted \/ Stream!Breaks
  <2>1. turn.at \in {"ask", "stream"} /\ turn'.at \in {"ask", "failed", "stream"}
        /\ UNCHANGED <<texts, transcript, buffer>>
    BY <1>4, <1>7 DEF Stream!Refused, Stream!Accepted, Stream!Breaks, Stream!Again
  <2> QED
    BY <1>3, <2>1
<1>8. CASE Stream!Text
  <2>1. buffer' = Append(buffer, Stream!Said(texts + 1)) /\ texts' = texts + 1 /\ transcript' = transcript
        /\ turn.at = "stream" /\ turn' = turn /\ texts < MaxTexts
    BY <1>8 DEF Stream!Text
  <2>2. PICK x \in Stream!Item : x = Stream!Said(texts + 1) /\ x.kind = "text" /\ x.n = texts + 1
    BY <1>1, <2>1, SaidIsItem DEF StreamConstants
  <2>3. transcript \o buffer \in Items /\ Stream!Says(transcript \o buffer, texts)
    BY <1>1, <1>2, <2>1, ConcatProperties DEF Spoken, Items
  <2>4. Stream!Says(Append(transcript \o buffer, x), texts + 1)
    BY <1>1, <2>2, <2>3, AppendSaysMore
  <2>5. transcript \o Append(buffer, x) = Append(transcript \o buffer, x)
    BY <1>1, AppendToLast
  <2> QED
    BY <2>1, <2>2, <2>4, <2>5 DEF Spoken
<1>9. CASE Stream!CallDelta
  BY <1>3, <1>9 DEF Stream!CallDelta
<1>10. CASE Stream!Ends \/ Stream!ToolStarts \/ Stream!Stopped \/ Stream!ToolRefused
  <2>1. turn.at \in {"stream", "tools"} /\ turn'.at \in {"ask", "flush", "tools"}
        /\ UNCHANGED <<texts, transcript, buffer>>
    BY <1>4, <1>5, <1>10 DEF Stream!Ends, Stream!ToolStarts, Stream!Stopped, Stream!ToolRefused, StreamInv, Stream!TypeOK
  <2> QED
    BY <1>3, <2>1
<1>11. CASE Stream!Fails
  <2>1. transcript' = Append(transcript, Stream!Of("error")) /\ buffer' = buffer /\ texts' = texts
        /\ turn'.at = "flush" /\ turn.at = "failed"
    BY <1>11 DEF Stream!Fails, Stream!Report, StreamInv, Stream!TypeOK
  <2>2. Stream!Says(transcript \o buffer, texts)
    BY <1>2, <2>1 DEF Spoken
  <2> QED
    BY <1>1, <2>1, <2>2, OfIsItem, InsertSays DEF Spoken
<1>12. CASE Stream!FlushAppend
  <2>1. transcript' = transcript \o buffer /\ texts' = texts /\ turn'.at = "clear" /\ turn.at = "flush"
    BY <1>4, <1>12 DEF Stream!FlushAppend
  <2> QED
    BY <1>2, <2>1 DEF Spoken
<1>13. CASE Stream!FlushClear
  <2>1. buffer' = <<>> /\ texts' = texts /\ turn.at = "clear" /\ turn'.at \in {"ask", "flush", "idle"}
        /\ transcript' \in {transcript, Append(transcript, Stream!Of("tool"))}
    BY <1>4, <1>5, <1>13 DEF Stream!FlushClear, Stream!Report
  <2>2. Stream!Says(transcript, texts)
    BY <1>2, <2>1 DEF Spoken
  <2>3. Stream!Says(Append(transcript, Stream!Of("tool")), texts) /\ Append(transcript, Stream!Of("tool")) \in Items
    BY <1>1, <2>2, OfIsItem, AppendSays, AppendProperties DEF Items
  <2> QED
    BY <1>1, <2>1, <2>2, <2>3, ConcatNothing DEF Spoken
<1>14. ASSUME NEW p \in Page,
              Stream!Connect(p) \/ Stream!Disconnect(p) \/ Stream!Copy(p) \/ Stream!CopyBuffer(p)
              \/ Stream!Show(p) \/ Stream!Deliver(p)
       PROVE  UNCHANGED <<turn, texts, transcript, buffer>>
  BY <1>14 DEF Stream!Connect, Stream!Disconnect, Stream!Copy, Stream!CopyBuffer, Stream!Show, Stream!Deliver
<1>15. CASE UNCHANGED <<turn, texts, transcript, buffer>>
  BY <1>2, <1>15 DEF Spoken
<1>16. CASE UNCHANGED Stream!vars
  BY <1>15, <1>16 DEF Stream!vars
<1> QED
  BY <1>6, <1>7, <1>8, <1>9, <1>10, <1>11, <1>12, <1>13, <1>14, <1>15, <1>16 DEF Stream!Next

\* A page that follows hears what is broadcast, when it shows its transcript.
LEMMA CalmHears ==
  ASSUME StreamConstants, StreamInv, NEW p \in Page, NEW x \in Stream!Item, Stream!Broadcast(x),
         page'[p] = page[p], page[p].calm => page[p].at \notin {"copying", "coming"},
         \/ x.kind # "text" /\ texts' = texts
         \/ x.kind = "text" /\ x.n = texts + 1 /\ texts' = texts + 1
  PROVE  Calm(p)'
<1> SUFFICES ASSUME page[p].calm PROVE Calm(p)'
  BY DEF Calm
<1>1. /\ page[p].shown \in Items /\ queue[p].events \in Items /\ texts \in Nat
      /\ queue \in [Page -> [on : BOOLEAN, events : Items]]
      /\ page[p].at \in {"blank", "copying", "coming", "shown"}
  BY DEF StreamInv, Stream!TypeOK, Items, StreamConstants
<1>2. queue[p].on /\ page[p].at = "shown" /\ Stream!Says(page[p].shown \o queue[p].events, texts)
  BY <1>1 DEF StreamInv, Calm
<1>3. PICK e \in Items : e = Append(queue[p].events, x)
  BY <1>1, AppendProperties DEF Items
<1>4. queue'[p].on /\ queue'[p].events = e
  <2>1. queue'[p] = [queue[p] EXCEPT !.events = e]
    BY <1>2, <1>3 DEF Stream!Broadcast
  <2> QED
    BY <2>1, <1>1, <1>2
<1>5. PICK s \in Items : s = page[p].shown \o queue[p].events
  BY <1>1, ConcatProperties DEF Items
<1>6. page[p].shown \o e = Append(s, x)
  BY <1>1, <1>3, <1>5, AppendToLast, ZenonT(40)
<1>7. Stream!Says(Append(s, x), texts')
  BY <1>1, <1>2, <1>5, AppendSays, AppendSaysMore
<1> QED
  BY <1>2, <1>4, <1>6, <1>7 DEF Calm

LEMMA CalmStays ==
  ASSUME StreamConstants, StreamInv, [Stream!Next]_(Stream!vars), NEW p \in Page
  PROVE  Calm(p)'
<1>1. /\ turn.at \in {"idle", "ask", "stream", "tools", "failed", "flush", "clear"}
      /\ texts \in Nat /\ texts \in 0..MaxTexts /\ transcript \in Items /\ buffer \in Items
      /\ queue \in [Page -> [on : BOOLEAN, events : Items]]
      /\ page \in [Page -> [at : {"blank", "copying", "coming", "shown"}, shown : Items,
                            coming : Items, calm : BOOLEAN]]
  BY DEF StreamInv, Stream!TypeOK, Items, StreamConstants
<1>2. Calm(p) /\ Spoken
  BY DEF StreamInv
\* A page that loads in peace does so while no turn runs.
<1>3. turn.at # "idle" /\ page[p].calm => page[p].at \notin {"copying", "coming"}
  BY <1>2 DEF Calm
<1>4. ASSUME UNCHANGED <<texts, queue, page>>, turn.at # "idle" \/ turn' = turn PROVE Calm(p)'
  BY <1>2, <1>3, <1>4 DEF Calm
<1>5. CASE Stream!StartTurn
  <2>1. CASE page[p].at \in {"copying", "coming"}
    <3>1. page'[p] = [page[p] EXCEPT !.calm = FALSE]
      BY <1>5, <2>1 DEF Stream!StartTurn
    <3>2. ~page'[p].calm
      BY <1>1, <3>1
    <3> QED
      BY <3>2 DEF Calm
  <2>2. CASE page[p].at \notin {"copying", "coming"}
    <3>1. page'[p] = page[p] /\ Stream!Broadcast(Stream!Of("user")) /\ texts' = texts
      BY <1>5, <2>2 DEF Stream!StartTurn, Stream!Report
    <3> QED
      BY <2>2, <3>1, OfIsItem, CalmHears
  <2> QED
    BY <2>1, <2>2
<1>6. CASE Stream!Refused \/ Stream!Accepted \/ Stream!Breaks \/ Stream!CallDelta \/ Stream!Ends
           \/ Stream!ToolStarts \/ Stream!ToolRefused \/ Stream!Stopped \/ Stream!FlushAppend
  <2>1. turn.at # "idle" /\ UNCHANGED <<texts, queue, page>>
    BY <1>6 DEF Stream!Refused, Stream!Accepted, Stream!Breaks, Stream!CallDelta, Stream!Ends,
                Stream!ToolStarts, Stream!ToolRefused, Stream!Stopped, Stream!FlushAppend
  <2> QED
    BY <1>4, <2>1
<1>7. CASE Stream!Text
  <2>1. turn.at # "idle" /\ page'[p] = page[p] /\ Stream!Broadcast(Stream!Said(texts + 1)) /\ texts' = texts + 1
        /\ texts < MaxTexts
    BY <1>7 DEF Stream!Text
  <2>2. texts + 1 \in 0..MaxTexts
    BY <1>1, <2>1 DEF StreamConstants
  <2> QED
    BY <1>3, <2>1, <2>2, SaidIsItem, CalmHears
<1>8. CASE Stream!Fails
  <2>1. turn.at # "idle" /\ page'[p] = page[p] /\ Stream!Broadcast(Stream!Of("error")) /\ texts' = texts
    BY <1>8 DEF Stream!Fails, Stream!Report
  <2> QED
    BY <1>3, <2>1, OfIsItem, CalmHears
<1>9. CASE Stream!FlushClear
  <2>1. CASE turn.then = "tool"
    <3>1. turn.at # "idle" /\ page'[p] = page[p] /\ Stream!Broadcast(Stream!Of("tool")) /\ texts' = texts
      BY <1>9, <2>1 DEF Stream!FlushClear, Stream!Report
    <3> QED
      BY <1>3, <3>1, OfIsItem, CalmHears
  <2>2. CASE turn.then # "tool"
    <3>1. turn.at # "idle" /\ UNCHANGED <<texts, queue, page>>
      BY <1>9, <2>2 DEF Stream!FlushClear
    <3> QED
      BY <1>4, <3>1
  <2> QED
    BY <2>1, <2>2
<1>10. ASSUME NEW q \in Page, Stream!Connect(q) \/ Stream!Disconnect(q) \/ Stream!Copy(q)
                              \/ Stream!CopyBuffer(q) \/ Stream!Show(q) \/ Stream!Deliver(q)
       PROVE  Calm(p)'
  <2>1. UNCHANGED <<turn, texts, transcript, buffer>>
    BY <1>10 DEF Stream!Connect, Stream!Disconnect, Stream!Copy, Stream!CopyBuffer, Stream!Show, Stream!Deliver
  <2>2. CASE q # p
    <3>1. queue'[p] = queue[p] /\ page'[p] = page[p]
      BY <1>1, <1>10, <2>2
         DEF Stream!Connect, Stream!Disconnect, Stream!Copy, Stream!CopyBuffer, Stream!Show, Stream!Deliver
    <3> QED
      BY <1>2, <2>1, <3>1 DEF Calm
  <2>3. CASE q = p /\ Stream!Connect(p)
    <3>1. ~page[p].calm /\ page'[p] = page[p]
      BY <1>2, <2>3 DEF Calm, Stream!Connect
    <3> QED
      BY <3>1 DEF Calm
  <2>4. CASE q = p /\ Stream!Disconnect(p)
    <3>1. ~page'[p].calm
      BY <1>1, <2>4 DEF Stream!Disconnect, Stream!Blank
    <3> QED
      BY <3>1 DEF Calm
  <2>5. CASE q = p /\ Stream!Copy(p)
    <3>1. /\ page'[p].at = "copying" /\ page'[p].coming = transcript /\ queue' = queue
          /\ page'[p].calm <=> turn.at = "idle" /\ queue[p] = [on |-> TRUE, events |-> <<>>]
      BY <1>1, <2>5 DEF Stream!Copy
    <3>2. turn.at = "idle" => Stream!Says(transcript, texts)
      BY <1>1, <1>2, ConcatNothing DEF Spoken
    <3> QED
      BY <2>1, <3>1, <3>2 DEF Calm
  <2>6. CASE q = p /\ Stream!CopyBuffer(p)
    <3>1. /\ page[p].at = "copying" /\ page'[p].at = "coming" /\ page'[p].coming = page[p].coming \o buffer
          /\ queue' = queue /\ page'[p].calm = page[p].calm
      BY <1>1, <2>6 DEF Stream!CopyBuffer
    <3>2. page[p].calm => page[p].coming \o buffer = page[p].coming
      BY <1>1, <1>2, <3>1, ConcatNothing DEF Spoken, Calm
    <3> QED
      BY <1>2, <2>1, <3>1, <3>2 DEF Calm
  <2>7. CASE q = p /\ Stream!Show(p)
    <3>1. /\ page[p].at = "coming" /\ page'[p].at = "shown" /\ page'[p].shown = page[p].coming
          /\ queue' = queue /\ page'[p].calm = page[p].calm
      BY <1>1, <2>7 DEF Stream!Show
    <3>2. page[p].calm => queue[p].events = <<>> /\ page[p].coming \o <<>> = page[p].coming
      BY <1>1, <1>2, <3>1, ConcatNothing DEF Calm
    <3> QED
      BY <1>2, <2>1, <3>1, <3>2 DEF Calm
  <2>8. CASE q = p /\ Stream!Deliver(p)
    <3>1. /\ queue[p].events # <<>> /\ queue'[p].on = queue[p].on /\ queue'[p].events = Tail(queue[p].events)
          /\ page'[p].at = page[p].at /\ page'[p].calm = page[p].calm
          /\ page'[p].shown = Append(page[p].shown, Head(queue[p].events))
      BY <1>1, <2>8 DEF Stream!Deliver
    <3>2. page[p].shown \in Items /\ queue[p].events \in Items
      BY <1>1
    <3>3. Append(page[p].shown, Head(queue[p].events)) \o Tail(queue[p].events)
            = page[p].shown \o queue[p].events
      BY <3>1, <3>2, MoveHead
    <3> QED
      BY <1>2, <2>1, <3>1, <3>3 DEF Calm
  <2> QED
    BY <1>10, <2>2, <2>3, <2>4, <2>5, <2>6, <2>7, <2>8
<1>11. CASE UNCHANGED Stream!vars
  BY <1>2, <1>11 DEF Stream!vars, Calm
<1> QED
  BY <1>5, <1>6, <1>7, <1>8, <1>9, <1>10, <1>11 DEF Stream!Next

LEMMA StreamInvHolds == StreamConstants => (Stream!Spec => []StreamInv)
<1> SUFFICES ASSUME StreamConstants PROVE Stream!Spec => []StreamInv
  OBVIOUS
<1>0. Stream!Init => StreamInv
  BY StreamInitial
<1>1. StreamInv /\ [Stream!Next]_(Stream!vars) => StreamInv'
  <2> SUFFICES ASSUME StreamInv, [Stream!Next]_(Stream!vars) PROVE StreamInv'
    OBVIOUS
  <2>1. Stream!TypeOK'
    BY StreamTyped DEF StreamInv
  <2>2. OneAttempt' /\ Spoken'
    BY OneAttemptStays, SpokenStays
  <2>3. \A p \in Page : Calm(p)'
    BY CalmStays
  <2> QED
    BY <2>1, <2>2, <2>3 DEF StreamInv
<1> QED
  BY <1>0, <1>1, PTL DEF Stream!Spec

\* An answer is streamed by one attempt of the provider's, the transcript
\* has every text once and in order when no turn runs, and a page that loaded
\* in peace and whose stream has not broken shows or is about to be sent them.
THEOREM WhatIsSaidIsShown == StreamConstants => (Stream!Spec => []SaidOnceAndShown)
<1> SUFFICES ASSUME StreamConstants PROVE Stream!Spec => []SaidOnceAndShown
  OBVIOUS
<1>1. StreamInv => SaidOnceAndShown
  <2> SUFFICES ASSUME StreamInv PROVE SaidOnceAndShown
    OBVIOUS
  <2>1. transcript \in Items
    BY DEF StreamInv, Stream!TypeOK, Items
  <2>2. Stream!TranscriptIsComplete
    BY <2>1, ConcatNothing DEF StreamInv, Spoken, Stream!TranscriptIsComplete
  <2>3. Stream!PageFollows
    BY DEF StreamInv, Calm, Stream!PageFollows
  <2> QED
    BY <2>2, <2>3 DEF StreamInv, OneAttempt, SaidOnceAndShown
<1> QED
  BY <1>1, StreamInvHolds, PTL
-----------------------------------------------------------------------------
(***************************************************************************)
(* Repl: what is saved and closed on the way out.  What a turn has said is *)
(* only unsaved until the save that follows it, and the servers of the     *)
(* manager in use are the only ones that run.                              *)
(***************************************************************************)
Outside == {"leaving", "cleanup", "ended"}

ReplConstants == Home \in Directory /\ Launch \in Model /\ ReplTurns \in Nat

Regular == ~at.crashed /\ ~flags.shot

ReplInv ==
  /\ REPL!TypeOK
  /\ at.where \in {"start", "setup"} => agent.conv = stored.conv /\ servers = {}
  /\ at.where = "prompt" => agent.conv \in {0, stored.conv}
  /\ at.where \in {"prompt", "turn", "save"} => servers \subseteq {agent.mcp}
  /\ at.where \in Outside /\ Regular => agent.conv \in {0, stored.conv} /\ servers = {}

LEMMA ReplInitial == ReplConstants /\ REPL!Init => ReplInv
<1> SUFFICES ASSUME ReplConstants, REPL!Init PROVE ReplInv
  OBVIOUS
<1>1. talk \in 0..(ReplTurns + 1) /\ 0 \in REPL!Managers
  BY DEF ReplConstants, REPL!Init, REPL!Managers
<1>2. REPL!TypeOK
  BY <1>1 DEF ReplConstants, REPL!Init, REPL!TypeOK, REPL!Record, REPL!NoTree, REPL!Others
<1> QED
  BY <1>2 DEF REPL!Init, ReplInv, Outside

LEMMA ReplTyped ==
  ASSUME ReplConstants, REPL!TypeOK, [REPL!Next]_(REPL!vars)
  PROVE  REPL!TypeOK'
<1> USE DEF REPL!TypeOK, REPL!Record, REPL!Goto, REPL!Crash
<1>1. CASE REPL!Start
  BY <1>1 DEF REPL!Start, REPL!NewTree, REPL!NoTree, ReplConstants
<1>2. CASE REPL!StartFails
  BY <1>2 DEF REPL!StartFails
<1>3. CASE REPL!SetUp
  BY <1>3 DEF REPL!SetUp, REPL!Managers, ReplConstants
<1>4. CASE REPL!SetUpFails \/ REPL!Ask \/ REPL!Leave
  BY <1>4 DEF REPL!SetUpFails, REPL!Ask, REPL!Leave
<1>5. CASE REPL!Write \/ REPL!Git
  <2>1. /\ tree' \in [there : BOOLEAN, dirty : BOOLEAN, commits : BOOLEAN,
                     head : {"branch", "base"}, lost : BOOLEAN]
        /\ locks' \subseteq Directory
    <3>1. PICK d \in BOOLEAN, c \in BOOLEAN, h \in {"branch", "base"} :
            tree' = [tree EXCEPT !.dirty = d, !.commits = c, !.head = h]
      <4>1. CASE REPL!Write
        <5>1. PICK d \in BOOLEAN : d = (tree.dirty \/ (tree.there /\ agent.root = Home))
          OBVIOUS
        <5>2. tree' = [tree EXCEPT !.dirty = d]
          BY <4>1, <5>1 DEF REPL!Write
        <5>3. tree' = [tree EXCEPT !.dirty = d, !.commits = tree.commits, !.head = tree.head]
          BY <5>2
        <5> QED
          BY <5>3
      <4>2. CASE REPL!Git
        <5>1. \/ tree' = [tree EXCEPT !.dirty = FALSE, !.commits = TRUE]
              \/ \E h \in {"branch", "base"} : tree' = [tree EXCEPT !.head = h]
          BY <4>2 DEF REPL!Git
        <5>2. /\ [tree EXCEPT !.dirty = FALSE, !.commits = TRUE]
                   = [tree EXCEPT !.dirty = FALSE, !.commits = TRUE, !.head = tree.head]
              /\ \A h \in {"branch", "base"} :
                   [tree EXCEPT !.head = h] = [tree EXCEPT !.dirty = tree.dirty, !.commits = tree.commits, !.head = h]
          OBVIOUS
        <5>3. tree.dirty \in BOOLEAN /\ tree.commits \in BOOLEAN /\ tree.head \in {"branch", "base"}
          OBVIOUS
        <5>4. CASE tree' = [tree EXCEPT !.dirty = FALSE, !.commits = TRUE]
          BY <5>2, <5>3, <5>4
        <5>5. ASSUME NEW h \in {"branch", "base"}, tree' = [tree EXCEPT !.head = h]
              PROVE  \E d \in BOOLEAN, c \in BOOLEAN :
                       tree' = [tree EXCEPT !.dirty = d, !.commits = c, !.head = h]
          BY <5>2, <5>3, <5>5
        <5> QED
          BY <5>1, <5>4, <5>5
      <4> QED
        BY <1>5, <4>1, <4>2
    <3> QED
      BY <1>5, <3>1 DEF REPL!Write, REPL!Git
  <2> QED
    BY <1>5, <2>1 DEF REPL!Write, REPL!Git
<1>6. CASE REPL!TurnEnds \/ REPL!ShotEnds
  <2>1. talk + 1 \in 0..(ReplTurns + 1)
    BY <1>6 DEF REPL!TurnEnds, REPL!ShotEnds, REPL!Said, ReplConstants
  <2>2. agent' \in [conv : 0..(ReplTurns + 1), model : Model, root : Directory, mcp : REPL!Managers]
    BY <1>6, <2>1 DEF REPL!TurnEnds, REPL!ShotEnds, REPL!Said
  <2>3. at' \in [where : {"start", "setup", "prompt", "turn", "save", "leaving", "cleanup", "ended"},
                 crashed : BOOLEAN]
    <3>1. ASSUME NEW w \in {"save", "leaving"}, at' = [at EXCEPT !.where = w]
          PROVE  at' \in [where : {"start", "setup", "prompt", "turn", "save", "leaving", "cleanup", "ended"},
                          crashed : BOOLEAN]
      BY <3>1
    <3>2. CASE REPL!Crash
      BY <3>2
    <3>3. REPL!Goto("save") \/ REPL!Goto("leaving") \/ REPL!Crash
      BY <1>6 DEF REPL!TurnEnds, REPL!ShotEnds
    <3> HIDE DEF REPL!Crash
    <3> QED
      BY <3>1, <3>2, <3>3
  <2> QED
    BY <1>6, <2>1, <2>2, <2>3 DEF REPL!TurnEnds, REPL!ShotEnds, REPL!Said
<1>7. CASE REPL!Save
  BY <1>7 DEF REPL!Save, ReplConstants
<1>8. ASSUME NEW m \in Model, REPL!SwitchModel(m) PROVE REPL!TypeOK'
  BY <1>8 DEF REPL!SwitchModel
<1>9. ASSUME NEW r \in Directory, REPL!OpenProject(r) \/ REPL!OthersLock(r) PROVE REPL!TypeOK'
  BY <1>9 DEF REPL!OpenProject, REPL!OthersLock
<1>10. CASE REPL!Clear
  BY <1>10 DEF REPL!Clear, ReplConstants
<1>11. CASE REPL!Reload
  <2>1. PICK mcp \in REPL!Managers :
          /\ agent' = [agent EXCEPT !.model = session.model, !.mcp = mcp]
          /\ servers' = (servers \ {agent.mcp}) \cup ({mcp} \ {0})
    <3>1. 0 \in REPL!Managers /\ REPL!NewManager \in REPL!Managers
      BY DEF REPL!NewManager, REPL!Managers, ReplConstants
    <3> QED
      BY <1>11, <3>1, ZenonT(40) DEF REPL!Reload
  <2>2. agent' \in [conv : 0..(ReplTurns + 1), model : Model, root : Directory, mcp : REPL!Managers]
    BY <2>1
  <2> QED
    BY <1>11, <2>1, <2>2 DEF REPL!Reload
<1>12. CASE REPL!Exit
  BY <1>12 DEF REPL!Exit
<1>13. CASE REPL!Cleanup
  BY <1>13 DEF REPL!Cleanup
<1>14. CASE UNCHANGED REPL!vars
  BY <1>14 DEF REPL!vars
<1> QED
  BY <1>1, <1>2, <1>3, <1>4, <1>5, <1>6, <1>7, <1>8, <1>9, <1>10, <1>11, <1>12, <1>13, <1>14
  DEF REPL!Next

LEMMA ReplKeepsInv ==
  ASSUME ReplConstants, ReplInv, [REPL!Next]_(REPL!vars)
  PROVE  ReplInv'
<1>0. REPL!TypeOK'
  BY ReplTyped DEF ReplInv
<1> USE DEF REPL!TypeOK, REPL!Record, REPL!Goto, REPL!Crash, Outside, Regular
<1>1. CASE REPL!Start \/ REPL!StartFails
  BY <1>0, <1>1 DEF ReplInv, REPL!Start, REPL!StartFails
<1>2. CASE REPL!SetUp \/ REPL!SetUpFails
  BY <1>0, <1>2 DEF ReplInv, REPL!SetUp, REPL!SetUpFails
<1>3. CASE REPL!Ask \/ REPL!Write \/ REPL!Git
  BY <1>0, <1>3 DEF ReplInv, REPL!Ask, REPL!Write, REPL!Git
<1>4. CASE REPL!TurnEnds \/ REPL!ShotEnds
  BY <1>0, <1>4 DEF ReplInv, REPL!TurnEnds, REPL!ShotEnds, REPL!Said
<1>5. CASE REPL!Save
  BY <1>0, <1>5 DEF ReplInv, REPL!Save
<1>6. ASSUME NEW m \in Model, REPL!SwitchModel(m) PROVE ReplInv'
  BY <1>0, <1>6 DEF ReplInv, REPL!SwitchModel
<1>7. ASSUME NEW r \in Directory, REPL!OpenProject(r) \/ REPL!OthersLock(r) PROVE ReplInv'
  BY <1>0, <1>7 DEF ReplInv, REPL!OpenProject, REPL!OthersLock
<1>8. CASE REPL!Clear \/ REPL!Reload
  BY <1>0, <1>8, ZenonT(40) DEF ReplInv, REPL!Clear, REPL!Reload
<1>9. CASE REPL!Exit
  BY <1>0, <1>9 DEF ReplInv, REPL!Exit
<1>10. CASE REPL!Leave \/ REPL!Cleanup
  BY <1>0, <1>10 DEF ReplInv, REPL!Leave, REPL!Cleanup
<1>11. CASE UNCHANGED REPL!vars
  BY <1>0, <1>11 DEF ReplInv, REPL!vars
<1> QED
  BY <1>1, <1>2, <1>3, <1>4, <1>5, <1>6, <1>7, <1>8, <1>9, <1>10, <1>11 DEF REPL!Next

LEMMA ReplInvHolds == ReplConstants => (REPL!Spec => []ReplInv)
<1> SUFFICES ASSUME ReplConstants PROVE REPL!Spec => []ReplInv
  OBVIOUS
<1>1. REPL!Init => ReplInv
  BY ReplInitial
<1>2. ReplInv /\ [REPL!Next]_(REPL!vars) => ReplInv'
  BY ReplKeepsInv
<1> QED
  BY <1>1, <1>2, PTL DEF REPL!Spec

\* However turns end, and whatever the user clears, reloads and opens: at the
\* prompt, and once it was left regularly, the store has the conversation that
\* is seen (cli/repl.py).
THEOREM ReplSavesConversation == ReplConstants => (REPL!Spec => []ConversationIsSaved)
<1> SUFFICES ASSUME ReplConstants PROVE REPL!Spec => []ConversationIsSaved
  OBVIOUS
<1>1. ReplInv => ConversationIsSaved
  BY DEF ReplInv, ConversationIsSaved, REPL!ConversationIsSaved, Outside, Regular
<1> QED
  BY <1>1, ReplInvHolds, PTL

\* However often /reload starts servers anew, the others have been closed, and
\* a regular exit closes the last (cli/repl.py).
THEOREM ReplClosesServers == ReplConstants => (REPL!Spec => []NoServerIsLeft)
<1> SUFFICES ASSUME ReplConstants PROVE REPL!Spec => []NoServerIsLeft
  OBVIOUS
<1>1. ReplInv => NoServerIsLeft
  BY DEF ReplInv, NoServerIsLeft, REPL!NoServerIsLeft, Outside, Regular
<1> QED
  BY <1>1, ReplInvHolds, PTL
=============================================================================
