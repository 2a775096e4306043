--------------------------- MODULE AgentLoop_proofs ---------------------------
(***************************************************************************)
(* Theorems about AgentLoop, for any numbers of turns, steps and calls,    *)
(* any size of the context, and any place at which it is compacted.        *)
(***************************************************************************)
EXTENDS AgentLoop, SequenceTheorems, FiniteSetTheorems, TLAPS

(***************************************************************************)
(* Conversations that are under way: every answer is of a call, and every  *)
(* call but those at the very end has its answer.                          *)
(***************************************************************************)
Answers(h, i, k) ==
  h[i + k].role = "tool" /\ h[i + k].of = h[i].id /\ h[i + k].n = k

Underway(h) ==
  \A i \in DOMAIN h :
    /\ h[i].role = "assistant" => \A k \in 1..h[i].calls : i + k <= Len(h) => Answers(h, i, k)
    /\ h[i].role = "tool" =>
         /\ h[i].n \in 1..(i - 1)
         /\ h[i - h[i].n].role = "assistant" /\ h[i - h[i].n].id = h[i].of
         /\ h[i].n <= h[i - h[i].n].calls

Complete(h) == \A i \in DOMAIN h : h[i].role = "assistant" => i + h[i].calls <= Len(h)

\* The assistant message at a is the last but for the answers to its calls.
Asks(h, a) ==
  /\ a \in DOMAIN h /\ h[a].role = "assistant"
  /\ \A j \in DOMAIN h : j > a => h[j].role = "tool"
  /\ Len(h) - a <= h[a].calls

\* A conversation begins with a user's message, or a checkpoint before it.
Heads(h) == IF h # <<>> /\ h[1].role = "checkpoint" THEN 1 ELSE 0

Opens(h) ==
  /\ h # <<>> => Heads(h) < Len(h) /\ h[Heads(h) + 1].role = "user"
  /\ Heads(h) = 1 => h[1].id = 0
  /\ \A i \in DOMAIN h : i > Heads(h) => h[i].role # "checkpoint" /\ h[i].covers = {}

\* The user's message at u is the last one.
Current(h, u) ==
  u \in DOMAIN h /\ h[u].role = "user" /\ \A j \in DOMAIN h : j > u => h[j].role # "user"

Working == {"compact", "model", "calls", "tool"}

\* While calls are being answered, the last assistant message asks, and asks
\* for the one that is being executed.
Asked ==
  /\ pc \in {"calls", "tool"} => \E a \in DOMAIN messages : Asks(messages, a)
  /\ pc = "tool" => \A a \in DOMAIN messages : Asks(messages, a) => Len(messages) - a < messages[a].calls

CountFits == trimmed + Len(messages) = said + Heads(messages)

RequestStands == \E u \in DOMAIN messages : Current(messages, u) /\ messages[u].id = request

RequestFits == pc \in Working => RequestStands

\* Holds whatever is interrupted and whatever the light model does.
Standing == TypeOK /\ Opens(messages) /\ Asked /\ CountFits /\ RequestFits

\* Holds unless a turn is interrupted between two of its calls.
Finished == Underway(messages) /\ (pc \notin {"calls", "tool"} => Complete(messages))

\* All that the messages say is in the conversation or in its checkpoint.
Known(h) == Ids(h) \cup UNION {h[i].covers : i \in DOMAIN h}

-----------------------------------------------------------------------------
(***************************************************************************)
(* Histories and their pieces.                                             *)
(***************************************************************************)
Histories == Seq(Message)

LEMMA HistoryIs ==
  ASSUME NEW h \in Histories
  PROVE  /\ Len(h) \in Nat /\ DOMAIN h = 1..Len(h)
         /\ \A i \in DOMAIN h : h[i] \in Message
         /\ \A i \in DOMAIN h : /\ h[i].role \in {"user", "assistant", "tool", "checkpoint"}
                                /\ h[i].id \in Nat /\ h[i].calls \in Nat /\ h[i].n \in Nat
                                /\ h[i].covers \subseteq Nat
<1>1. Len(h) \in Nat /\ DOMAIN h = 1..Len(h)
  BY LenProperties DEF Histories
<1>2. \A i \in DOMAIN h : h[i] \in Message
  BY <1>1, ElementOfSeq DEF Histories
<1>3. MaxCalls \in Nat
  BY LoopAssumption, Zenon
<1>4. \A m \in Message : /\ m.role \in {"user", "assistant", "tool", "checkpoint"}
                         /\ m.id \in Nat /\ m.calls \in Nat /\ m.n \in Nat /\ m.covers \subseteq Nat
  BY <1>3 DEF Message
<1> QED
  BY <1>1, <1>2, <1>4

LEMMA PlainIsMessage == Plain \in Message
<1>1. MaxCalls \in Nat
  BY LoopAssumption, Zenon
<1>2. 0 \in 0..MaxCalls
  BY <1>1
<1> QED
  BY <1>2 DEF Plain, Message

LEMMA FinishedIsWellFormed ==
  ASSUME NEW h \in Histories
  PROVE  WellFormed(h) <=> Underway(h) /\ Complete(h)
<1>1. Len(h) \in Nat /\ DOMAIN h = 1..Len(h) /\ \A i \in DOMAIN h : h[i].calls \in Nat
  BY HistoryIs
<1>2. ASSUME Underway(h), Complete(h) PROVE WellFormed(h)
  BY <1>1, <1>2, SMTT(30) DEF WellFormed, Underway, Complete, Answers
<1>3. ASSUME WellFormed(h) PROVE Underway(h) /\ Complete(h)
  BY <1>1, <1>3, SMTT(30) DEF WellFormed, Underway, Complete, Answers
<1> QED
  BY <1>2, <1>3

\* The answers of an assistant message come right after it, so that anything
\* else stands after all of them that are there.
LEMMA AnswersFollow ==
  ASSUME NEW h \in Histories, Underway(h), NEW i \in DOMAIN h, NEW j \in DOMAIN h, i < j,
         h[i].role = "assistant", h[j].role # "tool"
  PROVE  i + h[i].calls < j
<1>1. Len(h) \in Nat /\ DOMAIN h = 1..Len(h) /\ h[i].calls \in Nat
  BY HistoryIs
<1>2. SUFFICES ASSUME j <= i + h[i].calls PROVE FALSE
  BY <1>1
<1>3. j - i \in 1..h[i].calls /\ i + (j - i) = j /\ j <= Len(h)
  BY <1>1, <1>2
<1>4. Answers(h, i, j - i)
  BY <1>3 DEF Underway
<1> QED
  BY <1>3, <1>4 DEF Answers

\* All that is before a message that is no answer is complete.
LEMMA CompleteBefore ==
  ASSUME NEW h \in Histories, Underway(h), NEW j \in DOMAIN h, h[j].role # "tool"
  PROVE  \A i \in 1..(j - 1) : h[i].role = "assistant" => i + h[i].calls <= j - 1
<1> SUFFICES ASSUME NEW i \in 1..(j - 1), h[i].role = "assistant" PROVE i + h[i].calls <= j - 1
  OBVIOUS
<1>1. Len(h) \in Nat /\ DOMAIN h = 1..Len(h) /\ i \in DOMAIN h /\ i < j /\ h[i].calls \in Nat
  BY HistoryIs
<1> QED
  BY <1>1, AnswersFollow

LEMMA PrefixIs ==
  ASSUME NEW h \in Histories, NEW e \in 0..Len(h)
  PROVE  /\ SubSeq(h, 1, e) \in Histories /\ Len(SubSeq(h, 1, e)) = e
         /\ \A i \in 1..e : SubSeq(h, 1, e)[i] = h[i]
<1>1. Len(h) \in Nat /\ \A i \in 1..e : h[i] \in Message
  BY HistoryIs
<1> QED
  BY <1>1, SubSeqProperties DEF Histories

\* A history can be cut anywhere: only its last calls may lose answers.
LEMMA PrefixUnderway ==
  ASSUME NEW h \in Histories, Underway(h), NEW e \in 0..Len(h)
  PROVE  Underway(SubSeq(h, 1, e))
<1> DEFINE g == SubSeq(h, 1, e)
<1>1. Len(h) \in Nat /\ DOMAIN h = 1..Len(h) /\ \A i \in DOMAIN h : h[i].n \in Nat /\ h[i].calls \in Nat
  BY HistoryIs
<1>2. g \in Histories /\ Len(g) = e /\ DOMAIN g = 1..e /\ \A i \in 1..e : g[i] = h[i]
  BY PrefixIs, HistoryIs
<1> HIDE DEF g
<1>3. ASSUME NEW i \in 1..e, g[i].role = "assistant", NEW k \in 1..g[i].calls, i + k <= e
      PROVE  Answers(g, i, k)
  <2>1. i \in DOMAIN h /\ g[i] = h[i] /\ k \in Nat /\ k >= 1
    BY <1>1, <1>2
  <2>2. i + k \in 1..e /\ i + k <= Len(h)
    BY <1>1, <1>3, <2>1
  <2>3. Answers(h, i, k) /\ g[i + k] = h[i + k]
    BY <1>2, <1>3, <2>1, <2>2 DEF Underway
  <2> QED
    BY <2>1, <2>3 DEF Answers
<1>4. ASSUME NEW i \in 1..e, g[i].role = "tool"
      PROVE  /\ g[i].n \in 1..(i - 1)
             /\ g[i - g[i].n].role = "assistant" /\ g[i - g[i].n].id = g[i].of
             /\ g[i].n <= g[i - g[i].n].calls
  <2>1. h[i].n \in 1..(i - 1) /\ i \in DOMAIN h /\ h[i].role = "tool"
    BY <1>1, <1>2, <1>4 DEF Underway
  <2>2. i - h[i].n \in 1..e
    BY <2>1
  <2> QED
    BY <1>2, <2>1, <2>2 DEF Underway
<1>5. Underway(g)
  BY <1>2, <1>3, <1>4 DEF Underway
<1> QED
  BY <1>5 DEF g

LEMMA StillBefore ==
  ASSUME NEW c \in Nat, NEW m \in Nat, NEW n \in Nat, NEW q \in Nat, m - n + q < c, n <= q
  PROVE  m < c
OBVIOUS

LEMMA StillAfter ==
  ASSUME NEW c \in Nat, NEW p \in Nat, NEW i \in Nat, NEW n \in Nat, NEW l \in Nat,
         i + c - 1 - p - n >= c, n >= 1, i <= l
  PROVE  i - n > p /\ i - n \in 1..l /\ n \in 1..(i - 1)
OBVIOUS

\* It can also be begun at any message that is no answer.
LEMMA SuffixUnderway ==
  ASSUME NEW h \in Histories, Underway(h), NEW c \in DOMAIN h, h[c].role # "tool",
         NEW p \in 0..1, NEW g \in Histories, Len(g) = p + Len(h) - c + 1,
         p = 1 => g[1].role = "checkpoint",
         \A j \in c..Len(h) : g[p + j - c + 1] = h[j]
  PROVE  Underway(g)
<1>1. Len(h) \in Nat /\ DOMAIN h = 1..Len(h) /\ \A i \in DOMAIN h : h[i].n \in Nat /\ h[i].calls \in Nat
  BY HistoryIs
<1>2. DOMAIN g = 1..Len(g) /\ Len(g) \in Nat /\ \A i \in DOMAIN g : g[i].calls \in Nat
  BY HistoryIs
<1>c. c \in Nat /\ c >= 1 /\ c <= Len(h) /\ p \in Nat /\ p <= 1
  BY <1>1
<1>3. ASSUME NEW i \in DOMAIN g, i > p
      PROVE  \E m \in c..Len(h) : m = i + c - 1 - p /\ g[i] = h[m]
  <2>1. i + c - 1 - p \in c..Len(h)
    BY <1>c, <1>1, <1>2, <1>3
  <2>2. p + (i + c - 1 - p) - c + 1 = i
    BY <1>c, <1>1, <1>2
  <2> QED
    BY <2>1, <2>2
<1>4. ASSUME NEW i \in DOMAIN g, g[i].role \in {"assistant", "tool"} PROVE i > p
  BY <1>2, <1>4
<1>5. ASSUME NEW i \in DOMAIN g, g[i].role = "assistant", NEW k \in 1..g[i].calls, i + k <= Len(g)
      PROVE  Answers(g, i, k)
  <2>1. i \in Nat /\ k \in Nat /\ k >= 1 /\ i > p
    BY <1>2, <1>4, <1>5
  <2>2. i + k \in DOMAIN g /\ i + k > p
    BY <1>c, <1>2, <1>5, <2>1
  <2>3. PICK m \in c..Len(h) : m = i + c - 1 - p /\ g[i] = h[m]
    BY <1>3, <2>1
  <2>4. PICK l \in c..Len(h) : l = (i + k) + c - 1 - p /\ g[i + k] = h[l]
    BY <1>3, <2>2
  <2>5. l = m + k /\ m \in DOMAIN h
    BY <1>c, <1>1, <2>1, <2>3, <2>4, SMTT(30)
  <2>6. k \in 1..h[m].calls /\ m + k <= Len(h) /\ h[m].role = "assistant"
    BY <1>1, <1>5, <2>3, <2>4, <2>5
  <2>7. Answers(h, m, k)
    BY <2>5, <2>6 DEF Underway
  <2> QED
    BY <2>3, <2>4, <2>5, <2>7 DEF Answers
<1>6. ASSUME NEW i \in DOMAIN g, g[i].role = "tool"
      PROVE  /\ g[i].n \in 1..(i - 1)
             /\ g[i - g[i].n].role = "assistant" /\ g[i - g[i].n].id = g[i].of
             /\ g[i].n <= g[i - g[i].n].calls
  <2>1. i \in Nat /\ i > p
    BY <1>2, <1>4, <1>6
  <2>2. PICK m \in c..Len(h) : m = i + c - 1 - p /\ g[i] = h[m]
    BY <1>3, <2>1
  <2>3. m \in DOMAIN h /\ m \in Nat
    BY <1>1, <1>c
  <2>4. PICK n \in Nat : n = h[m].n
    BY <1>1, <2>3
  <2>5. /\ n \in 1..(m - 1)
        /\ h[m - n].role = "assistant" /\ h[m - n].id = h[m].of /\ n <= h[m - n].calls
    BY <1>6, <2>2, <2>3, <2>4 DEF Underway
  <2>6. m - n \in DOMAIN h
    BY <1>1, <2>3, <2>4, <2>5, SMTT(30)
  <2>7. m - n >= c
    <3> SUFFICES ASSUME m - n < c PROVE FALSE
      BY <1>c, <2>3, <2>4
    <3>1. (m - n) + h[m - n].calls < c
      BY <1>1, <2>5, <2>6, AnswersFollow
    <3>2. PICK q \in Nat : q = h[m - n].calls
      BY <1>1, <2>6
    <3>3. m - n + q < c /\ n <= q
      BY <3>1, <3>2, <2>5
    <3>4. m < c
      BY <1>c, <2>3, <2>4, <3>2, <3>3, StillBefore
    <3> QED
      BY <1>c, <2>3, <3>4
  <2>8. i - n \in DOMAIN g /\ i - n > p /\ n \in 1..(i - 1)
    <3>1. n >= 1 /\ i <= Len(g)
      BY <1>2, <2>3, <2>4, <2>5
    <3>2. i + c - 1 - p - n >= c
      BY <2>2, <2>7
    <3> QED
      BY <1>c, <1>2, <2>1, <2>4, <3>1, <3>2, StillAfter
  <2>9. PICK l \in c..Len(h) : l = (i - n) + c - 1 - p /\ g[i - n] = h[l]
    BY <1>3, <2>8
  <2>10. l = m - n
    BY <1>c, <2>1, <2>2, <2>3, <2>4, <2>9, SMTT(30)
  <2> QED
    BY <2>2, <2>4, <2>5, <2>8, <2>9, <2>10
<1> QED
  BY <1>5, <1>6 DEF Underway


-----------------------------------------------------------------------------
(***************************************************************************)
(* Forks.  What _safe_cut keeps of a prefix is a finished conversation.    *)
(***************************************************************************)
LEMMA LeastOf ==
  ASSUME NEW S \in SUBSET Nat, S # {}
  PROVE  \E x \in S : \A y \in S : x <= y
<1>1. PICK x \in S : \A y \in S : <<y, x>> \notin OpToRel(<, Nat)
  BY NatLessThanWellFounded, WFMin, Zenon
<1>2. \A y \in S : ~(y < x)
  BY <1>1 DEF OpToRel
<1> QED
  BY <1>2

LEMMA GreatestOf ==
  ASSUME NEW n \in Nat, NEW S \in SUBSET (0..n), S # {}
  PROVE  \E x \in S : \A y \in S : y <= x
<1> DEFINE T == {n - s : s \in S}
<1>1. \A s \in S : s \in Nat /\ s <= n /\ n - s \in Nat
  OBVIOUS
<1>2. PICK x \in T : \A y \in T : x <= y
  <2>1. T \in SUBSET Nat /\ T # {}
    BY <1>1
  <2> HIDE DEF T
  <2> QED
    BY <2>1, LeastOf
<1>3. PICK s \in S : x = n - s
  BY <1>2
<1>4. ASSUME NEW t \in S PROVE t <= s
  <2>1. n - s <= n - t
    BY <1>2, <1>3
  <2> QED
    BY <1>1, <2>1
<1> QED
  BY <1>4

\* The end of the part that stays before trailing answers.
EndOf(h, e) ==
  e \in 0..Len(h) /\ (e > 0 => h[e].role # "tool") /\ \A i \in (e + 1)..Len(h) : h[i].role = "tool"

LEMMA AnEnd == ASSUME NEW h \in Histories PROVE \E e \in 0..Len(h) : EndOf(h, e)
<1> DEFINE S == {e \in 0..Len(h) : e > 0 => h[e].role # "tool"}
<1>1. Len(h) \in Nat
  BY HistoryIs
<1>2. PICK e \in S : \A y \in S : y <= e
  <2>1. S \in SUBSET (0..Len(h)) /\ 0 \in S
    BY <1>1
  <2> HIDE DEF S
  <2> QED
    BY <1>1, <2>1, GreatestOf
<1>3. ASSUME NEW i \in (e + 1)..Len(h) PROVE h[i].role = "tool"
  BY <1>1, <1>2
<1> QED
  BY <1>2, <1>3 DEF EndOf

LEMMA SafeCutIsFinished ==
  ASSUME NEW h \in Histories, Underway(h)
  PROVE  WellFormed(SafeCut(h))
<1>1. Len(h) \in Nat /\ DOMAIN h = 1..Len(h) /\ \A i \in DOMAIN h : h[i].calls \in Nat
  BY HistoryIs
<1> DEFINE end == CHOOSE e \in 0..Len(h) :
               /\ e > 0 => h[e].role # "tool"
               /\ \A i \in (e + 1)..Len(h) : h[i].role = "tool"
<1>2. end \in 0..Len(h) /\ EndOf(h, end)
  BY AnEnd DEF EndOf
<1> DEFINE calls == IF end > 0 THEN h[end].calls ELSE 0
<1>3. SafeCut(h) = IF calls = 0 THEN SubSeq(h, 1, end)
                   ELSE IF calls = Len(h) - end THEN h
                   ELSE SubSeq(h, 1, end - 1)
  BY DEF SafeCut
<1> HIDE DEF end
<1>4. end > 0 => end \in DOMAIN h /\ h[end].role # "tool"
  BY <1>1, <1>2 DEF EndOf
<1>5. \A i \in 1..(end - 1) : h[i].role = "assistant" => i + h[i].calls <= end - 1
  <2>1. CASE end > 0
    BY <1>4, <2>1, CompleteBefore
  <2>2. CASE end = 0
    BY <2>2
  <2> QED
    BY <1>2, <2>1, <2>2
<1>6. CASE calls = 0
  <2> DEFINE g == SubSeq(h, 1, end)
  <2>1. g \in Histories /\ Len(g) = end /\ DOMAIN g = 1..end /\ Underway(g) /\ \A i \in 1..end : g[i] = h[i]
    BY <1>2, PrefixIs, PrefixUnderway, HistoryIs
  <2> HIDE DEF g
  <2>2. ASSUME NEW i \in 1..end, h[i].role = "assistant" PROVE i + h[i].calls <= end
    <3>1. CASE i = end
      BY <1>2, <1>6, <3>1
    <3>2. CASE i # end
      <4>1. i \in 1..(end - 1) /\ h[i].calls \in Nat
        BY <1>1, <1>2, <3>2
      <4>2. i + h[i].calls <= end - 1
        BY <1>5, <2>2, <4>1
      <4> QED
        BY <1>2, <4>1, <4>2
    <3> QED
      BY <3>1, <3>2
  <2>3. Complete(g)
    BY <2>1, <2>2 DEF Complete
  <2>4. WellFormed(g)
    BY <2>1, <2>3, FinishedIsWellFormed
  <2> QED
    BY <1>3, <1>6, <2>4 DEF g
<1>7. CASE calls # 0 /\ calls = Len(h) - end
  <2>1. end > 0 /\ h[end].calls = Len(h) - end
    BY <1>2, <1>7
  <2>2. ASSUME NEW i \in 1..Len(h), h[i].role = "assistant" PROVE i + h[i].calls <= Len(h)
    <3>1. CASE i < end
      <4>1. i \in 1..(end - 1) /\ h[i].calls \in Nat
        BY <1>1, <1>2, <3>1
      <4>2. i + h[i].calls <= end - 1
        BY <1>5, <2>2, <4>1
      <4> QED
        BY <1>1, <1>2, <4>1, <4>2
    <3>2. CASE i = end
      BY <1>1, <1>2, <2>1, <3>2
    <3>3. CASE i > end
      BY <1>1, <1>2, <2>2, <3>3 DEF EndOf
    <3> QED
      BY <1>1, <1>2, <3>1, <3>2, <3>3
  <2>3. Complete(h)
    BY <1>1, <2>2 DEF Complete
  <2> QED
    BY <1>3, <1>7, <2>3, FinishedIsWellFormed
<1>8. CASE calls # 0 /\ calls # Len(h) - end
  <2> DEFINE g == SubSeq(h, 1, end - 1)
  <2>1. end - 1 \in 0..Len(h)
    BY <1>1, <1>2, <1>8
  <2>2. /\ g \in Histories /\ Len(g) = end - 1 /\ DOMAIN g = 1..(end - 1) /\ Underway(g)
        /\ \A i \in 1..(end - 1) : g[i] = h[i]
    BY <2>1, PrefixIs, PrefixUnderway, HistoryIs
  <2> HIDE DEF g
  <2>3. Complete(g)
    BY <1>5, <2>2 DEF Complete
  <2>4. WellFormed(g)
    BY <2>2, <2>3, FinishedIsWellFormed
  <2> QED
    BY <1>3, <1>8, <2>4 DEF g
<1> QED
  BY <1>6, <1>7, <1>8

LEMMA ForksAreFinished == messages \in Histories /\ Underway(messages) => ForksAreValid
BY PrefixIs, PrefixUnderway, SafeCutIsFinished DEF ForksAreValid

-----------------------------------------------------------------------------
(***************************************************************************)
(* Saying something.                                                       *)
(***************************************************************************)
LEMMA NextOnly ==
  ASSUME NEW i \in Nat, NEW k \in Nat, NEW l \in Nat, i + k > l, i + k <= l + 1
  PROVE  i + k = l + 1 /\ k = l - i + 1
OBVIOUS

LEMMA AppendIs ==
  ASSUME NEW h \in Histories, NEW m \in Message
  PROVE  LET g == Append(h, m)
         IN  /\ g \in Histories /\ Len(g) = Len(h) + 1 /\ DOMAIN g = 1..(Len(h) + 1) /\ Len(h) \in Nat
             /\ \A i \in DOMAIN h : i \in DOMAIN g /\ g[i] = h[i]
             /\ g[Len(h) + 1] = m
             /\ \A i \in DOMAIN g : i \in DOMAIN h \/ i = Len(h) + 1
<1> DEFINE g == Append(h, m)
<1>1. Len(h) \in Nat /\ DOMAIN h = 1..Len(h)
  BY HistoryIs
<1>2. g \in Histories /\ Len(g) = Len(h) + 1 /\ (\A i \in 1..Len(h) : g[i] = h[i]) /\ g[Len(h) + 1] = m
  BY AppendProperties DEF Histories
<1>3. DOMAIN g = 1..Len(g)
  BY <1>2, HistoryIs
<1> QED
  BY <1>1, <1>2, <1>3

\* Neither a user's message nor an assistant's leaves an answer without call.
LEMMA AppendUnderway ==
  ASSUME NEW h \in Histories, Underway(h), Complete(h), NEW m \in Message,
         m.role \in {"user", "assistant"}
  PROVE  Underway(Append(h, m))
<1> DEFINE g == Append(h, m)
<1>1. /\ g \in Histories /\ Len(g) = Len(h) + 1 /\ DOMAIN g = 1..(Len(h) + 1) /\ Len(h) \in Nat
      /\ \A i \in DOMAIN h : i \in DOMAIN g /\ g[i] = h[i]
      /\ g[Len(h) + 1] = m
  BY AppendIs
<1>2. DOMAIN h = 1..Len(h) /\ \A i \in DOMAIN h : h[i].calls \in Nat /\ h[i].n \in Nat
  BY HistoryIs
<1>3. m.calls \in Nat
  <2>1. MaxCalls \in Nat
    BY LoopAssumption, Zenon
  <2> QED
    BY <2>1 DEF Message
<1> HIDE DEF g
<1>4. ASSUME NEW i \in DOMAIN g, g[i].role = "assistant", NEW k \in 1..g[i].calls, i + k <= Len(g)
      PROVE  Answers(g, i, k)
  <2>1. i \in Nat /\ k \in Nat /\ k >= 1 /\ i <= Len(h) + 1 /\ i >= 1
    BY <1>1, <1>2, <1>3, <1>4
  <2>2. i \in DOMAIN h
    BY <1>1, <1>2, <1>4, <2>1
  <2>3. g[i] = h[i] /\ i + h[i].calls <= Len(h) /\ k \in 1..h[i].calls /\ h[i].calls \in Nat
    BY <1>1, <1>2, <1>4, <2>2 DEF Complete
  <2>4. i + k \in 1..Len(h) /\ i + k <= Len(h)
    BY <1>1, <2>1, <2>3
  <2>5. Answers(h, i, k)
    BY <1>4, <2>2, <2>3, <2>4 DEF Underway
  <2> QED
    BY <1>1, <1>2, <2>3, <2>4, <2>5 DEF Answers
<1>5. ASSUME NEW i \in DOMAIN g, g[i].role = "tool"
      PROVE  /\ g[i].n \in 1..(i - 1)
             /\ g[i - g[i].n].role = "assistant" /\ g[i - g[i].n].id = g[i].of
             /\ g[i].n <= g[i - g[i].n].calls
  <2>1. i \in DOMAIN h /\ g[i] = h[i]
    BY <1>1, <1>2, <1>5
  <2>2. h[i].n \in 1..(i - 1) /\ i - h[i].n \in DOMAIN h
    BY <1>1, <1>2, <1>5, <2>1 DEF Underway
  <2> QED
    BY <1>1, <1>5, <2>1, <2>2 DEF Underway
<1>6. Underway(g)
  BY <1>4, <1>5 DEF Underway
<1> QED
  BY <1>6 DEF g

LEMMA AnswerAsks ==
  ASSUME NEW h \in Histories, NEW a \in DOMAIN h, Asks(h, a), Len(h) - a < h[a].calls,
         NEW m \in Message, m.role = "tool"
  PROVE  Asks(Append(h, m), a)
<1> DEFINE g == Append(h, m)
<1>1. /\ g \in Histories /\ Len(g) = Len(h) + 1 /\ DOMAIN g = 1..(Len(h) + 1) /\ Len(h) \in Nat
      /\ \A i \in DOMAIN h : i \in DOMAIN g /\ g[i] = h[i]
      /\ g[Len(h) + 1] = m
      /\ \A i \in DOMAIN g : i \in DOMAIN h \/ i = Len(h) + 1
  BY AppendIs
<1>2. DOMAIN h = 1..Len(h) /\ \A i \in DOMAIN h : h[i].calls \in Nat
  BY HistoryIs
<1>a. h[a].role = "assistant" /\ \A j \in DOMAIN h : j > a => h[j].role = "tool"
  BY DEF Asks
<1> HIDE DEF g
<1>3. PICK q \in Nat : q = h[a].calls
  BY <1>2
<1>7. Asks(g, a)
  <2>1. ASSUME NEW j \in DOMAIN g, j > a PROVE g[j].role = "tool"
    <3>1. CASE j \in DOMAIN h
      BY <1>1, <1>a, <2>1, <3>1
    <3>2. CASE j = Len(h) + 1
      BY <1>1, <3>2
    <3> QED
      BY <1>1, <3>1, <3>2
  <2>2. Len(g) - a <= g[a].calls
    BY <1>1, <1>2, <1>3
  <2> QED
    BY <1>1, <1>a, <2>1, <2>2 DEF Asks
<1> QED
  BY <1>7 DEF g

\* The next answer of the message that asks.
LEMMA AnswerUnderway ==
  ASSUME NEW h \in Histories, Underway(h), NEW a \in DOMAIN h, Asks(h, a), Len(h) - a < h[a].calls,
         NEW m \in Message, m.role = "tool", m.of = h[a].id, m.n = Len(h) - a + 1
  PROVE  Underway(Append(h, m)) /\ Asks(Append(h, m), a)
<1> DEFINE g == Append(h, m)
<1>1. /\ g \in Histories /\ Len(g) = Len(h) + 1 /\ DOMAIN g = 1..(Len(h) + 1) /\ Len(h) \in Nat
      /\ \A i \in DOMAIN h : i \in DOMAIN g /\ g[i] = h[i]
      /\ g[Len(h) + 1] = m
  BY AppendIs
<1>2. DOMAIN h = 1..Len(h) /\ \A i \in DOMAIN h : h[i].calls \in Nat /\ h[i].n \in Nat
  BY HistoryIs
<1>a. h[a].role = "assistant" /\ \A j \in DOMAIN h : j > a => h[j].role = "tool"
  BY DEF Asks
<1>l. \A j \in DOMAIN g : j \in DOMAIN h \/ j = Len(h) + 1
  BY AppendIs
<1> HIDE DEF g
<1>3. PICK q \in Nat : q = h[a].calls
  BY <1>2
<1>4. ASSUME NEW i \in DOMAIN g, g[i].role = "assistant", NEW k \in 1..g[i].calls, i + k <= Len(g)
      PROVE  Answers(g, i, k)
  <2>1. i \in DOMAIN h /\ g[i] = h[i]
    BY <1>1, <1>2, <1>4
  <2>2. i \in Nat /\ k \in Nat /\ k >= 1 /\ i >= 1 /\ h[i].calls \in Nat /\ k <= h[i].calls
    BY <1>2, <1>4, <2>1
  <2>3. CASE i + k <= Len(h)
    <3>1. Answers(h, i, k) /\ i + k \in DOMAIN h
      BY <1>2, <1>4, <2>1, <2>2, <2>3 DEF Underway
    <3> QED
      BY <1>1, <2>1, <3>1 DEF Answers
  <2>4. CASE i + k > Len(h)
    <3>1. i + k = Len(h) + 1 /\ k = Len(h) - i + 1
      <4>1. i + k <= Len(h) + 1
        BY <1>1, <1>4
      <4> QED
        BY <1>1, <2>2, <2>4, <4>1, NextOnly
    <3>2. i >= a
      <4> SUFFICES ASSUME i < a PROVE FALSE
        BY <1>2, <2>2
      <4>1. i + h[i].calls < a
        BY <1>4, <1>a, <2>1, AnswersFollow
      <4> QED
        BY <1>1, <1>2, <2>2, <3>1, <4>1
    <3>3. i = a
      BY <1>2, <1>4, <1>a, <2>1, <2>2, <3>2
    <3>4. k = Len(h) - a + 1
      BY <3>1, <3>3
    <3> QED
      BY <1>1, <2>1, <3>1, <3>3, <3>4 DEF Answers
  <2> QED
    BY <1>1, <2>2, <2>3, <2>4
<1>5. ASSUME NEW i \in DOMAIN g, g[i].role = "tool"
      PROVE  /\ g[i].n \in 1..(i - 1)
             /\ g[i - g[i].n].role = "assistant" /\ g[i - g[i].n].id = g[i].of
             /\ g[i].n <= g[i - g[i].n].calls
  <2>1. CASE i \in DOMAIN h
    <3>1. g[i] = h[i] /\ h[i].n \in 1..(i - 1) /\ i - h[i].n \in DOMAIN h
      BY <1>1, <1>2, <1>5, <2>1 DEF Underway
    <3> QED
      BY <1>1, <1>5, <2>1, <3>1 DEF Underway
  <2>2. CASE i \notin DOMAIN h
    <3>1. i = Len(h) + 1 /\ g[i] = m
      BY <1>1, <1>2, <2>2
    <3>2. m.n \in 1..(i - 1) /\ i - m.n = a /\ m.n <= q
      BY <1>1, <1>2, <1>3, <3>1
    <3> QED
      BY <1>1, <1>3, <1>a, <3>1, <3>2
  <2> QED
    BY <2>1, <2>2
<1>6. Underway(g)
  BY <1>4, <1>5 DEF Underway
<1>7. Asks(g, a)
  BY AnswerAsks DEF g
<1> QED
  BY <1>6, <1>7 DEF g

-----------------------------------------------------------------------------
(***************************************************************************)
(* The messages that are made, and how a conversation opens.               *)
(***************************************************************************)
LEMMA UserIs ==
  ASSUME NEW i \in Nat
  PROVE  LET m == [Plain EXCEPT !.id = i]
         IN  m \in Message /\ m.role = "user" /\ m.id = i /\ m.calls = 0 /\ m.covers = {}
BY PlainIsMessage DEF Plain, Message

LEMMA AssistantIs ==
  ASSUME NEW i \in Nat, NEW c \in 0..MaxCalls
  PROVE  LET m == [[Plain EXCEPT !.role = "assistant", !.calls = c] EXCEPT !.id = i]
         IN  m \in Message /\ m.role = "assistant" /\ m.id = i /\ m.calls = c /\ m.covers = {}
BY PlainIsMessage DEF Plain, Message

LEMMA AnswerIs ==
  ASSUME messages \in Histories, NEW a \in DOMAIN messages, NEW k \in 0..MaxCalls,
         NEW l \in BOOLEAN, NEW i \in Nat
  PROVE  LET m == [Answer(a, k, l) EXCEPT !.id = i]
         IN  /\ m \in Message /\ m.role = "tool" /\ m.id = i /\ m.calls = 0 /\ m.covers = {}
             /\ m.of = messages[a].id /\ m.n = k
<1>1. messages[a].id \in Nat
  BY HistoryIs
<1> QED
  BY <1>1, PlainIsMessage DEF Plain, Message, Answer

LEMMA CheckpointIs ==
  ASSUME NEW c \in SUBSET Nat
  PROVE  LET m == [Plain EXCEPT !.role = "checkpoint", !.covers = c]
         IN  m \in Message /\ m.role = "checkpoint" /\ m.id = 0 /\ m.covers = c
BY PlainIsMessage DEF Plain, Message

LEMMA NotEmpty ==
  ASSUME NEW h \in Histories
  PROVE  h # <<>> <=> Len(h) > 0
<1>1. Len(<<>>) = 0 /\ (h # <<>> => Len(h) \in Nat \ {0})
  BY EmptySeq DEF Histories
<1> QED
  BY <1>1

LEMMA HeadsIs ==
  ASSUME NEW h \in Histories
  PROVE  Heads(h) \in 0..1 /\ Heads(h) <= Len(h)
<1>1. Len(h) \in Nat
  BY HistoryIs
<1> QED
  BY <1>1, NotEmpty DEF Heads

LEMMA AppendOpens ==
  ASSUME NEW h \in Histories, Opens(h), NEW m \in Message,
         m.role # "checkpoint", m.covers = {}, h # <<>> \/ m.role = "user"
  PROVE  Opens(Append(h, m)) /\ Heads(Append(h, m)) = Heads(h)
<1> DEFINE g == Append(h, m)
<1>1. /\ g \in Histories /\ Len(g) = Len(h) + 1 /\ DOMAIN g = 1..(Len(h) + 1) /\ Len(h) \in Nat
      /\ \A i \in DOMAIN h : i \in DOMAIN g /\ g[i] = h[i]
      /\ g[Len(h) + 1] = m
      /\ \A i \in DOMAIN g : i \in DOMAIN h \/ i = Len(h) + 1
  BY AppendIs
<1>2. DOMAIN h = 1..Len(h) /\ (h # <<>> <=> Len(h) > 0) /\ Heads(h) \in 0..1
  BY HistoryIs, NotEmpty, HeadsIs
<1> HIDE DEF g
<1>3. g # <<>>
  <2>1. Len(g) > 0
    BY <1>1
  <2> QED
    BY <1>1, <2>1, NotEmpty
<1>4. Heads(g) = Heads(h)
  <2>1. CASE h = <<>>
    <3>1. Len(h) = 0
      BY <1>1, <1>2, <2>1
    <3>2. g[1] = m
      BY <1>1, <3>1
    <3> QED
      BY <2>1, <3>2 DEF Heads
  <2>2. CASE h # <<>>
    <3>1. 1 \in DOMAIN h
      BY <1>1, <1>2, <2>2
    <3> QED
      BY <1>1, <1>3, <2>2, <3>1 DEF Heads
  <2> QED
    BY <2>1, <2>2
<1>5. Heads(g) < Len(g) /\ g[Heads(g) + 1].role = "user"
  <2>1. CASE h = <<>>
    <3>1. Len(h) = 0 /\ m.role = "user" /\ Heads(h) = 0
      BY <1>1, <1>2, <2>1 DEF Heads
    <3>2. g[1] = m /\ Len(g) = 1
      BY <1>1, <3>1
    <3> QED
      BY <1>4, <3>1, <3>2
  <2>2. CASE h # <<>>
    <3>1. Heads(h) < Len(h) /\ h[Heads(h) + 1].role = "user"
      BY <2>2 DEF Opens
    <3>2. Heads(h) + 1 \in DOMAIN h
      BY <1>1, <1>2, <3>1
    <3> QED
      BY <1>1, <1>2, <1>4, <3>1, <3>2
  <2> QED
    BY <2>1, <2>2
<1>6. Heads(g) = 1 => g[1].id = 0
  <2> SUFFICES ASSUME Heads(h) = 1 PROVE g[1].id = 0
    BY <1>4
  <2>1. 1 \in DOMAIN h /\ h[1].id = 0
    BY <1>1, <1>2 DEF Opens, Heads
  <2> QED
    BY <1>1, <2>1
<1>7. \A i \in DOMAIN g : i > Heads(g) => g[i].role # "checkpoint" /\ g[i].covers = {}
  BY <1>1, <1>4 DEF Opens
<1>8. Opens(g)
  BY <1>5, <1>6, <1>7 DEF Opens
<1> QED
  BY <1>4, <1>8 DEF g

\* Only a user's message changes which is the last of them.
LEMMA AppendCurrent ==
  ASSUME NEW h \in Histories, NEW m \in Message, m.role # "user",
         NEW u, Current(h, u)
  PROVE  Current(Append(h, m), u) /\ Append(h, m)[u] = h[u]
<1>1. LET g == Append(h, m)
      IN  /\ \A i \in DOMAIN h : i \in DOMAIN g /\ g[i] = h[i]
          /\ g[Len(h) + 1] = m
          /\ \A i \in DOMAIN g : i \in DOMAIN h \/ i = Len(h) + 1
  BY AppendIs
<1> DEFINE g == Append(h, m)
<1>2. g[u] = h[u] /\ u \in DOMAIN g /\ g[u].role = "user"
  BY <1>1 DEF Current
<1>3. ASSUME NEW j \in DOMAIN g, j > u PROVE g[j].role # "user"
  BY <1>1, <1>3 DEF Current
<1> QED
  BY <1>2, <1>3 DEF Current

LEMMA UserIsCurrent ==
  ASSUME NEW h \in Histories, NEW m \in Message, m.role = "user"
  PROVE  Current(Append(h, m), Len(h) + 1)
<1>1. LET g == Append(h, m)
      IN  /\ DOMAIN g = 1..(Len(h) + 1) /\ Len(h) \in Nat /\ g[Len(h) + 1] = m
  BY AppendIs
<1> DEFINE g == Append(h, m)
<1>2. Len(h) + 1 \in DOMAIN g /\ \A j \in DOMAIN g : ~(j > Len(h) + 1)
  BY <1>1
<1> QED
  BY <1>1, <1>2 DEF Current

\* Only one message asks.
LEMMA AskingIs ==
  ASSUME messages \in Histories, NEW a \in DOMAIN messages, Asks(messages, a)
  PROVE  Asking = a /\ Answered = Len(messages) - a
<1> DEFINE P(i) == /\ messages[i].role = "assistant"
                   /\ \A j \in DOMAIN messages : j > i => messages[j].role = "tool"
<1>1. Len(messages) \in Nat /\ DOMAIN messages = 1..Len(messages)
  BY HistoryIs
<1>2. P(a)
  BY DEF Asks
<1>3. ASSUME NEW i \in DOMAIN messages, P(i) PROVE i = a
  <2>1. ~(i < a) /\ ~(a < i)
    BY <1>2, <1>3
  <2> QED
    BY <1>1, <2>1
<1>4. Asking = a
  BY <1>2, <1>3 DEF Asking
<1> QED
  BY <1>4 DEF Answered

-----------------------------------------------------------------------------
(***************************************************************************)
(* Compaction.                                                             *)
(***************************************************************************)
\* The same conversation, but for what its messages say.
Alike(h, g) ==
  /\ g \in Histories /\ Len(g) = Len(h) /\ DOMAIN g = DOMAIN h
  /\ \A i \in DOMAIN h :
       /\ g[i].role = h[i].role /\ g[i].id = h[i].id /\ g[i].calls = h[i].calls
       /\ g[i].of = h[i].of /\ g[i].n = h[i].n /\ g[i].covers = h[i].covers

LEMMA ShorterIsMessage ==
  ASSUME NEW m \in Message
  PROVE  LET q == [m EXCEPT !.long = FALSE]
         IN  /\ q \in Message
             /\ q.role = m.role /\ q.id = m.id /\ q.calls = m.calls
             /\ q.of = m.of /\ q.n = m.n /\ q.covers = m.covers
BY DEF Message

LEMMA TruncatedIsAlike == ASSUME NEW h \in Histories PROVE Alike(h, Truncated(h))
<1> DEFINE tools == {i \in DOMAIN h : h[i].role = "tool"}
           old(i) == i \in tools /\ Cardinality({j \in tools : j > i}) >= KeepRecent
           g == [i \in DOMAIN h |-> IF old(i) THEN [h[i] EXCEPT !.long = FALSE] ELSE h[i]]
<1>1. Len(h) \in Nat /\ DOMAIN h = 1..Len(h) /\ \A i \in DOMAIN h : h[i] \in Message
  BY HistoryIs
<1>2. Truncated(h) = g
  BY DEF Truncated
<1>3. \A i \in DOMAIN h : g[i] = [h[i] EXCEPT !.long = FALSE] \/ g[i] = h[i]
  BY Zenon
<1>4. DOMAIN g = DOMAIN h
  BY Zenon
<1> HIDE DEF g, old, tools
<1>5. \A i \in DOMAIN h :
        /\ g[i] \in Message
        /\ g[i].role = h[i].role /\ g[i].id = h[i].id /\ g[i].calls = h[i].calls
        /\ g[i].of = h[i].of /\ g[i].n = h[i].n /\ g[i].covers = h[i].covers
  BY <1>1, <1>3, ShorterIsMessage, ZenonT(40)
<1>6. g \in [1..Len(h) -> Message]
  <2>1. g = [i \in DOMAIN h |-> g[i]]
    BY <1>4 DEF g
  <2> QED
    BY <1>1, <1>5, <2>1
<1>7. g \in Seq(Message) /\ Len(g) = Len(h)
  BY <1>1, <1>6
<1> QED
  BY <1>2, <1>4, <1>5, <1>7 DEF Alike, Histories

LEMMA AlikeIs ==
  ASSUME NEW h \in Histories, NEW g, Alike(h, g)
  PROVE  /\ Underway(h) => Underway(g)
         /\ Complete(h) => Complete(g)
         /\ Heads(g) = Heads(h)
         /\ Opens(h) => Opens(g)
         /\ \A u \in DOMAIN h : Current(h, u) => Current(g, u)
<1>1. /\ Len(h) \in Nat /\ DOMAIN h = 1..Len(h)
      /\ \A i \in DOMAIN h : h[i].calls \in Nat /\ h[i].n \in Nat
  BY HistoryIs
<1>2. /\ g \in Histories /\ Len(g) = Len(h) /\ DOMAIN g = 1..Len(h)
      /\ \A i \in DOMAIN h :
           /\ g[i].role = h[i].role /\ g[i].id = h[i].id /\ g[i].calls = h[i].calls
           /\ g[i].of = h[i].of /\ g[i].n = h[i].n /\ g[i].covers = h[i].covers
  BY <1>1 DEF Alike
<1>3. ASSUME Underway(h) PROVE Underway(g)
  <2>1. ASSUME NEW i \in 1..Len(h), g[i].role = "assistant", NEW k \in 1..g[i].calls, i + k <= Len(h)
        PROVE  Answers(g, i, k)
    <3>1. i + k \in 1..Len(h) /\ k \in 1..h[i].calls /\ h[i].role = "assistant"
      BY <1>1, <1>2, <2>1
    <3>2. Answers(h, i, k)
      BY <1>1, <1>3, <2>1, <3>1 DEF Underway
    <3> QED
      BY <1>1, <1>2, <3>1, <3>2 DEF Answers
  <2>2. ASSUME NEW i \in 1..Len(h), g[i].role = "tool"
        PROVE  /\ g[i].n \in 1..(i - 1)
               /\ g[i - g[i].n].role = "assistant" /\ g[i - g[i].n].id = g[i].of
               /\ g[i].n <= g[i - g[i].n].calls
    <3>1. h[i].n \in 1..(i - 1) /\ i - h[i].n \in 1..Len(h) /\ h[i].role = "tool"
      BY <1>1, <1>2, <1>3, <2>2 DEF Underway
    <3> QED
      BY <1>1, <1>2, <1>3, <3>1 DEF Underway
  <2> QED
    BY <1>2, <2>1, <2>2 DEF Underway
<1>4. Complete(h) => Complete(g)
  BY <1>1, <1>2 DEF Complete
<1>5. Heads(g) = Heads(h) /\ (g # <<>> <=> h # <<>>)
  <2>1. (h # <<>> <=> Len(h) > 0) /\ (g # <<>> <=> Len(g) > 0)
    BY <1>2, NotEmpty
  <2>2. Len(h) > 0 => 1 \in DOMAIN h
    BY <1>1
  <2> QED
    BY <1>2, <2>1, <2>2 DEF Heads
<1>6. ASSUME Opens(h) PROVE Opens(g)
  <2>1. g # <<>> => Heads(g) < Len(g) /\ g[Heads(g) + 1].role = "user"
    <3> SUFFICES ASSUME g # <<>> PROVE Heads(g) < Len(g) /\ g[Heads(g) + 1].role = "user"
      OBVIOUS
    <3>1. Heads(h) < Len(h) /\ h[Heads(h) + 1].role = "user" /\ Heads(h) \in 0..1
      BY <1>5, <1>6, HeadsIs DEF Opens
    <3>2. Heads(h) + 1 \in DOMAIN h
      BY <1>1, <3>1
    <3> QED
      BY <1>2, <1>5, <3>1, <3>2
  <2>2. Heads(g) = 1 => g[1].id = 0
    <3>1. Heads(h) = 1 => 1 \in DOMAIN h /\ h[1].id = 0
      BY <1>1, <1>6, HeadsIs DEF Opens
    <3> QED
      BY <1>2, <1>5, <3>1
  <2>3. \A i \in DOMAIN g : i > Heads(g) => g[i].role # "checkpoint" /\ g[i].covers = {}
    BY <1>1, <1>2, <1>5, <1>6 DEF Opens
  <2> QED
    BY <2>1, <2>2, <2>3 DEF Opens
<1>7. \A u \in DOMAIN h : Current(h, u) => Current(g, u)
  BY <1>1, <1>2 DEF Current
<1> QED
  BY <1>3, <1>4, <1>5, <1>6, <1>7

LEMMA FirstIs ==
  ASSUME NEW h \in Histories, Opens(h), h # <<>>
  PROVE  /\ First(h) = Heads(h) + 1 /\ First(h) \in DOMAIN h /\ First(h) \in Nat
         /\ \A cut \in Users(h) : cut \in DOMAIN h /\ cut \in Nat /\ First(h) <= cut /\ cut <= Len(h)
         /\ Heads(h) = 1 => h[1].role = "checkpoint" /\ h[1].id = 0
<1>1. /\ Len(h) \in Nat /\ DOMAIN h = 1..Len(h) /\ Heads(h) \in 0..1
      /\ Heads(h) < Len(h) /\ h[Heads(h) + 1].role = "user"
  BY HistoryIs, HeadsIs DEF Opens
<1>2. Heads(h) + 1 \in Users(h)
  BY <1>1 DEF Users
<1>3. Heads(h) = 1 => h[1].role = "checkpoint" /\ h[1].id = 0
  BY DEF Heads, Opens
<1>4. ASSUME NEW cut \in Users(h) PROVE Heads(h) + 1 <= cut /\ cut \in DOMAIN h
  BY <1>1, <1>3 DEF Users
<1>5. First(h) = Heads(h) + 1
  <2>1. First(h) \in Users(h) /\ \A j \in Users(h) : First(h) <= j
    BY <1>2, <1>4 DEF First
  <2>2. First(h) \in Nat /\ First(h) <= Heads(h) + 1 /\ Heads(h) + 1 <= First(h)
    BY <1>1, <1>2, <1>4, <2>1
  <2> QED
    BY <1>1, <2>2
<1> QED
  BY <1>1, <1>3, <1>4, <1>5

\* The conversation from cut on.
Rest(h, cut) == SubSeq(h, cut, Len(h))

LEMMA RestIs ==
  ASSUME NEW h \in Histories, NEW cut \in DOMAIN h
  PROVE  /\ Rest(h, cut) \in Histories /\ Len(Rest(h, cut)) = Len(h) - cut + 1
         /\ cut \in Nat /\ Len(h) \in Nat /\ Len(h) - cut + 1 \in Nat
         /\ \A i \in 1..(Len(h) - cut + 1) : i \in DOMAIN Rest(h, cut) /\ Rest(h, cut)[i] = h[cut + i - 1]
         /\ \A j \in cut..Len(h) : /\ j - cut + 1 \in DOMAIN Rest(h, cut)
                                   /\ Rest(h, cut)[j - cut + 1] = h[j]
<1> DEFINE T == Rest(h, cut)
<1>1. Len(h) \in Nat /\ DOMAIN h = 1..Len(h) /\ \A i \in cut..Len(h) : h[i] \in Message
  BY HistoryIs
<1>2. /\ T \in Seq(Message) /\ Len(T) = Len(h) - cut + 1
      /\ \A i \in 1..(Len(h) - cut + 1) : T[i] = h[cut + i - 1]
  BY <1>1, SubSeqProperties DEF Rest
<1> HIDE DEF T
<1>3. DOMAIN T = 1..(Len(h) - cut + 1)
  BY <1>2, HistoryIs DEF Histories
<1>4. \A j \in cut..Len(h) : j - cut + 1 \in 1..(Len(h) - cut + 1) /\ cut + (j - cut + 1) - 1 = j
  BY <1>1
<1>5. \A j \in cut..Len(h) : T[j - cut + 1] = h[j]
  BY <1>2, <1>4
<1>6. T \in Histories /\ cut \in Nat /\ Len(h) - cut + 1 \in Nat
  BY <1>1, <1>2 DEF Histories
<1> QED
  BY <1>1, <1>2, <1>3, <1>4, <1>5, <1>6 DEF T

LEMMA PrependIs ==
  ASSUME NEW h \in Histories, NEW m \in Message
  PROVE  LET g == <<m>> \o h
         IN  /\ g \in Histories /\ Len(g) = Len(h) + 1 /\ g[1] = m
             /\ \A i \in DOMAIN h : g[i + 1] = h[i]
<1> DEFINE g == <<m>> \o h
<1>1. <<m>> \in Seq(Message) /\ Len(<<m>>) = 1 /\ <<m>>[1] = m
  OBVIOUS
<1>2. Len(h) \in Nat /\ DOMAIN h = 1..Len(h)
  BY HistoryIs
<1>3. /\ g \in Seq(Message) /\ Len(g) = 1 + Len(h)
      /\ \A i \in 1..(1 + Len(h)) : g[i] = IF i <= 1 THEN <<m>>[i] ELSE h[i - 1]
  BY <1>1, ConcatProperties DEF Histories
<1> HIDE DEF g
<1>4. 1 \in 1..(1 + Len(h)) /\ \A i \in 1..Len(h) : i + 1 \in 1..(1 + Len(h)) /\ ~(i + 1 <= 1) /\ (i + 1) - 1 = i
  BY <1>2
<1>5. g[1] = m /\ \A i \in 1..Len(h) : g[i + 1] = h[i]
  BY <1>1, <1>3, <1>4
<1> QED
  BY <1>2, <1>3, <1>5 DEF g, Histories

LEMMA OneIs ==
  ASSUME NEW S, NEW s \in Seq(S), Len(s) = 1
  PROVE  s = <<s[1]>>
<1>1. s[1] \in S
  BY ElementOfSeq
<1>2. <<s[1]>> \in Seq(S) /\ Len(<<s[1]>>) = 1 /\ <<s[1]>>[1] = s[1]
  BY <1>1
<1>3. \A i \in 1..Len(s) : s[i] = <<s[1]>>[i]
  BY <1>2
<1> QED
  BY <1>2, <1>3, SeqEqual

\* What is left when the turns before cut are dropped: the first checkpoint,
\* if there is one, and the rest.
LEMMA WithoutIs ==
  ASSUME NEW h \in Histories, Opens(h), h # <<>>, NEW cut \in Users(h)
  PROVE  Without(h, cut) = IF Heads(h) = 1 THEN <<h[1]>> \o Rest(h, cut) ELSE Rest(h, cut)
<1>1. /\ First(h) = Heads(h) + 1 /\ First(h) \in DOMAIN h /\ cut \in DOMAIN h
      /\ Heads(h) \in 0..1
  BY FirstIs, HeadsIs
<1>2. Rest(h, cut) \in Histories
  BY <1>1, RestIs
<1>3. First(h) - 1 = Heads(h)
  BY <1>1
<1>4. CASE Heads(h) = 0
  <2>1. SubSeq(h, 1, First(h) - 1) = <<>>
    BY <1>3, <1>4, SubSeqEmpty
  <2>2. Without(h, cut) = <<>> \o Rest(h, cut)
    BY <2>1 DEF Without, Rest
  <2>3. <<>> \o Rest(h, cut) = Rest(h, cut)
    BY <1>2, ConcatEmptySeq DEF Histories
  <2> QED
    BY <1>4, <2>2, <2>3
<1>5. CASE Heads(h) = 1
  <2>1. SubSeq(h, 1, First(h) - 1) = SubSeq(h, 1, 1)
    BY <1>3, <1>5
  <2>2. SubSeq(h, 1, 1) = <<h[1]>>
    <3>1. 1 \in 1..Len(h) /\ h[1] \in Message
      BY <1>5, HistoryIs, HeadsIs
    <3>2. /\ SubSeq(h, 1, 1) \in Seq(Message) /\ Len(SubSeq(h, 1, 1)) = 1
          /\ SubSeq(h, 1, 1)[1] = h[1]
      BY <3>1, SubSeqProperties
    <3> QED
      BY <3>2, OneIs
  <2> QED
    BY <1>5, <2>1, <2>2 DEF Without, Rest
<1> QED
  BY <1>1, <1>4, <1>5

LEMMA WithoutEarlierIs ==
  ASSUME NEW h \in Histories, Opens(h), h # <<>>, NEW cut \in Users(h)
  PROVE  LET w == Without(h, cut)
         IN  /\ WithoutEarlier(w) = Rest(h, cut)
             /\ Earlier(w) = IF Heads(h) = 1 THEN {1} ELSE {}
             /\ w \in Histories
             /\ Heads(h) = 1 => w[1] = h[1]
<1> DEFINE w == Without(h, cut)
           T == Rest(h, cut)
<1>1. /\ cut \in DOMAIN h /\ Heads(h) \in 0..1 /\ cut > Heads(h) /\ cut \in Nat
      /\ Heads(h) = 1 => h[1].role = "checkpoint"
      /\ DOMAIN h = 1..Len(h) /\ Len(h) \in Nat /\ \A i \in DOMAIN h : h[i] \in Message
  BY FirstIs, HeadsIs, HistoryIs
<1>2. /\ T \in Histories /\ Len(T) = Len(h) - cut + 1 /\ DOMAIN T = 1..Len(T) /\ Len(T) \in Nat
      /\ \A i \in DOMAIN T : T[i] = h[cut + i - 1]
  BY <1>1, RestIs, HistoryIs
<1>3. w = IF Heads(h) = 1 THEN <<h[1]>> \o T ELSE T
  BY WithoutIs
<1> HIDE DEF w, T
<1>4. \A i \in DOMAIN T : T[i].role # "checkpoint"
  <2> SUFFICES ASSUME NEW i \in DOMAIN T PROVE T[i].role # "checkpoint"
    OBVIOUS
  <2>1. cut + i - 1 \in DOMAIN h /\ cut + i - 1 > Heads(h)
    BY <1>1, <1>2
  <2> QED
    BY <1>2, <2>1 DEF Opens
<1>5. CASE Heads(h) = 0
  <2>1. Earlier(T) = {}
    BY <1>4 DEF Earlier
  <2> QED
    BY <1>2, <1>3, <1>5, <2>1 DEF WithoutEarlier, w, T
<1>6. CASE Heads(h) = 1
  <2>1. h[1] \in Message /\ h[1].role = "checkpoint"
    BY <1>1, <1>6
  <2>2. w \in Histories /\ Len(w) = Len(T) + 1 /\ w[1] = h[1] /\ \A i \in DOMAIN T : w[i + 1] = T[i]
    BY <1>2, <1>3, <1>6, <2>1, PrependIs
  <2>3. DOMAIN w = 1..(Len(T) + 1) /\ \A i \in DOMAIN w : w[i] \in Message
    BY <2>2, HistoryIs
  <2>4. Earlier(w) = {1}
    <3>1. 1 \in Earlier(w)
      BY <1>2, <2>1, <2>2, <2>3 DEF Earlier
    <3>2. ASSUME NEW i \in Earlier(w) PROVE i = 1
      <4> SUFFICES ASSUME i > 1 PROVE FALSE
        BY <1>2, <2>3 DEF Earlier
      <4>1. 1 \in 1..(i - 1)
        BY <1>2, <2>3 DEF Earlier
      <4> QED
        BY <2>1, <2>2, <4>1 DEF Earlier
    <3> QED
      BY <3>1, <3>2
  <2>5. WithoutEarlier(w) = SubSeq(w, 1, 0) \o SubSeq(w, 2, Len(w))
    <3>1. (CHOOSE i \in Earlier(w) : TRUE) = 1
      BY <2>4
    <3> QED
      BY <2>4, <3>1 DEF WithoutEarlier
  <2>6. /\ SubSeq(w, 2, Len(w)) \in Seq(Message) /\ Len(SubSeq(w, 2, Len(w))) = Len(T)
        /\ \A i \in 1..Len(T) : SubSeq(w, 2, Len(w))[i] = w[i + 1]
    <3>1. \A i \in 2..Len(w) : w[i] \in Message
      BY <1>2, <2>2, <2>3
    <3> QED
      BY <1>2, <2>2, <3>1, SubSeqProperties
  <2>7. SubSeq(w, 2, Len(w)) = T
    BY <1>2, <2>2, <2>6, SeqEqual, ZenonT(40) DEF Histories
  <2>8. SubSeq(w, 1, 0) = <<>>
    BY SubSeqEmpty
  <2>9. WithoutEarlier(w) = T
    BY <1>2, <2>5, <2>7, <2>8, ConcatEmptySeq DEF Histories
  <2> QED
    BY <1>6, <2>2, <2>4, <2>9 DEF w, T
<1> QED
  BY <1>1, <1>5, <1>6 DEF w, T

\* g is h from cut on, behind a checkpoint or (p = 0) nothing.
From(h, cut, g, p) ==
  /\ g \in Histories /\ Len(g) = p + Len(h) - cut + 1
  /\ p = 1 => g[1].role = "checkpoint" /\ g[1].id = 0
  /\ \A j \in cut..Len(h) : g[p + j - cut + 1] = h[j]

LEMMA RestIsFrom ==
  ASSUME NEW h \in Histories, NEW cut \in DOMAIN h
  PROVE  From(h, cut, Rest(h, cut), 0)
<1>1. /\ Rest(h, cut) \in Histories /\ Len(Rest(h, cut)) = Len(h) - cut + 1
      /\ cut \in Nat /\ Len(h) \in Nat
      /\ \A j \in cut..Len(h) : Rest(h, cut)[j - cut + 1] = h[j]
  BY RestIs
<1>2. \A j \in cut..Len(h) : 0 + j - cut + 1 = j - cut + 1
  BY <1>1
<1>3. 0 + Len(h) - cut + 1 = Len(h) - cut + 1
  BY <1>1
<1> QED
  BY <1>1, <1>2, <1>3 DEF From

LEMMA PrependIsFrom ==
  ASSUME NEW h \in Histories, NEW cut \in DOMAIN h, NEW m \in Message,
         m.role = "checkpoint", m.id = 0
  PROVE  From(h, cut, <<m>> \o Rest(h, cut), 1)
<1>1. /\ Rest(h, cut) \in Histories /\ Len(Rest(h, cut)) = Len(h) - cut + 1
      /\ cut \in Nat /\ Len(h) \in Nat
      /\ \A j \in cut..Len(h) : j - cut + 1 \in DOMAIN Rest(h, cut) /\ Rest(h, cut)[j - cut + 1] = h[j]
  BY RestIs
<1> DEFINE g == <<m>> \o Rest(h, cut)
<1>2. /\ g \in Histories /\ Len(g) = Len(Rest(h, cut)) + 1 /\ g[1] = m
      /\ \A i \in DOMAIN Rest(h, cut) : g[i + 1] = Rest(h, cut)[i]
  BY <1>1, PrependIs
<1> HIDE DEF g
<1>3. \A j \in cut..Len(h) : 1 + j - cut + 1 = (j - cut + 1) + 1
  BY <1>1
<1>4. Len(g) = 1 + Len(h) - cut + 1
  BY <1>1, <1>2
<1>5. \A j \in cut..Len(h) : g[1 + j - cut + 1] = h[j]
  BY <1>1, <1>2, <1>3
<1>6. From(h, cut, g, 1)
  BY <1>2, <1>4, <1>5 DEF From
<1> QED
  BY <1>6 DEF g

\* What the turns before cut are, and how many messages.
LEMMA DroppedIs ==
  ASSUME NEW h \in Histories, Opens(h), h # <<>>, NEW cut \in Users(h)
  PROVE  LET d == SubSeq(h, First(h), cut - 1)
         IN  /\ d \in Histories /\ Len(d) = cut - First(h)
             /\ d = <<>> <=> cut = First(h)
             /\ Ids(d) = {h[i].id : i \in First(h)..(cut - 1)}
             /\ Ids(d) \subseteq Nat
<1> DEFINE d == SubSeq(h, First(h), cut - 1)
<1>1. /\ First(h) \in Nat /\ First(h) >= 1 /\ cut \in Nat /\ First(h) <= cut /\ cut <= Len(h)
      /\ DOMAIN h = 1..Len(h) /\ Len(h) \in Nat /\ \A i \in DOMAIN h : h[i] \in Message
  BY FirstIs, HistoryIs
<1>2. /\ d \in Seq(Message) /\ Len(d) = cut - First(h)
      /\ \A i \in 1..(cut - First(h)) : d[i] = h[First(h) + i - 1]
  <2>1. \A i \in First(h)..(cut - 1) : h[i] \in Message
    BY <1>1
  <2>2. /\ d \in Seq(Message)
        /\ Len(d) = IF First(h) <= cut - 1 THEN (cut - 1) - First(h) + 1 ELSE 0
        /\ \A i \in 1..((cut - 1) - First(h) + 1) : d[i] = h[First(h) + i - 1]
    BY <1>1, <2>1, SubSeqProperties
  <2>3. (cut - 1) - First(h) + 1 = cut - First(h) /\ (~(First(h) <= cut - 1) => cut - First(h) = 0)
    BY <1>1
  <2> QED
    BY <2>2, <2>3
<1> HIDE DEF d
<1>3. d \in Histories /\ DOMAIN d = 1..(cut - First(h)) /\ Ids(d) \subseteq Nat
  BY <1>2, HistoryIs DEF Histories, Ids
<1>4. d = <<>> <=> cut = First(h)
  <2>1. d # <<>> <=> Len(d) > 0
    BY <1>3, NotEmpty
  <2> QED
    BY <1>1, <1>2, <2>1
<1>5. Ids(d) = {h[i].id : i \in First(h)..(cut - 1)}
  <2>1. ASSUME NEW i \in 1..(cut - First(h)) PROVE d[i].id \in {h[k].id : k \in First(h)..(cut - 1)}
    <3>1. First(h) + i - 1 \in First(h)..(cut - 1)
      BY <1>1
    <3> QED
      BY <1>2, <3>1
  <2>2. ASSUME NEW k \in First(h)..(cut - 1) PROVE h[k].id \in Ids(d)
    <3>1. k - First(h) + 1 \in 1..(cut - First(h)) /\ First(h) + (k - First(h) + 1) - 1 = k
      BY <1>1
    <3>2. d[k - First(h) + 1] = h[k]
      BY <1>2, <3>1
    <3> QED
      BY <1>3, <3>1, <3>2 DEF Ids
  <2> QED
    BY <1>3, <2>1, <2>2 DEF Ids
<1> QED
  BY <1>2, <1>3, <1>4, <1>5 DEF d


LEMMA FromIs ==
  ASSUME NEW h \in Histories, NEW cut \in DOMAIN h, NEW p \in 0..1, NEW g, From(h, cut, g, p)
  PROVE  /\ g \in Histories /\ DOMAIN g = 1..(p + Len(h) - cut + 1)
         /\ \A j \in cut..Len(h) : /\ p + j - cut + 1 \in DOMAIN g
                                   /\ g[p + j - cut + 1] = h[j]
<1>1. cut \in 1..Len(h) /\ Len(h) \in Nat
  BY HistoryIs
<1>2. g \in Histories /\ DOMAIN g = 1..(p + Len(h) - cut + 1)
  BY HistoryIs DEF From
<1>3. \A j \in cut..Len(h) : p + j - cut + 1 \in 1..(p + Len(h) - cut + 1)
  BY <1>1
<1> QED
  BY <1>2, <1>3 DEF From

LEMMA CompactedIs ==
  ASSUME NEW h \in Histories, Opens(h), h # <<>>, NEW cut \in Users(h),
         NEW g \in Summarized(Without(h, cut), SubSeq(h, First(h), cut - 1))
  PROVE  /\ \E p \in 0..1 : From(h, cut, g, p)
         /\ Light = "works" => Known(h) \subseteq Known(g) \cup {0}
<1> DEFINE w == Without(h, cut)
           d == SubSeq(h, First(h), cut - 1)
           T == Rest(h, cut)
           m == Checkpoint(w, d)
<1>1. /\ cut \in DOMAIN h /\ cut \in Nat /\ First(h) = Heads(h) + 1 /\ First(h) <= cut
      /\ Heads(h) \in 0..1 /\ (Heads(h) = 1 => h[1].role = "checkpoint" /\ h[1].id = 0)
      /\ DOMAIN h = 1..Len(h) /\ Len(h) \in Nat /\ \A i \in DOMAIN h : h[i] \in Message
      /\ \A i \in DOMAIN h : h[i].covers \subseteq Nat
  BY FirstIs, HeadsIs, HistoryIs
<1>2. /\ WithoutEarlier(w) = T
      /\ Earlier(w) = IF Heads(h) = 1 THEN {1} ELSE {}
      /\ Heads(h) = 1 => w[1] = h[1]
  BY WithoutEarlierIs
<1>3. w = IF Heads(h) = 1 THEN <<h[1]>> \o T ELSE T
  BY WithoutIs
<1>4. (d = <<>> <=> cut = First(h)) /\ Ids(d) = {h[i].id : i \in First(h)..(cut - 1)} /\ Ids(d) \subseteq Nat
  BY DroppedIs
<1>5. From(h, cut, T, 0)
  BY <1>1, RestIsFrom
<1>6. 1 \in DOMAIN h
  BY <1>1
<1>7. \E p \in 0..1 : From(h, cut, w, p)
  <2>1. CASE Heads(h) = 1
    BY <1>1, <1>3, <1>6, <2>1, PrependIsFrom
  <2>2. CASE Heads(h) = 0
    BY <1>3, <1>5, <2>2
  <2> QED
    BY <1>1, <2>1, <2>2
<1>8. /\ m \in Message /\ m.role = "checkpoint" /\ m.id = 0
      /\ m.covers = Ids(d) \cup (IF Heads(h) = 1 THEN h[1].covers ELSE {})
  <2> DEFINE c == Ids(d) \cup UNION {w[i].covers : i \in Earlier(w)}
  <2>1. c = Ids(d) \cup (IF Heads(h) = 1 THEN h[1].covers ELSE {})
    BY <1>1, <1>2
  <2>2. c \in SUBSET Nat
    BY <1>1, <1>4, <1>6, <2>1
  <2>3. m = [Plain EXCEPT !.role = "checkpoint", !.covers = c]
    BY DEF Checkpoint
  <2> HIDE DEF c, m
  <2> QED
    BY <2>1, <2>2, <2>3, CheckpointIs
<1>9. From(h, cut, <<m>> \o T, 1)
  BY <1>1, <1>8, PrependIsFrom
<1>10. g \in (IF Light = "none" \/ d = <<>> THEN {w}
              ELSE {<<m>> \o T} \cup (IF Light = "may fail" THEN {T} ELSE {}))
  BY <1>2 DEF Summarized
<1>11. T \in Histories /\ (Heads(h) = 1 => (<<h[1]>> \o T)[1] = h[1]) /\ (<<m>> \o T)[1] = m
  <2>1. T \in Histories
    BY <1>1, RestIs
  <2> HIDE DEF T, m
  <2> QED
    BY <1>1, <1>6, <1>8, <2>1, PrependIs
<1> HIDE DEF w, d, T, m
<1>12. PICK p \in 0..1 : From(h, cut, g, p)
  <2>1. g = w \/ g = <<m>> \o T \/ g = T
    BY <1>10
  <2>2. 0 \in 0..1 /\ 1 \in 0..1
    OBVIOUS
  <2> QED
    BY <1>5, <1>7, <1>9, <2>1, <2>2, Zenon
<1>13. DOMAIN g = 1..(p + Len(h) - cut + 1) /\ 1 \in DOMAIN g
  <2>1. DOMAIN g = 1..(p + Len(h) - cut + 1)
    BY <1>1, <1>12, FromIs, ZenonT(40)
  <2>2. cut <= Len(h) /\ p \in Nat
    BY <1>1
  <2> QED
    BY <1>1, <2>1, <2>2
<1>14. ASSUME Light = "works" PROVE Known(h) \subseteq Known(g) \cup {0}
  <2> SUFFICES ASSUME NEW i \in DOMAIN h, NEW x \in h[i].covers \cup {h[i].id}, x # 0
               PROVE  \E k \in DOMAIN g : x \in g[k].covers \cup {g[k].id}
    BY SMTT(30) DEF Known, Ids
  <2>1. CASE i >= cut
    <3>1. i \in cut..Len(h)
      BY <1>1, <2>1
    <3>2. p + i - cut + 1 \in DOMAIN g /\ g[p + i - cut + 1] = h[i]
      BY <1>1, <1>12, <3>1, FromIs, ZenonT(40)
    <3> QED
      BY <3>2
  <2>2. CASE i < cut /\ i <= Heads(h)
    <3>1. i = 1 /\ Heads(h) = 1 /\ h[i].id = 0
      BY <1>1, <2>2
    <3>2. CASE d = <<>>
      <4>1. g[1] = h[1]
        BY <1>3, <1>10, <1>11, <3>1, <3>2
      <4> QED
        BY <1>13, <3>1, <4>1
    <3>3. CASE d # <<>>
      <4>1. g[1] = m
        BY <1>10, <1>11, <1>14, <3>3
      <4> QED
        BY <1>8, <1>13, <3>1, <4>1
    <3> QED
      BY <3>2, <3>3
  <2>3. CASE i < cut /\ i > Heads(h)
    <3>1. i \in First(h)..(cut - 1) /\ cut # First(h)
      BY <1>1, <2>3
    <3>2. x = h[i].id /\ x \in m.covers
      BY <1>4, <1>8, <2>3, <3>1 DEF Opens
    <3>3. g[1] = m
      BY <1>4, <1>10, <1>11, <1>14, <3>1
    <3> QED
      BY <1>13, <3>2, <3>3
  <2> QED
    BY <1>1, <2>1, <2>2, <2>3
<1> QED
  BY <1>12, <1>14

LEMMA Backward ==
  ASSUME NEW c \in Nat, NEW l \in Nat, NEW p \in Nat, NEW i \in 1..(p + l - c + 1), i > p, c >= 1
  PROVE  i + c - 1 - p \in c..l /\ p + (i + c - 1 - p) - c + 1 = i
OBVIOUS

LEMMA FromBack ==
  ASSUME NEW h \in Histories, NEW cut \in DOMAIN h, NEW p \in 0..1, NEW g, From(h, cut, g, p),
         NEW i \in DOMAIN g, i > p
  PROVE  \E j \in DOMAIN h : j >= cut /\ j = i + cut - 1 - p /\ g[i] = h[j]
<1>1. cut \in 1..Len(h) /\ Len(h) \in Nat /\ DOMAIN h = 1..Len(h) /\ p \in Nat
  BY HistoryIs
<1>2. /\ DOMAIN g = 1..(p + Len(h) - cut + 1)
      /\ \A j \in cut..Len(h) : g[p + j - cut + 1] = h[j]
  BY FromIs
<1>3. i + cut - 1 - p \in cut..Len(h) /\ p + (i + cut - 1 - p) - cut + 1 = i
  BY <1>1, <1>2, Backward
<1>4. g[i] = h[i + cut - 1 - p]
  BY <1>2, <1>3
<1>5. i + cut - 1 - p \in DOMAIN h /\ i + cut - 1 - p >= cut
  BY <1>1, <1>3
<1> QED
  BY <1>4, <1>5

LEMMA FromOpens ==
  ASSUME NEW h \in Histories, Opens(h), h # <<>>, NEW cut \in Users(h), NEW p \in 0..1,
         NEW g, From(h, cut, g, p)
  PROVE  Opens(g) /\ Heads(g) = p /\ cut \in DOMAIN h
<1>1. /\ cut \in DOMAIN h /\ cut \in Nat /\ cut > Heads(h) /\ h[cut].role = "user" /\ cut <= Len(h)
      /\ Heads(h) \in 0..1 /\ DOMAIN h = 1..Len(h) /\ Len(h) \in Nat
  BY FirstIs, HeadsIs, HistoryIs DEF Users
<1>2. /\ g \in Histories /\ Len(g) = p + Len(h) - cut + 1
      /\ DOMAIN g = 1..(p + Len(h) - cut + 1)
      /\ p = 1 => g[1].role = "checkpoint" /\ g[1].id = 0
      /\ \A j \in cut..Len(h) : g[p + j - cut + 1] = h[j]
  BY <1>1, FromIs DEF From
<1>3. p \in Nat /\ p < p + Len(h) - cut + 1 /\ p + cut - cut + 1 = p + 1 /\ cut \in cut..Len(h)
  BY <1>1
<1>4. g # <<>>
  <2>1. Len(g) > 0
    BY <1>2, <1>3, <1>1
  <2> QED
    BY <1>2, <2>1, NotEmpty
<1>5. g[p + 1].role = "user"
  BY <1>1, <1>2, <1>3
<1>6. Heads(g) = p
  BY <1>2, <1>4, <1>5 DEF Heads
<1>7. ASSUME NEW i \in DOMAIN g, i > p PROVE g[i].role # "checkpoint" /\ g[i].covers = {}
  <2>c. cut \in DOMAIN h
    BY <1>1
  <2>1. PICK j \in DOMAIN h : j >= cut /\ j = i + cut - 1 - p /\ g[i] = h[j]
    BY <2>c, <1>7, FromBack
  <2>2. j > Heads(h)
    BY <1>1, <2>1
  <2> QED
    BY <2>1, <2>2 DEF Opens
<1>8. Opens(g)
  BY <1>2, <1>3, <1>5, <1>6, <1>7 DEF Opens
<1> QED
  BY <1>1, <1>6, <1>8

LEMMA FromCurrent ==
  ASSUME NEW h \in Histories, NEW cut \in Users(h), NEW p \in 0..1, NEW g, From(h, cut, g, p),
         p = 1 => g[1].role # "user", NEW u \in DOMAIN h, Current(h, u)
  PROVE  \E v \in DOMAIN g : Current(g, v) /\ g[v].id = h[u].id
<1>1. /\ cut \in DOMAIN h /\ cut \in Nat /\ u \in Nat /\ u <= Len(h) /\ Len(h) \in Nat
      /\ DOMAIN h = 1..Len(h) /\ h[u].role = "user"
      /\ \A j \in DOMAIN h : j > u => h[j].role # "user"
  BY HistoryIs DEF Users, Current
<1>2. cut <= u
  <2>1. cut \in DOMAIN h /\ h[cut].role = "user"
    BY DEF Users
  <2> QED
    BY <1>1, <2>1
<1>3. /\ DOMAIN g = 1..(p + Len(h) - cut + 1)
      /\ \A j \in cut..Len(h) : p + j - cut + 1 \in DOMAIN g /\ g[p + j - cut + 1] = h[j]
  <2>1. cut \in DOMAIN h
    BY <1>1
  <2> QED
    BY <2>1, FromIs, SMTT(30)
<1>4. u \in cut..Len(h) /\ p \in Nat
  BY <1>1, <1>2
<1>5. PICK v \in DOMAIN g : v = p + u - cut + 1 /\ g[v] = h[u]
  BY <1>3, <1>4
<1>6. ASSUME NEW i \in DOMAIN g, i > v PROVE g[i].role # "user"
  <2>1. i \in Nat /\ v > p /\ v \in Nat
    BY <1>1, <1>2, <1>3, <1>4, <1>5, <1>6
  <2>2. i > p
    BY <1>3, <1>4, <1>6, <2>1
  <2>3. PICK j \in DOMAIN h : j = i + cut - 1 - p /\ g[i] = h[j]
    BY <1>1, <2>2, FromBack
  <2>4. j > u
    BY <1>1, <1>4, <1>5, <1>6, <2>1, <2>3
  <2> QED
    BY <1>1, <2>3, <2>4
<1> QED
  BY <1>1, <1>5, <1>6 DEF Current

LEMMA FromFinished ==
  ASSUME NEW h \in Histories, Underway(h), Complete(h), NEW cut \in Users(h), NEW p \in 0..1,
         NEW g, From(h, cut, g, p)
  PROVE  Underway(g) /\ Complete(g)
<1>1. /\ cut \in DOMAIN h /\ h[cut].role = "user" /\ cut \in Nat /\ cut >= 1 /\ cut <= Len(h)
      /\ Len(h) \in Nat /\ DOMAIN h = 1..Len(h) /\ p \in Nat
      /\ \A i \in DOMAIN h : h[i].calls \in Nat
  BY HistoryIs DEF Users
<1>2. /\ g \in Histories /\ Len(g) = p + Len(h) - cut + 1
      /\ p = 1 => g[1].role = "checkpoint"
      /\ \A j \in cut..Len(h) : g[p + j - cut + 1] = h[j]
      /\ DOMAIN g = 1..(p + Len(h) - cut + 1)
  BY <1>1, FromIs DEF From
<1>3. Underway(g)
  BY <1>1, <1>2, SuffixUnderway
<1>4. ASSUME NEW i \in DOMAIN g, g[i].role = "assistant" PROVE i + g[i].calls <= Len(g)
  <2>1. i \in 1..(p + Len(h) - cut + 1) /\ i > p
    BY <1>1, <1>2, <1>4
  <2>c. cut \in DOMAIN h
    BY <1>1
  <2>3. PICK m \in DOMAIN h : m >= cut /\ m = i + cut - 1 - p /\ g[i] = h[m]
    BY <2>c, <2>1, FromBack
  <2>4. PICK q \in Nat : q = h[m].calls
    BY <1>1
  <2>5. m + q <= Len(h)
    BY <1>4, <2>3, <2>4 DEF Complete
  <2>6. i + q <= p + Len(h) - cut + 1
    BY <1>1, <2>1, <2>3, <2>4, <2>5, SMTT(30)
  <2> QED
    BY <1>2, <2>3, <2>4, <2>6
<1> QED
  BY <1>3, <1>4 DEF Complete


\* What _compact does: nothing, or some turns are dropped, none of them the
\* one under way.
LEMMA CompactIs ==
  ASSUME messages \in Histories, Opens(messages), NEW u \in DOMAIN messages, Current(messages, u),
         Compact
  PROVE  \/ messages' = messages /\ trimmed' = trimmed
         \/ \E h \in Histories : \E cut \in Users(h), p \in 0..1 :
              /\ Alike(messages, h)
              /\ From(h, cut, messages', p)
              /\ trimmed' = trimmed + (cut - First(h))
              /\ Light = "works" => Known(h) \subseteq Known(messages') \cup {0}
<1> DEFINE h == Truncated(messages)
<1>1. h \in Histories /\ Alike(messages, h)
  BY TruncatedIsAlike DEF Alike
<1>2. Opens(h) /\ Current(h, u)
  BY <1>1, AlikeIs
<1>3. u \in Users(h) /\ h # <<>>
  <2>1. u \in DOMAIN h /\ h[u].role = "user" /\ Len(h) \in Nat /\ DOMAIN h = 1..Len(h)
    BY <1>1, <1>2, HistoryIs DEF Current
  <2>2. Len(h) > 0
    BY <2>1
  <2> QED
    BY <1>1, <2>1, <2>2, NotEmpty DEF Users
<1>4. CASE Size(messages) <= MaxContext
  BY <1>4 DEF Compact
<1>5. CASE ~(Size(messages) <= MaxContext)
  <2>1. PICK cut \in IF Size(h) <= MaxContext THEN {First(h)} ELSE Cuts(h) :
          /\ trimmed' = trimmed + Len(SubSeq(h, First(h), cut - 1))
          /\ messages' \in Summarized(Without(h, cut), SubSeq(h, First(h), cut - 1))
    BY <1>5 DEF Compact
  <2> HIDE DEF h
  <2>2. cut \in Users(h)
    <3>1. First(h) \in Users(h)
      BY <1>1, <1>2, <1>3, FirstIs DEF Users, Opens
    <3>2. Cuts(h) \subseteq Users(h)
      BY DEF Cuts, Least
    <3> QED
      BY <2>1, <3>1, <3>2
  <2>3. Len(SubSeq(h, First(h), cut - 1)) = cut - First(h)
    BY <1>1, <1>2, <1>3, <2>2, DroppedIs
  <2>4. /\ \E p \in 0..1 : From(h, cut, messages', p)
        /\ Light = "works" => Known(h) \subseteq Known(messages') \cup {0}
    BY <1>1, <1>2, <1>3, <2>1, <2>2, CompactedIs
  <2> QED
    BY <1>1, <2>1, <2>2, <2>3, <2>4
<1> QED
  BY <1>4, <1>5

-----------------------------------------------------------------------------
(***************************************************************************)
(* The repair after an interrupt.                                          *)
(***************************************************************************)
\* The answers that repair_dangling_tool_calls adds.
Missing(h) == IF h # <<>> /\ Last(h).role = "assistant" THEN Last(h).calls ELSE 0

LEMMA RepairedIs ==
  ASSUME messages \in Histories, said \in Nat
  PROVE  LET g == Repaired(messages)
             c == Missing(messages)
             l == Len(messages)
         IN  /\ g \in Histories /\ c \in Nat /\ l \in Nat /\ Len(g) = l + c
             /\ DOMAIN messages = 1..l /\ DOMAIN g = 1..(l + c)
             /\ \A i \in 1..l : g[i] = messages[i]
             /\ \A k \in 1..c : /\ g[l + k].role = "tool" /\ g[l + k].of = messages[l].id
                                /\ g[l + k].n = k /\ g[l + k].id = said + k /\ g[l + k].covers = {}
<1> DEFINE g == Repaired(messages)
           c == Missing(messages)
           l == Len(messages)
<1>1. /\ l \in Nat /\ DOMAIN messages = 1..l
      /\ \A i \in DOMAIN messages : messages[i] \in Message /\ messages[i].calls \in 0..MaxCalls
  <2>1. /\ l \in Nat /\ DOMAIN messages = 1..l
        /\ \A i \in DOMAIN messages : messages[i] \in Message
    BY HistoryIs
  <2>2. \A m \in Message : m.calls \in 0..MaxCalls
    BY DEF Message
  <2> QED
    BY <2>1, <2>2
<1>2. CASE ~(messages # <<>> /\ Last(messages).role = "assistant")
  <2>1. g = messages /\ c = 0
    BY <1>2 DEF Repaired, Missing
  <2> QED
    BY <1>1, <2>1
<1>3. CASE messages # <<>> /\ Last(messages).role = "assistant"
  <2>1. l \in DOMAIN messages
    BY <1>1, <1>3, NotEmpty
  <2>2. c = messages[l].calls /\ c \in 0..MaxCalls
    BY <1>1, <1>3, <2>1 DEF Missing, Last
  <2>3. MaxCalls \in Nat
    BY LoopAssumption, Zenon
  <2> DEFINE add == [k \in 1..c |-> [Answer(l, k, FALSE) EXCEPT !.id = said + k]]
  <2>4. g = messages \o add
    BY <1>3, <2>2 DEF Repaired, Last
  <2>5. \A k \in 1..c : /\ add[k] \in Message /\ add[k].role = "tool" /\ add[k].of = messages[l].id
                        /\ add[k].n = k /\ add[k].id = said + k /\ add[k].covers = {}
    <3> SUFFICES ASSUME NEW k \in 1..c
                 PROVE  /\ add[k] \in Message /\ add[k].role = "tool" /\ add[k].of = messages[l].id
                        /\ add[k].n = k /\ add[k].id = said + k /\ add[k].covers = {}
      OBVIOUS
    <3>1. k \in 0..MaxCalls /\ said + k \in Nat
      BY <2>2, <2>3
    <3>2. add[k] = [Answer(l, k, FALSE) EXCEPT !.id = said + k]
      OBVIOUS
    <3> HIDE DEF add, g, c, l
    <3>3. messages[l].id \in Nat
      BY <2>1, HistoryIs
    <3> QED
      BY <3>1, <3>2, <3>3, PlainIsMessage, ZenonT(40) DEF Plain, Message, Answer
  <2>6. add \in Seq(Message) /\ Len(add) = c
    <3>1. c \in Nat
      BY <2>2, <2>3
    <3>2. add \in [1..c -> Message]
      BY <2>5
    <3> HIDE DEF add, c
    <3> QED
      BY <3>1, <3>2
  <2> HIDE DEF add
  <2>7. /\ g \in Seq(Message) /\ Len(g) = l + c
        /\ \A i \in 1..(l + c) : g[i] = IF i <= l THEN messages[i] ELSE add[i - l]
    <3>1. messages \in Seq(Message) /\ l = Len(messages)
      BY DEF Histories
    <3> HIDE DEF g, c, l
    <3>2. /\ messages \o add \in Seq(Message) /\ Len(messages \o add) = Len(messages) + Len(add)
          /\ \A i \in 1..(Len(messages) + Len(add)) :
               (messages \o add)[i] = IF i <= Len(messages) THEN messages[i] ELSE add[i - Len(messages)]
      BY <2>6, <3>1, ConcatProperties
    <3> QED
      BY <2>4, <2>6, <3>1, <3>2
  <2> HIDE DEF g
  <2>8. c \in Nat /\ DOMAIN g = 1..(l + c)
    BY <2>2, <2>3, <2>7, HistoryIs DEF Histories
  <2>9. \A i \in 1..l : i \in 1..(l + c) /\ i <= l
    BY <1>1, <2>8
  <2>10. \A k \in 1..c : l + k \in 1..(l + c) /\ ~(l + k <= l) /\ (l + k) - l = k
    BY <1>1, <2>8
  <2>11. (\A i \in 1..l : g[i] = messages[i]) /\ \A k \in 1..c : g[l + k] = add[k]
    BY <2>7, <2>9, <2>10
  <2> HIDE DEF c, l
  <2>12. \A k \in 1..c : /\ g[l + k].role = "tool" /\ g[l + k].of = messages[l].id
                         /\ g[l + k].n = k /\ g[l + k].id = said + k /\ g[l + k].covers = {}
    BY <2>5, <2>11
  <2>13. g \in Histories
    BY <2>7 DEF Histories
  <2>14. (\A i \in 1..l : g[i] = messages[i]) /\ c \in Nat /\ Len(g) = l + c /\ DOMAIN g = 1..(l + c)
    BY <2>7, <2>8, <2>11
  <2> QED
    BY <1>1, <2>12, <2>13, <2>14 DEF g, c, l
<1> QED
  BY <1>2, <1>3

LEMMA RepairedFinished ==
  ASSUME messages \in Histories, said \in Nat, Underway(messages),
         Complete(messages) \/ (messages # <<>> /\ Last(messages).role = "assistant")
  PROVE  Underway(Repaired(messages)) /\ Complete(Repaired(messages))
<1> DEFINE g == Repaired(messages)
           c == Missing(messages)
           l == Len(messages)
           h == messages
<1>1. /\ g \in Histories /\ c \in Nat /\ l \in Nat /\ Len(g) = l + c
      /\ DOMAIN h = 1..l /\ DOMAIN g = 1..(l + c)
      /\ \A i \in 1..l : g[i] = h[i]
      /\ \A k \in 1..c : g[l + k].role = "tool" /\ g[l + k].of = h[l].id /\ g[l + k].n = k
  BY RepairedIs, Zenon
<1>2. \A i \in 1..l : h[i].calls \in Nat /\ h[i].n \in Nat
  BY <1>1, HistoryIs
<1>3. /\ c > 0 => l \in 1..l /\ h[l].role = "assistant" /\ h[l].calls = c
      /\ l \in 1..l /\ h[l].role = "assistant" => h[l].calls = c
  <2>1. h # <<>> <=> l > 0
    BY NotEmpty
  <2> QED
    BY <1>1, <2>1 DEF Missing, Last
<1> HIDE DEF g, c
\* All but the last have their answers.
<1>4. ASSUME NEW i \in 1..l, i # l, h[i].role = "assistant" PROVE i + h[i].calls <= l
  <2>1. CASE Complete(h)
    BY <1>1, <1>4, <2>1 DEF Complete
  <2>2. CASE h # <<>> /\ Last(h).role = "assistant"
    <3> HIDE DEF l, h
    <3>4. l \in Nat /\ DOMAIN h = 1..l
      BY <1>1
    <3>5. i \in 1..l /\ i # l
      BY <1>4
    <3>1. l \in DOMAIN h /\ i \in 1..(l - 1)
      BY <3>4, <3>5
    <3> USE DEF l, h
    <3>2. h[l].role # "tool"
      BY <2>2 DEF Last
    <3>3. i + h[i].calls <= l - 1
      BY <1>4, <3>1, <3>2, CompleteBefore
    <3> QED
      BY <1>1, <1>2, <3>3
  <2> QED
    BY <2>1, <2>2
<1>5. ASSUME NEW i \in DOMAIN g PROVE i \in 1..l \/ \E k \in 1..c : i = l + k
  <2>1. i \in 1..l \/ (i - l \in 1..c /\ i = l + (i - l))
    BY <1>1
  <2> QED
    BY <2>1
<1>6. ASSUME NEW i \in DOMAIN g, g[i].role = "assistant"
      PROVE  /\ i \in 1..l /\ g[i] = h[i]
             /\ \/ i = l /\ h[i].calls = c
                \/ i + h[i].calls <= l
  <2>1. i \in 1..l /\ g[i] = h[i]
    BY <1>1, <1>5, <1>6
  <2> QED
    BY <1>3, <1>4, <1>6, <2>1
<1>7. Complete(g)
  <2> SUFFICES ASSUME NEW i \in DOMAIN g, g[i].role = "assistant" PROVE i + g[i].calls <= l + c
    BY <1>1 DEF Complete
  <2> QED
    BY <1>1, <1>2, <1>6
<1>8. ASSUME NEW i \in DOMAIN g, g[i].role = "assistant", NEW k \in 1..g[i].calls
      PROVE  Answers(g, i, k)
  <2>1. i \in 1..l /\ g[i] = h[i] /\ k \in 1..h[i].calls
    BY <1>6, <1>8
  <2>2. CASE i = l /\ h[i].calls = c
    BY <1>1, <2>1, <2>2 DEF Answers
  <2>3. CASE i + h[i].calls <= l
    <3>1. i + k \in 1..l
      BY <1>1, <1>2, <2>1, <2>3
    <3>2. Answers(h, i, k)
      BY <1>1, <1>8, <2>1, <3>1 DEF Underway
    <3> QED
      BY <1>1, <2>1, <3>1, <3>2 DEF Answers
  <2> QED
    BY <1>6, <1>8, <2>2, <2>3
<1>9. ASSUME NEW i \in DOMAIN g, g[i].role = "tool"
      PROVE  /\ g[i].n \in 1..(i - 1)
             /\ g[i - g[i].n].role = "assistant" /\ g[i - g[i].n].id = g[i].of
             /\ g[i].n <= g[i - g[i].n].calls
  <2>1. CASE i \in 1..l
    <3>1. g[i] = h[i] /\ h[i].n \in 1..(i - 1) /\ i - h[i].n \in 1..l
      BY <1>1, <1>2, <1>9, <2>1 DEF Underway
    <3> QED
      BY <1>1, <1>9, <2>1, <3>1 DEF Underway
  <2>2. ASSUME NEW k \in 1..c, i = l + k
        PROVE  /\ g[i].n \in 1..(i - 1)
               /\ g[i - g[i].n].role = "assistant" /\ g[i - g[i].n].id = g[i].of
               /\ g[i].n <= g[i - g[i].n].calls
    <3>1. l \in 1..l /\ h[l].role = "assistant" /\ h[l].calls = c /\ g[l] = h[l]
      BY <1>1, <1>3, <2>2
    <3>2. g[i].n = k /\ g[i].of = h[l].id
      BY <1>1, <2>2
    <3>3. k \in 1..(i - 1) /\ i - k = l /\ k <= c
      BY <1>1, <2>2, <3>1
    <3> QED
      BY <3>1, <3>2, <3>3
  <2> QED
    BY <1>5, <2>1, <2>2
<1>10. Underway(g)
  BY <1>8, <1>9 DEF Underway
<1> QED
  BY <1>7, <1>10 DEF g

-----------------------------------------------------------------------------
(***************************************************************************)
(* Every step keeps what stands.                                           *)
(***************************************************************************)
LEMMA InitStands == Init => Standing /\ Finished
<1> SUFFICES ASSUME Init PROVE Standing /\ Finished
  OBVIOUS
<1>1. /\ messages = <<>> /\ trimmed = 0 /\ said = 0 /\ request = 0 /\ stop = FALSE
      /\ pc = "idle" /\ step = 0 /\ turn = 0
  BY DEF Init
<1>2. messages \in Histories /\ Len(messages) = 0 /\ DOMAIN messages = {}
  BY <1>1, HistoryIs DEF Histories
<1>3. MaxSteps \in Nat /\ MaxTurns \in Nat
  BY LoopAssumption, Zenon
<1>4. TypeOK
  <2>1. messages \in Seq(Message)
    BY <1>2 DEF Histories
  <2>2. 0 \in 0..MaxSteps /\ 0 \in 0..MaxTurns
    BY <1>3
  <2> QED
    BY <1>1, <2>1, <2>2 DEF TypeOK
<1>5. Opens(messages) /\ Heads(messages) = 0
  BY <1>1, <1>2 DEF Opens, Heads
<1>6. Asked /\ RequestFits
  BY <1>1 DEF Asked, RequestFits, Working
<1>7. CountFits
  BY <1>1, <1>2, <1>5 DEF CountFits
<1>8. Finished
  BY <1>2 DEF Finished, Underway, Complete
<1> QED
  BY <1>4, <1>5, <1>6, <1>7, <1>8 DEF Standing

LEMMA Stands ==
  ASSUME Standing
  PROVE  /\ messages \in Histories /\ Opens(messages) /\ trimmed \in Nat /\ said \in Nat /\ request \in Nat
         /\ Len(messages) \in Nat /\ DOMAIN messages = 1..Len(messages) /\ Heads(messages) \in 0..1
         /\ pc \in Working => RequestStands /\ messages # <<>>
         /\ trimmed + Len(messages) = said + Heads(messages)
         /\ MaxSteps \in Nat /\ MaxTurns \in Nat /\ MaxCalls \in Nat
<1>1. /\ messages \in Histories /\ Opens(messages) /\ trimmed \in Nat /\ said \in Nat /\ request \in Nat
      /\ trimmed + Len(messages) = said + Heads(messages)
  BY DEF Standing, TypeOK, Histories, CountFits
<1>2. Len(messages) \in Nat /\ DOMAIN messages = 1..Len(messages) /\ Heads(messages) \in 0..1
  BY <1>1, HistoryIs, HeadsIs
<1>3. MaxSteps \in Nat /\ MaxTurns \in Nat /\ MaxCalls \in Nat
  BY LoopAssumption, Zenon
<1>4. ASSUME pc \in Working PROVE RequestStands /\ messages # <<>>
  <2>1. RequestStands
    BY <1>4 DEF Standing, RequestFits
  <2>2. \E u : u \in DOMAIN messages
    BY <2>1 DEF RequestStands
  <2>3. Len(messages) > 0
    BY <1>2, <2>2
  <2> QED
    BY <1>1, <2>1, <2>3, NotEmpty
<1> QED
  BY <1>1, <1>2, <1>3, <1>4

\* Steps that say nothing.
LEMMA QuietStands ==
  ASSUME Standing, UNCHANGED history, stop' \in BOOLEAN, step' \in 0..MaxSteps, turn' \in 0..MaxTurns,
         pc' \in {"idle", "starting", "compact", "model", "calls", "tool"},
         pc' \in Working => pc \in Working,
         pc' \in {"calls", "tool"} => pc \in {"calls", "tool"},
         pc' = "tool" =>
           \A a \in DOMAIN messages : Asks(messages, a) => Len(messages) - a < messages[a].calls
  PROVE  Standing'
<1>1. messages' = messages /\ trimmed' = trimmed /\ said' = said /\ request' = request
  BY DEF history
<1>2. TypeOK'
  BY <1>1 DEF Standing, TypeOK
<1>3. Opens(messages)' /\ CountFits'
  BY <1>1 DEF Standing, CountFits
<1>4. Asked'
  BY <1>1 DEF Standing, Asked
<1>5. RequestFits'
  BY <1>1 DEF Standing, RequestFits, RequestStands
<1> QED
  BY <1>2, <1>3, <1>4, <1>5 DEF Standing

\* Steps that say m.
LEMMA SaidStands ==
  ASSUME Standing, NEW m \in Message, messages' = Append(messages, m), said' = said + 1,
         trimmed' = trimmed, m.role # "checkpoint", m.covers = {}, messages # <<>> \/ m.role = "user"
  PROVE  messages' \in Seq(Message) /\ said' \in Nat /\ Opens(messages') /\ CountFits'
<1>1. /\ messages \in Histories /\ Opens(messages) /\ said \in Nat /\ trimmed \in Nat
      /\ Len(messages) \in Nat /\ Heads(messages) \in 0..1
      /\ trimmed + Len(messages) = said + Heads(messages)
  BY Stands
<1>2. messages' \in Histories /\ Len(messages') = Len(messages) + 1
  BY <1>1, AppendIs
<1>3. Opens(messages') /\ Heads(messages') = Heads(messages)
  BY <1>1, AppendOpens
<1>4. CountFits'
  BY <1>1, <1>2, <1>3 DEF CountFits
<1> QED
  BY <1>1, <1>2, <1>3, <1>4 DEF Histories

LEMMA BeginStands == Standing /\ BeginTurn => Standing'
<1> SUFFICES ASSUME Standing, BeginTurn PROVE Standing'
  OBVIOUS
<1>1. /\ pc' = "compact" /\ stop' = FALSE /\ step' = 1 /\ said' = said + 1 /\ request' = said + 1
      /\ messages' = Append(messages, [Plain EXCEPT !.id = said + 1])
      /\ trimmed' = trimmed /\ turn' = turn
  BY DEF BeginTurn, Say
<1>2. messages \in Histories /\ said \in Nat /\ Len(messages) \in Nat
  BY Stands
<1>3. PICK m \in Message : /\ m = [Plain EXCEPT !.id = said + 1]
                           /\ m.role = "user" /\ m.id = said + 1 /\ m.calls = 0 /\ m.covers = {}
  <2>1. said + 1 \in Nat
    BY <1>2
  <2> QED
    BY <2>1, UserIs
<1>4. messages' = Append(messages, m)
  BY <1>1, <1>3
<1>5. messages' \in Seq(Message) /\ said' \in Nat /\ Opens(messages') /\ CountFits'
  BY <1>1, <1>3, <1>4, SaidStands
<1>6. 1 \in 0..MaxSteps
  <2>1. MaxSteps \in Nat \ {0}
    BY LoopAssumption, Zenon
  <2> QED
    BY <2>1
<1>7. TypeOK'
  BY <1>1, <1>2, <1>5, <1>6 DEF Standing, TypeOK
<1>8. RequestStands'
  <2>1. Current(messages', Len(messages) + 1)
    BY <1>2, <1>3, <1>4, UserIsCurrent
  <2>2. messages'[Len(messages) + 1] = m
    BY <1>2, <1>4, AppendIs
  <2> QED
    BY <1>1, <1>3, <2>1, <2>2 DEF RequestStands, Current
<1>9. Asked' /\ RequestFits'
  BY <1>1, <1>8 DEF Asked, RequestFits
<1> QED
  BY <1>5, <1>7, <1>9 DEF Standing

\* What is said during a turn does not touch its request.
LEMMA RequestStays ==
  ASSUME Standing, NEW m \in Message, messages' = Append(messages, m), request' = request,
         m.role # "user", RequestStands
  PROVE  RequestStands'
<1>1. messages \in Histories
  BY Stands
<1>2. PICK u \in DOMAIN messages : Current(messages, u) /\ messages[u].id = request
  BY DEF RequestStands
<1>3. Current(messages', u) /\ messages'[u] = messages[u]
  BY <1>1, <1>2, AppendCurrent
<1> QED
  BY <1>2, <1>3 DEF RequestStands, Current

LEMMA CompactStands == Standing /\ Compact => Standing'
<1> SUFFICES ASSUME Standing, Compact PROVE Standing'
  OBVIOUS
<1>1. /\ pc = "compact" /\ pc' = "model" /\ said' = said /\ request' = request
      /\ stop' = stop /\ step' = step /\ turn' = turn
  BY DEF Compact
<1>2. /\ messages \in Histories /\ Opens(messages) /\ said \in Nat /\ trimmed \in Nat /\ messages # <<>>
      /\ Len(messages) \in Nat /\ Heads(messages) \in 0..1 /\ RequestStands
      /\ trimmed + Len(messages) = said + Heads(messages)
  BY <1>1, Stands DEF Working
<1>3. PICK u \in DOMAIN messages : Current(messages, u) /\ messages[u].id = request
  BY <1>2 DEF RequestStands
<1>4. CASE messages' = messages /\ trimmed' = trimmed
  <2>1. UNCHANGED history
    BY <1>1, <1>4 DEF history
  <2> QED
    BY <1>1, <2>1, QuietStands DEF Standing, TypeOK, Working
<1>5. ASSUME NEW h \in Histories, NEW cut \in Users(h), NEW p \in 0..1,
             Alike(messages, h), From(h, cut, messages', p), trimmed' = trimmed + (cut - First(h))
      PROVE  Standing'
  <2>1. /\ Opens(h) /\ Heads(h) = Heads(messages) /\ Current(h, u) /\ Len(h) = Len(messages)
        /\ u \in DOMAIN h /\ h[u].id = request
    BY <1>2, <1>3, <1>5, AlikeIs DEF Alike
  <2>2. h # <<>>
    <3>1. Len(h) > 0
      BY <1>2, <2>1, NotEmpty
    <3> QED
      BY <3>1, NotEmpty
  <2>3. Opens(messages') /\ Heads(messages') = p /\ cut \in DOMAIN h
    BY <1>5, <2>1, <2>2, FromOpens
  <2>4. /\ cut \in Nat /\ First(h) = Heads(h) + 1 /\ First(h) <= cut /\ First(h) \in Nat
    BY <2>1, <2>2, FirstIs
  <2>5. messages' \in Histories /\ Len(messages') = p + Len(h) - cut + 1
    BY <1>5 DEF From
  <2>6. trimmed' \in Nat /\ trimmed' + Len(messages') = said + p
    <3>1. Heads(messages) \in Nat /\ p \in Nat
      BY <1>2
    <3>2. trimmed' = trimmed + (cut - (Heads(messages) + 1))
      BY <1>5, <2>1, <2>4
    <3>3. Len(messages') = p + Len(messages) - cut + 1 /\ Heads(messages) + 1 <= cut
      BY <2>1, <2>4, <2>5
    <3>4. /\ trimmed \in Nat /\ said \in Nat /\ Len(messages) \in Nat /\ cut \in Nat
          /\ trimmed + Len(messages) = said + Heads(messages)
      BY <1>2, <2>4
    <3>5. /\ trimmed + (cut - (Heads(messages) + 1)) \in Nat
          /\ (trimmed + (cut - (Heads(messages) + 1))) + (p + Len(messages) - cut + 1) = said + p
      <4> DEFINE t == trimmed
                 s == said
                 l == Len(messages)
                 d == Heads(messages)
      <4>1. /\ t \in Nat /\ l \in Nat /\ s \in Nat /\ d \in Nat /\ p \in Nat /\ cut \in Nat
            /\ t + l = s + d /\ d + 1 <= cut
        BY <3>1, <3>3, <3>4
      <4> HIDE DEF t, s, l, d
      <4>2. t + (cut - (d + 1)) \in Nat /\ (t + (cut - (d + 1))) + (p + l - cut + 1) = s + p
        BY <4>1
      <4> QED
        BY <4>2 DEF t, s, l, d
    <3> QED
      BY <3>2, <3>3, <3>5, Zenon
  <2>7. TypeOK'
    <3>1. messages' \in Seq(Message)
      BY <2>5 DEF Histories
    <3> QED
      BY <1>1, <2>6, <3>1 DEF Standing, TypeOK
  <2>8. CountFits'
    BY <1>1, <2>3, <2>6 DEF CountFits
  <2>9. RequestStands'
    <3>1. p = 1 => messages'[1].role # "user"
      BY <1>5 DEF From
    <3>2. PICK v \in DOMAIN messages' : Current(messages', v) /\ messages'[v].id = h[u].id
      BY <1>5, <2>1, <3>1, FromCurrent
    <3> QED
      BY <1>1, <2>1, <3>2 DEF RequestStands
  <2>10. Asked' /\ RequestFits'
    BY <1>1, <2>9 DEF Asked, RequestFits
  <2> QED
    BY <2>3, <2>7, <2>8, <2>10 DEF Standing
<1> QED
  BY <1>2, <1>3, <1>4, <1>5, CompactIs

LEMMA ReplyStands ==
  ASSUME Standing, NEW c \in 0..MaxCalls, Reply(c) PROVE Standing'
<1>1. /\ pc = "model" /\ pc' = IF c = 0 THEN "idle" ELSE "calls"
      /\ said' = said + 1 /\ request' = request /\ trimmed' = trimmed
      /\ stop' = stop /\ step' = step /\ turn' = turn
      /\ messages' = Append(messages, [[Plain EXCEPT !.role = "assistant", !.calls = c] EXCEPT !.id = said + 1])
  BY DEF Reply, Say
<1>2. /\ messages \in Histories /\ Opens(messages) /\ said \in Nat /\ messages # <<>>
      /\ Len(messages) \in Nat /\ RequestStands /\ request \in Nat /\ MaxCalls \in Nat /\ trimmed \in Nat
  BY <1>1, Stands DEF Working
<1>3. PICK m \in Message : /\ m = [[Plain EXCEPT !.role = "assistant", !.calls = c] EXCEPT !.id = said + 1]
                           /\ m.role = "assistant" /\ m.calls = c /\ m.covers = {}
  <2>1. said + 1 \in Nat
    BY <1>2
  <2> DEFINE m == [[Plain EXCEPT !.role = "assistant", !.calls = c] EXCEPT !.id = said + 1]
  <2>2. m \in Message /\ m.role = "assistant" /\ m.calls = c /\ m.covers = {}
    BY <2>1, AssistantIs
  <2> HIDE DEF m
  <2>3. m = [[Plain EXCEPT !.role = "assistant", !.calls = c] EXCEPT !.id = said + 1]
    BY DEF m
  <2> QED
    BY <2>2, <2>3
<1>4. messages' = Append(messages, m)
  BY <1>1, <1>3
<1>5. messages' \in Seq(Message) /\ said' \in Nat /\ Opens(messages') /\ CountFits'
  BY <1>1, <1>2, <1>3, <1>4, SaidStands
<1>6. TypeOK'
  BY <1>1, <1>2, <1>5 DEF Standing, TypeOK
<1>7. RequestStands'
  BY <1>1, <1>2, <1>3, <1>4, RequestStays
<1>8. Asks(messages', Len(messages) + 1)
  <2>1. /\ DOMAIN messages' = 1..(Len(messages) + 1) /\ Len(messages') = Len(messages) + 1
        /\ messages'[Len(messages) + 1] = m
    BY <1>2, <1>4, AppendIs
  <2>2. /\ Len(messages) + 1 \in DOMAIN messages'
        /\ \A j \in DOMAIN messages' : ~(j > Len(messages) + 1)
        /\ Len(messages') - (Len(messages) + 1) <= c
    BY <1>2, <2>1
  <2> QED
    BY <1>3, <2>1, <2>2 DEF Asks
<1>9. Asked' /\ RequestFits'
  BY <1>1, <1>7, <1>8 DEF Asked, RequestFits, Asks
<1> QED
  BY <1>5, <1>6, <1>9 DEF Standing


\* Steps that answer the next call.
LEMMA AnswerStands ==
  ASSUME Standing, NEW long \in BOOLEAN,
         (pc = "calls" /\ Answered < messages[Asking].calls) \/ pc = "tool",
         pc' = "calls", Say(Answer(Asking, Answered + 1, long)),
         UNCHANGED <<trimmed, request, stop, step, turn>>
  PROVE  Standing'
<1>1. /\ pc \in {"calls", "tool"} /\ pc' = "calls" /\ said' = said + 1 /\ request' = request
      /\ trimmed' = trimmed /\ stop' = stop /\ step' = step /\ turn' = turn
      /\ messages' = Append(messages, [Answer(Asking, Answered + 1, long) EXCEPT !.id = said + 1])
  BY DEF Say
<1>2. /\ messages \in Histories /\ Opens(messages) /\ said \in Nat /\ messages # <<>>
      /\ Len(messages) \in Nat /\ DOMAIN messages = 1..Len(messages)
      /\ RequestStands /\ request \in Nat /\ MaxCalls \in Nat /\ trimmed \in Nat
  BY <1>1, Stands DEF Working
<1>3. PICK a \in DOMAIN messages : Asks(messages, a)
  BY <1>1 DEF Standing, Asked
<1>4. Asking = a /\ Answered = Len(messages) - a
  BY <1>2, <1>3, AskingIs
<1>5. Len(messages) - a < messages[a].calls
  BY <1>3, <1>4 DEF Standing, Asked
<1>6. Len(messages) - a + 1 \in 0..MaxCalls
  <2>1. messages[a].calls \in 0..MaxCalls
    <3>1. messages[a] \in Message
      BY <1>2, HistoryIs
    <3> QED
      BY <3>1 DEF Message
  <2>2. PICK q \in 0..MaxCalls : q = messages[a].calls
    BY <2>1
  <2> QED
    BY <1>2, <1>5, <2>2
<1>7. PICK m \in Message : /\ m = [Answer(a, Len(messages) - a + 1, long) EXCEPT !.id = said + 1]
                           /\ m.role = "tool" /\ m.covers = {}
  <2>1. said + 1 \in Nat
    BY <1>2
  <2> DEFINE m == [Answer(a, Len(messages) - a + 1, long) EXCEPT !.id = said + 1]
  <2>2. m \in Message /\ m.role = "tool" /\ m.covers = {}
    BY <1>2, <1>6, <2>1, AnswerIs
  <2> HIDE DEF m
  <2>3. m = [Answer(a, Len(messages) - a + 1, long) EXCEPT !.id = said + 1]
    BY DEF m
  <2> QED
    BY <2>2, <2>3
<1>8. messages' = Append(messages, m)
  BY <1>1, <1>4, <1>7
<1>9. messages' \in Seq(Message) /\ said' \in Nat /\ Opens(messages') /\ CountFits'
  BY <1>1, <1>2, <1>7, <1>8, SaidStands
<1>10. TypeOK'
  BY <1>1, <1>2, <1>9 DEF Standing, TypeOK
<1>11. RequestStands'
  BY <1>1, <1>2, <1>7, <1>8, RequestStays
<1>12. Asks(messages', a)
  BY <1>2, <1>3, <1>5, <1>7, <1>8, AnswerAsks
<1>13. Asked' /\ RequestFits'
  BY <1>1, <1>11, <1>12 DEF Asked, RequestFits, Asks
<1> QED
  BY <1>9, <1>10, <1>13 DEF Standing

LEMMA InterruptStands == Standing /\ Interrupt => Standing'
<1> SUFFICES ASSUME Standing, Interrupt PROVE Standing'
  OBVIOUS
<1> DEFINE g == Repaired(messages)
           c == Missing(messages)
           l == Len(messages)
           hd == Heads(messages)
<1>1. /\ pc \in Working /\ pc' = "idle" /\ messages' = g /\ said' = said + (Len(messages') - l)
      /\ trimmed' = trimmed /\ request' = request /\ stop' = stop /\ step' = step /\ turn' = turn
  BY DEF Interrupt, Working
<1>2. /\ messages \in Histories /\ Opens(messages) /\ said \in Nat /\ messages # <<>>
      /\ l \in Nat /\ request \in Nat /\ trimmed \in Nat /\ hd \in 0..1 /\ trimmed + l = said + hd
  BY <1>1, Stands
<1>3. /\ g \in Histories /\ c \in Nat /\ Len(g) = l + c
      /\ DOMAIN messages = 1..l /\ DOMAIN g = 1..(l + c)
      /\ \A i \in 1..l : g[i] = messages[i]
      /\ \A k \in 1..c : g[l + k].role = "tool" /\ g[l + k].covers = {}
  BY <1>2, RepairedIs, Zenon
<1> HIDE DEF g, c
<1>4. hd < l /\ messages[hd + 1].role = "user" /\ (hd = 1 => messages[1].id = 0)
  BY <1>2 DEF Opens
<1>5. g # <<>>
  <2>1. Len(g) > 0
    BY <1>2, <1>3, <1>4
  <2> QED
    BY <1>3, <2>1, NotEmpty
<1>6. Heads(g) = hd
  <2>1. 1 \in 1..l
    BY <1>2, <1>4
  <2> QED
    BY <1>2, <1>3, <1>5, <2>1 DEF Heads
<1>7. Opens(g)
  <2>1. hd < Len(g) /\ g[hd + 1].role = "user"
    <3>1. hd + 1 \in 1..l
      BY <1>2, <1>4
    <3> QED
      BY <1>2, <1>3, <1>4, <3>1
  <2>2. hd = 1 => g[1].id = 0
    <3>1. 1 \in 1..l
      BY <1>2, <1>4
    <3> QED
      BY <1>3, <1>4, <3>1
  <2>3. ASSUME NEW i \in DOMAIN g, i > hd PROVE g[i].role # "checkpoint" /\ g[i].covers = {}
    <3>1. CASE i \in 1..l
      BY <1>2, <1>3, <2>3, <3>1 DEF Opens
    <3>2. CASE i \notin 1..l
      <4>1. i - l \in 1..c /\ l + (i - l) = i
        BY <1>2, <1>3, <3>2
      <4> QED
        BY <1>3, <4>1
    <3> QED
      BY <3>1, <3>2
  <2> QED
    BY <1>5, <1>6, <2>1, <2>2, <2>3 DEF Opens
<1>8. said' = said + c /\ said' \in Nat
  BY <1>1, <1>2, <1>3
<1>9. CountFits'
  <2>1. trimmed + (l + c) = (said + c) + hd
    BY <1>2, <1>3
  <2> QED
    BY <1>1, <1>3, <1>6, <1>8, <2>1 DEF CountFits
<1>10. TypeOK'
  <2>1. messages' \in Seq(Message)
    BY <1>1, <1>3 DEF Histories
  <2> QED
    BY <1>1, <1>2, <1>8, <2>1 DEF Standing, TypeOK
<1>11. Asked' /\ RequestFits'
  BY <1>1 DEF Asked, RequestFits, Working
<1> QED
  BY <1>1, <1>7, <1>9, <1>10, <1>11 DEF Standing

LEMMA StandingHolds == Spec => []Standing
<1>1. Init => Standing
  BY InitStands
<1>2. Standing /\ [Next]_vars => Standing'
  <2> SUFFICES ASSUME Standing, [Next]_vars PROVE Standing'
    OBVIOUS
  <2>0. /\ stop \in BOOLEAN /\ step \in 0..MaxSteps /\ turn \in 0..MaxTurns
        /\ pc \in {"idle", "starting", "compact", "model", "calls", "tool"}
        /\ MaxSteps \in Nat /\ MaxTurns \in Nat
        /\ pc = "tool" =>
             \A a \in DOMAIN messages : Asks(messages, a) => Len(messages) - a < messages[a].calls
    BY Stands DEF Standing, TypeOK, Asked
  <2>1. CASE StartTurn
    <3>1. /\ UNCHANGED history /\ pc' = "starting" /\ stop' = stop /\ step' = step
          /\ turn' = turn + 1 /\ turn < MaxTurns
      BY <2>1 DEF StartTurn
    <3>2. turn' \in 0..MaxTurns
      BY <2>0, <3>1
    <3> QED
      BY <2>0, <3>1, <3>2, QuietStands DEF Working
  <2>2. CASE BeginTurn
    BY <2>2, BeginStands
  <2>3. CASE Compact
    BY <2>3, CompactStands
  <2>4. CASE ModelFails
    <3>1. UNCHANGED history /\ pc' = "idle" /\ stop' = stop /\ step' = step /\ turn' = turn
      BY <2>4 DEF ModelFails
    <3> QED
      BY <2>0, <3>1, QuietStands DEF Working
  <2>5. CASE CallTool
    <3>1. /\ UNCHANGED history /\ pc = "calls" /\ pc' = "tool" /\ stop' = stop /\ step' = step
          /\ turn' = turn /\ Answered < messages[Asking].calls
      BY <2>5 DEF CallTool
    <3>2. ASSUME NEW a \in DOMAIN messages, Asks(messages, a) PROVE Len(messages) - a < messages[a].calls
      <4>1. messages \in Histories
        BY Stands
      <4>2. Asking = a /\ Answered = Len(messages) - a
        BY <3>2, <4>1, AskingIs
      <4> QED
        BY <3>1, <4>2
    <3> QED
      BY <2>0, <3>1, <3>2, QuietStands DEF Working
  <2>6. CASE CancelTool
    <3>1. /\ pc = "calls" /\ Answered < messages[Asking].calls /\ pc' = "calls"
          /\ Say(Answer(Asking, Answered + 1, FALSE)) /\ UNCHANGED <<trimmed, request, stop, step, turn>>
      BY <2>6 DEF CancelTool
    <3>2. FALSE \in BOOLEAN
      OBVIOUS
    <3> QED
      BY <3>1, <3>2, AnswerStands
  <2>7. ASSUME NEW long \in BOOLEAN, ToolDone(long) PROVE Standing'
    <3>1. /\ pc = "tool" /\ pc' = "calls"
          /\ Say(Answer(Asking, Answered + 1, long)) /\ UNCHANGED <<trimmed, request, stop, step, turn>>
      BY <2>7 DEF ToolDone
    <3> QED
      BY <3>1, AnswerStands
  <2>8. CASE NextStep
    <3>1. /\ UNCHANGED history /\ pc = "calls" /\ stop' = stop /\ turn' = turn
          /\ \/ pc' = "idle" /\ step' = step
             \/ step # MaxSteps /\ pc' = "compact" /\ step' = step + 1
      BY <2>8 DEF NextStep
    <3>2. step' \in 0..MaxSteps
      BY <2>0, <3>1
    <3> QED
      BY <2>0, <3>1, <3>2, QuietStands DEF Working
  <2>9. ASSUME NEW calls \in 0..MaxCalls, Reply(calls) PROVE Standing'
    BY <2>9, ReplyStands
  <2>10. CASE RequestStop
    <3>1. UNCHANGED history /\ pc' = pc /\ stop' = TRUE /\ step' = step /\ turn' = turn
      BY <2>10 DEF RequestStop
    <3> QED
      BY <2>0, <3>1, QuietStands DEF Working
  <2>11. CASE Interrupt
    BY <2>11, InterruptStands
  <2>12. CASE UNCHANGED vars
    <3>1. UNCHANGED history /\ pc' = pc /\ stop' = stop /\ step' = step /\ turn' = turn
      BY <2>12 DEF vars
    <3> QED
      BY <2>0, <3>1, QuietStands
  <2> QED
    BY <2>1, <2>2, <2>3, <2>4, <2>5, <2>6, <2>7, <2>8, <2>9, <2>10, <2>11, <2>12 DEF Next, Work
<1> QED
  BY <1>1, <1>2, PTL DEF Spec

\* The variables of an agent stay in their types, for any interrupts and any
\* light model.
THEOREM TypeCorrect == Spec => []TypeOK
<1>1. Standing => TypeOK
  BY DEF Standing
<1> QED
  BY <1>1, StandingHolds, PTL

LEMMA IntervalSize ==
  ASSUME NEW d \in Nat, NEW l \in Nat, d <= l
  PROVE  Cardinality((d + 1)..l) = l - d
<1>1. d + 1 \in Int /\ l \in Int
  OBVIOUS
<1>2. Cardinality((d + 1)..l) = IF d + 1 > l THEN 0 ELSE l - (d + 1) + 1
  BY <1>1, FS_Interval
<1>3. (IF d + 1 > l THEN 0 ELSE l - (d + 1) + 1) = l - d
  OBVIOUS
<1> QED
  BY <1>2, <1>3

LEMMA TrimmedIsRight == Standing => TrimmedIsExact
<1> SUFFICES ASSUME Standing PROVE TrimmedIsExact
  OBVIOUS
<1>1. /\ messages \in Histories /\ Opens(messages) /\ said \in Nat /\ trimmed \in Nat
      /\ Len(messages) \in Nat /\ DOMAIN messages = 1..Len(messages) /\ Heads(messages) \in 0..1
      /\ trimmed + Len(messages) = said + Heads(messages)
  BY Stands
<1>2. PICK d \in 0..1 : d = Heads(messages)
  BY <1>1
<1>3. PICK l \in Nat : l = Len(messages)
  BY <1>1
<1>4. {i \in DOMAIN messages : messages[i].role # "checkpoint"} = (d + 1)..l
  <2>1. ASSUME NEW i \in 1..l, i > d PROVE messages[i].role # "checkpoint"
    BY <1>1, <1>2, <1>3, <2>1 DEF Opens
  <2>2. ASSUME NEW i \in 1..l, i <= d PROVE messages[i].role = "checkpoint"
    <3>1. i = 1 /\ d = 1
      BY <2>2
    <3> QED
      BY <1>2, <3>1 DEF Heads
  <2>3. DOMAIN messages = 1..l /\ (d + 1)..l = {i \in 1..l : i > d}
    BY <1>1, <1>3
  <2>4. \A i \in 1..l : i > d \/ i <= d
    OBVIOUS
  <2> QED
    BY <2>1, <2>2, <2>3, <2>4
<1>5. d \in Nat /\ d <= l
  BY <1>1, <1>2, <1>3, HeadsIs
<1>6. Cardinality((d + 1)..l) = l - d
  BY <1>5, IntervalSize
<1>7. trimmed + (l - d) = said
  BY <1>1, <1>2, <1>3
<1> QED
  BY <1>4, <1>6, <1>7 DEF TrimmedIsExact

LEMMA RequestIsKept == Standing => CurrentRequestKept
BY DEF Standing, RequestFits, RequestStands, Working, CurrentRequestKept, Ids

-----------------------------------------------------------------------------
(***************************************************************************)
(* What a provider is sent is always acceptable to it, while Ctrl-C comes  *)
(* where the repair expects it: with "later tool", the run interrupt of    *)
(* MCAgentLoop shows otherwise.                                            *)
(***************************************************************************)
LEMMA AllAnswered ==
  ASSUME NEW h \in Histories, Underway(h), NEW a \in DOMAIN h, Asks(h, a), Len(h) - a = h[a].calls
  PROVE  Complete(h)
<1>1. Len(h) \in Nat /\ DOMAIN h = 1..Len(h) /\ \A i \in DOMAIN h : h[i].calls \in Nat
  BY HistoryIs
<1>2. PICK q \in Nat : q = h[a].calls
  BY <1>1
<1>3. ASSUME NEW i \in DOMAIN h, h[i].role = "assistant" PROVE i + h[i].calls <= Len(h)
  <2>1. CASE i = a
    BY <1>1, <1>2, <2>1
  <2>2. CASE i < a
    <3>1. i + h[i].calls < a
      BY <1>3, <2>2, AnswersFollow DEF Asks
    <3> QED
      BY <1>1, <3>1
  <2>3. CASE i > a
    BY <1>3, <2>3 DEF Asks
  <2> QED
    BY <1>1, <2>1, <2>2, <2>3
<1> QED
  BY <1>3 DEF Complete

LEMMA AppendComplete ==
  ASSUME NEW h \in Histories, Complete(h), NEW m \in Message, m.role = "user" \/ m.calls = 0
  PROVE  Complete(Append(h, m))
<1> DEFINE g == Append(h, m)
<1>1. /\ Len(g) = Len(h) + 1 /\ Len(h) \in Nat
      /\ \A i \in DOMAIN h : g[i] = h[i]
      /\ g[Len(h) + 1] = m
      /\ \A i \in DOMAIN g : i \in DOMAIN h \/ i = Len(h) + 1
  BY AppendIs
<1>2. DOMAIN h = 1..Len(h) /\ \A i \in DOMAIN h : h[i].calls \in Nat
  BY HistoryIs
<1> HIDE DEF g
<1>3. ASSUME NEW i \in DOMAIN g, g[i].role = "assistant" PROVE i + g[i].calls <= Len(g)
  <2>1. CASE i \in DOMAIN h
    <3>1. g[i] = h[i] /\ i + h[i].calls <= Len(h)
      BY <1>1, <1>3, <2>1 DEF Complete
    <3> QED
      BY <1>1, <1>2, <2>1, <3>1
  <2>2. CASE i = Len(h) + 1
    BY <1>1, <1>3, <2>2
  <2> QED
    BY <1>1, <2>1, <2>2
<1>4. Complete(g)
  BY <1>3 DEF Complete
<1> QED
  BY <1>4 DEF g

LEMMA QuietFinishes ==
  ASSUME Finished, messages' = messages,
         pc' \notin {"calls", "tool"} => pc \notin {"calls", "tool"} \/ Complete(messages)
  PROVE  Finished'
BY DEF Finished

LEMMA BeginFinishes == Standing /\ Finished /\ BeginTurn => Finished'
<1> SUFFICES ASSUME Standing, Finished, BeginTurn PROVE Finished'
  OBVIOUS
<1>1. messages' = Append(messages, [Plain EXCEPT !.id = said + 1]) /\ pc = "starting"
  BY DEF BeginTurn, Say
<1>2. messages \in Histories /\ said + 1 \in Nat /\ Underway(messages) /\ Complete(messages)
  BY <1>1, Stands DEF Finished
<1>3. PICK m \in Message : m = [Plain EXCEPT !.id = said + 1] /\ m.role = "user"
  BY <1>2, UserIs
<1>4. messages' = Append(messages, m)
  BY <1>1, <1>3
<1>5. Underway(messages') /\ Complete(messages')
  BY <1>2, <1>3, <1>4, AppendUnderway, AppendComplete
<1> QED
  BY <1>5 DEF Finished

LEMMA ReplyFinishes ==
  ASSUME Standing, Finished, NEW c \in 0..MaxCalls, Reply(c) PROVE Finished'
<1>1. /\ messages' = Append(messages, [[Plain EXCEPT !.role = "assistant", !.calls = c] EXCEPT !.id = said + 1])
      /\ pc = "model" /\ pc' = IF c = 0 THEN "idle" ELSE "calls"
  BY DEF Reply, Say
<1>2. messages \in Histories /\ said + 1 \in Nat /\ Underway(messages) /\ Complete(messages)
  BY <1>1, Stands DEF Finished
<1> DEFINE m == [[Plain EXCEPT !.role = "assistant", !.calls = c] EXCEPT !.id = said + 1]
<1>3. m \in Message /\ m.role = "assistant" /\ m.calls = c
  BY <1>2, AssistantIs
<1>4. messages' = Append(messages, m)
  BY <1>1
<1> HIDE DEF m
<1>5. Underway(messages')
  BY <1>2, <1>3, <1>4, AppendUnderway
<1>6. c = 0 => Complete(messages')
  BY <1>2, <1>3, <1>4, AppendComplete
<1> QED
  BY <1>1, <1>5, <1>6 DEF Finished

LEMMA CompactFinishes == Standing /\ Finished /\ Compact => Finished'
<1> SUFFICES ASSUME Standing, Finished, Compact PROVE Finished'
  OBVIOUS
<1>1. pc = "compact" /\ pc' = "model"
  BY DEF Compact
<1>2. /\ messages \in Histories /\ Opens(messages) /\ RequestStands
      /\ Underway(messages) /\ Complete(messages)
  BY <1>1, Stands DEF Finished, Working
<1>3. PICK u \in DOMAIN messages : Current(messages, u)
  BY <1>2 DEF RequestStands
<1>4. CASE messages' = messages
  BY <1>1, <1>4, QuietFinishes
<1>5. ASSUME NEW h \in Histories, NEW cut \in Users(h), NEW p \in 0..1,
             Alike(messages, h), From(h, cut, messages', p)
      PROVE  Finished'
  <2>1. Underway(h) /\ Complete(h)
    BY <1>2, <1>5, AlikeIs
  <2>2. Underway(messages') /\ Complete(messages')
    BY <1>5, <2>1, FromFinished
  <2> QED
    BY <2>2 DEF Finished
<1> QED
  BY <1>2, <1>3, <1>4, <1>5, CompactIs

LEMMA AnswerFinishes ==
  ASSUME Standing, Finished, NEW long \in BOOLEAN,
         (pc = "calls" /\ Answered < messages[Asking].calls) \/ pc = "tool",
         pc' = "calls", Say(Answer(Asking, Answered + 1, long))
  PROVE  Finished'
<1>1. /\ messages' = Append(messages, [Answer(Asking, Answered + 1, long) EXCEPT !.id = said + 1])
      /\ pc \in {"calls", "tool"}
  BY DEF Say
<1>2. /\ messages \in Histories /\ said + 1 \in Nat /\ MaxCalls \in Nat /\ Underway(messages)
      /\ Len(messages) \in Nat /\ DOMAIN messages = 1..Len(messages)
  BY Stands DEF Finished
<1>3. PICK a \in DOMAIN messages : Asks(messages, a)
  BY <1>1 DEF Standing, Asked
<1>4. Asking = a /\ Answered = Len(messages) - a
  BY <1>2, <1>3, AskingIs
<1>5. Len(messages) - a < messages[a].calls
  BY <1>3, <1>4 DEF Standing, Asked
<1>6. Len(messages) - a + 1 \in 0..MaxCalls
  <2>1. messages[a] \in Message
    BY <1>2, HistoryIs
  <2>2. PICK q \in 0..MaxCalls : q = messages[a].calls
    BY <2>1 DEF Message
  <2> QED
    BY <1>2, <1>5, <2>2
<1> DEFINE m == [Answer(a, Len(messages) - a + 1, long) EXCEPT !.id = said + 1]
<1>7. m \in Message /\ m.role = "tool" /\ m.of = messages[a].id /\ m.n = Len(messages) - a + 1
  BY <1>2, <1>6, AnswerIs
<1>8. messages' = Append(messages, m)
  BY <1>1, <1>4
<1> HIDE DEF m
<1>9. Underway(messages')
  BY <1>2, <1>3, <1>5, <1>7, <1>8, AnswerUnderway
<1> QED
  BY <1>9 DEF Finished

LEMMA NoneLeft == \A l \in Nat : \A a \in 1..l : l - a = 0 => a = l /\ l > 0
OBVIOUS

LEMMA InterruptFinishes ==
  ASSUME Standing, Finished, Interrupt, "later tool" \notin Interrupts
  PROVE  Finished'
<1>1. messages' = Repaired(messages)
  BY DEF Interrupt
<1>2. /\ messages \in Histories /\ said \in Nat /\ Underway(messages)
      /\ Len(messages) \in Nat /\ DOMAIN messages = 1..Len(messages)
  BY Stands DEF Finished
<1>3. CASE pc = "model"
  <2>1. Complete(messages)
    BY <1>3 DEF Finished
  <2> QED
    BY <1>1, <1>2, <2>1, RepairedFinished DEF Finished
<1>4. CASE pc = "tool" /\ Answered = 0
  <2>1. PICK a \in DOMAIN messages : Asks(messages, a)
    BY <1>4 DEF Standing, Asked
  <2>2. Answered = Len(messages) - a
    BY <1>2, <2>1, AskingIs
  <2>3. a = Len(messages) /\ Len(messages) > 0
    <3>1. Len(messages) - a = 0
      BY <1>4, <2>2
    <3> QED
      BY <1>2, <3>1, NoneLeft
  <2>4. messages # <<>> /\ Last(messages).role = "assistant"
    BY <1>2, <2>1, <2>3, NotEmpty DEF Last, Asks
  <2> QED
    BY <1>1, <1>2, <2>4, RepairedFinished DEF Finished
<1> QED
  BY <1>3, <1>4 DEF Interrupt

LEMMA FinishedHolds == "later tool" \notin Interrupts => (Spec => [](Standing /\ Finished))
<1> SUFFICES ASSUME "later tool" \notin Interrupts PROVE Spec => [](Standing /\ Finished)
  OBVIOUS
<1>1. Init => Standing /\ Finished
  BY InitStands
<1>2. Standing /\ Finished /\ [Next]_vars => Finished'
  <2> SUFFICES ASSUME Standing, Finished, [Next]_vars PROVE Finished'
    OBVIOUS
  <2>1. CASE StartTurn
    <3>1. messages' = messages /\ pc = "idle"
      BY <2>1 DEF StartTurn, history
    <3> QED
      BY <3>1, QuietFinishes
  <2>2. CASE BeginTurn
    BY <2>2, BeginFinishes
  <2>3. CASE Compact
    BY <2>3, CompactFinishes
  <2>4. CASE ModelFails
    <3>1. messages' = messages /\ pc = "model"
      BY <2>4 DEF ModelFails, history
    <3> QED
      BY <3>1, QuietFinishes
  <2>5. CASE CallTool
    <3>1. messages' = messages /\ pc' = "tool"
      BY <2>5 DEF CallTool, history
    <3> QED
      BY <3>1, QuietFinishes
  <2>6. CASE CancelTool
    <3>1. /\ pc = "calls" /\ Answered < messages[Asking].calls /\ pc' = "calls"
          /\ Say(Answer(Asking, Answered + 1, FALSE)) /\ FALSE \in BOOLEAN
      BY <2>6 DEF CancelTool
    <3> QED
      BY <3>1, AnswerFinishes
  <2>7. ASSUME NEW long \in BOOLEAN, ToolDone(long) PROVE Finished'
    <3>1. pc = "tool" /\ pc' = "calls" /\ Say(Answer(Asking, Answered + 1, long))
      BY <2>7 DEF ToolDone
    <3> QED
      BY <3>1, AnswerFinishes
  <2>8. CASE NextStep
    <3>1. messages' = messages /\ pc = "calls" /\ Answered = messages[Asking].calls
      BY <2>8 DEF NextStep, history
    <3>2. messages \in Histories /\ Underway(messages)
      BY Stands DEF Finished
    <3>3. PICK a \in DOMAIN messages : Asks(messages, a)
      BY <3>1 DEF Standing, Asked
    <3>4. Len(messages) - a = messages[a].calls
      BY <3>1, <3>2, <3>3, AskingIs
    <3>5. Complete(messages)
      BY <3>2, <3>3, <3>4, AllAnswered
    <3> QED
      BY <3>1, <3>5, QuietFinishes
  <2>9. ASSUME NEW calls \in 0..MaxCalls, Reply(calls) PROVE Finished'
    BY <2>9, ReplyFinishes
  <2>10. CASE RequestStop
    <3>1. messages' = messages /\ pc' = pc
      BY <2>10 DEF RequestStop, history
    <3> QED
      BY <3>1, QuietFinishes
  <2>11. CASE Interrupt
    BY <2>11, InterruptFinishes
  <2>12. CASE UNCHANGED vars
    <3>1. messages' = messages /\ pc' = pc
      BY <2>12 DEF vars, history
    <3> QED
      BY <3>1, QuietFinishes
  <2> QED
    BY <2>1, <2>2, <2>3, <2>4, <2>5, <2>6, <2>7, <2>8, <2>9, <2>10, <2>11, <2>12 DEF Next, Work
<1> QED
  BY <1>1, <1>2, StandingHolds, PTL DEF Spec

\* What a provider is sent, and what a fork starts from, even in the middle
\* of a turn, has an answer for every call and nothing else: _compact,
\* _safe_cut, stop requests and the repair of an interrupt keep it so.
THEOREM ProvidersGetValidHistories ==
  "later tool" \notin Interrupts => (Spec => []HistoriesAreValid)
<1> SUFFICES ASSUME "later tool" \notin Interrupts PROVE Spec => []HistoriesAreValid
  OBVIOUS
<1>1. Standing /\ Finished => HistoriesAreValid
  <2> SUFFICES ASSUME Standing, Finished PROVE HistoriesAreValid
    OBVIOUS
  <2>1. messages \in Histories /\ Underway(messages)
    BY Stands DEF Finished
  <2>2. RequestIsValid
    BY <2>1, FinishedIsWellFormed DEF Finished, RequestIsValid
  <2>3. ForksAreValid
    BY <2>1, ForksAreFinished
  <2> QED
    BY <2>2, <2>3 DEF HistoriesAreValid
<1> QED
  BY <1>1, FinishedHolds, PTL

-----------------------------------------------------------------------------
(***************************************************************************)
(* Nothing vanishes while the light model answers.                         *)
(***************************************************************************)
LEMMA AlikeKnows ==
  ASSUME NEW h \in Histories, NEW g, Alike(h, g)
  PROVE  Known(g) = Known(h)
<1>1. /\ DOMAIN g = DOMAIN h
      /\ \A i \in DOMAIN h : g[i].id = h[i].id /\ g[i].covers = h[i].covers
  BY DEF Alike
<1>2. Ids(g) = Ids(h)
  BY <1>1 DEF Ids
<1>3. UNION {g[i].covers : i \in DOMAIN g} = UNION {h[i].covers : i \in DOMAIN h}
  BY <1>1
<1> QED
  BY <1>2, <1>3 DEF Known

\* What is said more is known, and what was known still is.
LEMMA LongerKnows ==
  ASSUME NEW h \in Histories, NEW g, DOMAIN h \subseteq DOMAIN g, \A i \in DOMAIN h : g[i] = h[i]
  PROVE  Known(h) \subseteq Known(g)
<1> SUFFICES ASSUME NEW i \in DOMAIN h, NEW x \in h[i].covers \cup {h[i].id}
             PROVE  x \in Known(g)
  BY DEF Known, Ids
<1>1. i \in DOMAIN g /\ g[i] = h[i]
  OBVIOUS
<1> QED
  BY <1>1 DEF Known, Ids

LEMMA SayKnows ==
  ASSUME Standing, 1..said \subseteq Known(messages), NEW m \in Message, m.id = said + 1,
         messages' = Append(messages, m), said' = said + 1
  PROVE  1..said' \subseteq Known(messages')
<1>1. messages \in Histories /\ said \in Nat
  BY Stands
<1>2. /\ Len(messages) + 1 \in DOMAIN messages' /\ messages'[Len(messages) + 1] = m
      /\ DOMAIN messages \subseteq DOMAIN messages'
      /\ \A i \in DOMAIN messages : messages'[i] = messages[i]
  BY <1>1, AppendIs
<1>3. Known(messages) \subseteq Known(messages')
  BY <1>1, <1>2, LongerKnows
<1>4. said + 1 \in Known(messages')
  BY <1>2 DEF Known, Ids
<1>5. \A x \in 1..said' : x \in 1..said \/ x = said + 1
  BY <1>1
<1> QED
  BY <1>3, <1>4, <1>5

LEMMA KnownStays ==
  ASSUME Light = "works", Standing, 1..said \subseteq Known(messages), [Next]_vars
  PROVE  1..said' \subseteq Known(messages')
<1>0. /\ messages \in Histories /\ Opens(messages) /\ said \in Nat /\ MaxCalls \in Nat
      /\ Len(messages) \in Nat /\ DOMAIN messages = 1..Len(messages)
  BY Stands
<1>1. CASE messages' = messages /\ said' = said
  BY <1>1
<1>2. CASE BeginTurn
  <2>1. messages' = Append(messages, [Plain EXCEPT !.id = said + 1]) /\ said' = said + 1
    BY <1>2 DEF BeginTurn, Say
  <2>2. said + 1 \in Nat
    BY <1>0
  <2>3. PICK m \in Message : m = [Plain EXCEPT !.id = said + 1] /\ m.id = said + 1
    BY <2>2, UserIs
  <2>4. messages' = Append(messages, m)
    BY <2>1, <2>3
  <2> QED
    BY <2>1, <2>3, <2>4, SayKnows
<1>3. ASSUME NEW c \in 0..MaxCalls, Reply(c) PROVE 1..said' \subseteq Known(messages')
  <2> DEFINE m == [[Plain EXCEPT !.role = "assistant", !.calls = c] EXCEPT !.id = said + 1]
  <2>1. messages' = Append(messages, m) /\ said' = said + 1
    BY <1>3 DEF Reply, Say
  <2>2. said + 1 \in Nat
    BY <1>0
  <2>3. m \in Message /\ m.id = said + 1
    BY <2>2, AssistantIs
  <2> HIDE DEF m
  <2> QED
    BY <2>1, <2>3, SayKnows
<1>4. ASSUME NEW long \in BOOLEAN, Say(Answer(Asking, Answered + 1, long)),
             (pc = "calls" /\ Answered < messages[Asking].calls) \/ pc = "tool"
      PROVE  1..said' \subseteq Known(messages')
  <2>1. PICK a \in DOMAIN messages : Asks(messages, a)
    BY <1>4 DEF Standing, Asked
  <2>2. Asking = a /\ Answered = Len(messages) - a
    BY <1>0, <2>1, AskingIs
  <2>3. Len(messages) - a < messages[a].calls
    BY <1>4, <2>1, <2>2 DEF Standing, Asked
  <2>4. Len(messages) - a + 1 \in 0..MaxCalls
    <3>1. messages[a] \in Message
      BY <1>0, HistoryIs
    <3>2. PICK q \in 0..MaxCalls : q = messages[a].calls
      BY <3>1 DEF Message
    <3> QED
      BY <1>0, <2>3, <3>2
  <2> DEFINE m == [Answer(a, Len(messages) - a + 1, long) EXCEPT !.id = said + 1]
  <2>5. messages' = Append(messages, m) /\ said' = said + 1
    BY <1>4, <2>2 DEF Say
  <2>6. said + 1 \in Nat
    BY <1>0
  <2>7. m \in Message /\ m.id = said + 1
    BY <1>0, <2>4, <2>6, AnswerIs
  <2> HIDE DEF m
  <2> QED
    BY <2>5, <2>7, SayKnows
<1>5. CASE Compact
  <2>1. said' = said /\ pc = "compact"
    BY <1>5 DEF Compact
  <2>2. PICK u \in DOMAIN messages : Current(messages, u)
    BY <2>1, Stands DEF Working, RequestStands
  <2>3. CASE messages' = messages
    BY <2>1, <2>3
  <2>4. ASSUME NEW h \in Histories, Alike(messages, h), Known(h) \subseteq Known(messages') \cup {0}
        PROVE  1..said' \subseteq Known(messages')
    <3>1. Known(h) = Known(messages)
      BY <1>0, <2>4, AlikeKnows
    <3>2. 0 \notin 1..said
      BY <1>0
    <3> QED
      BY <2>1, <2>4, <3>1, <3>2
  <2> QED
    BY <1>0, <1>5, <2>2, <2>3, <2>4, CompactIs
<1>6. CASE Interrupt
  <2> DEFINE g == Repaired(messages)
             c == Missing(messages)
             l == Len(messages)
  <2>1. messages' = g /\ said' = said + (Len(messages') - l)
    BY <1>6 DEF Interrupt
  <2>2. /\ c \in Nat /\ Len(g) = l + c /\ DOMAIN g = 1..(l + c)
        /\ \A i \in 1..l : g[i] = messages[i]
        /\ \A k \in 1..c : g[l + k].id = said + k
    BY <1>0, RepairedIs, Zenon
  <2> HIDE DEF g, c
  <2>3. Known(messages) \subseteq Known(g)
    <3>1. DOMAIN messages \subseteq DOMAIN g
      BY <1>0, <2>2
    <3> QED
      BY <1>0, <2>2, <3>1, LongerKnows
  <2>4. ASSUME NEW k \in 1..c PROVE said + k \in Known(g)
    <3>1. l + k \in DOMAIN g
      BY <1>0, <2>2
    <3> QED
      BY <2>2, <3>1 DEF Known, Ids
  <2>5. said' = said + c
    BY <1>0, <2>1, <2>2
  <2>6. ASSUME NEW x \in 1..(said + c) PROVE x \in 1..said \/ \E k \in 1..c : x = said + k
    <3>1. x \in 1..said \/ (x - said \in 1..c /\ x = said + (x - said))
      BY <1>0, <2>2
    <3> QED
      BY <3>1
  <2> QED
    BY <2>1, <2>3, <2>4, <2>5, <2>6
<1>7. CASE CancelTool
  <2>1. /\ Say(Answer(Asking, Answered + 1, FALSE)) /\ FALSE \in BOOLEAN
        /\ pc = "calls" /\ Answered < messages[Asking].calls
    BY <1>7 DEF CancelTool
  <2> QED
    BY <1>4, <2>1
<1>8. ASSUME NEW long \in BOOLEAN, ToolDone(long) PROVE 1..said' \subseteq Known(messages')
  <2>1. Say(Answer(Asking, Answered + 1, long)) /\ pc = "tool"
    BY <1>8 DEF ToolDone
  <2> QED
    BY <1>4, <2>1
<1>9. StartTurn \/ ModelFails \/ CallTool \/ NextStep \/ RequestStop \/ UNCHANGED vars
        => messages' = messages /\ said' = said
  BY DEF StartTurn, ModelFails, CallTool, NextStep, RequestStop, vars, history
<1> QED
  BY <1>1, <1>2, <1>3, <1>5, <1>6, <1>7, <1>8, <1>9 DEF Next, Work

\* Compaction never takes away the request the agent works on, and the count
\* of the context note is right, whatever is interrupted and whether or not
\* there is a light model that answers.
THEOREM CompactionCounts == Spec => [](TrimmedIsExact /\ CurrentRequestKept)
<1>1. Standing => TrimmedIsExact /\ CurrentRequestKept
  BY TrimmedIsRight, RequestIsKept
<1> QED
  BY <1>1, StandingHolds, PTL

\* With a light model that answers, what compaction drops is in addition
\* covered by the checkpoint, through any number of checkpoints.
THEOREM CompactionLosesNothing == Light = "works" => (Spec => []CompactionIsExact)
<1> SUFFICES ASSUME Light = "works" PROVE Spec => []CompactionIsExact
  OBVIOUS
<1> DEFINE AllKnown == 1..said \subseteq Known(messages)
<1>1. Init => AllKnown
  BY DEF Init
<1>2. Standing /\ AllKnown /\ [Next]_vars => AllKnown'
  BY KnownStays
<1>3. Standing /\ AllKnown => CompactionIsExact
  BY TrimmedIsRight, RequestIsKept DEF CompactionIsExact, NothingVanishes, Known
<1> HIDE DEF AllKnown
<1> QED
  BY <1>1, <1>2, <1>3, StandingHolds, PTL DEF Spec
=============================================================================
