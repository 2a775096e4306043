----------------------- MODULE PermissionGate_proofs -----------------------
(***************************************************************************)
(* Proofs about PermissionGate for any number of agents sharing the        *)
(* manager, of clients answering, of actions, grants and prompts.          *)
(***************************************************************************)
EXTENDS MCPermissionGate, TLAPS

(***************************************************************************)
(* HighNeedsConsent speaks of tools at work.  What makes it inductive is   *)
(* the same of a call that the gate has allowed and whose tool has not     *)
(* started, and that `granted` keeps what the grants of the moment were.   *)
(***************************************************************************)
Consented(d) ==
  d.act # None /\ High(d.act) =>
    d.by = "yes" \/ (d.by = "standing" /\ (alwaysAll \/ d.act.op \in granted))

AllowedConsented == \A a \in Agent : call[a].at = "allowed" => Consented(call[a])

\* What TypeOK leaves open: a call names an action, an asked one its prompt,
\* and a client that answers knows its answer.
CallOK ==
  \A a \in Agent :
    /\ call[a].at # "none" => call[a].act \in Action
    /\ call[a].at \in {"waiting", "expired", "answered"} => call[a].prompt \in Prompt

ClientOK == \A c \in Client : client[c].prompt # None => client[c].answer \in Decision \cup {"all"}

TypeInv == TypeOK /\ CallOK /\ ClientOK

GateInv == TypeInv /\ AllowedConsented /\ HighNeedsConsent

(***************************************************************************)
(* Types.                                                                  *)
(***************************************************************************)
\* The empty call and the empty tool call are well typed.
LEMMA EmptyIsTyped == NoCall \in Call /\ Nothing \in ToolCall
  BY DEF NoCall, Nothing, Call, ToolCall, Reason

\* The initial states are well typed.
LEMMA TypeInitial == Init => TypeInv
<1> SUFFICES ASSUME Init PROVE TypeInv
  OBVIOUS
<1> USE DEF Init
<1>1. asked \in 0..MaxAsked
  BY GateAssumption
<1>2. entry \in [Prompt -> Entry]
  BY DEF Entry, Decision
<1>3. client \in [Client -> Answering]
  BY DEF Answering
<1>4. CallOK /\ ClientOK
  BY DEF CallOK, ClientOK, NoCall
<1>5. QED
  BY <1>1, <1>2, <1>3, <1>4, EmptyIsTyped DEF TypeInv, TypeOK

\* No step leaves the types.
LEMMA TypeStep == TypeInv /\ [Next]_vars => TypeOK'
<1> SUFFICES ASSUME TypeInv, [Next]_vars PROVE TypeOK'
  OBVIOUS
<1> USE DEF TypeInv, TypeOK, manager, turns, prompts
<1>1. ASSUME NEW a \in Agent, BeginTurn(a) \/ EndTurn(a) \/ Record(a) PROVE TypeOK'
  BY <1>1 DEF BeginTurn, EndTurn, Record
<1>2. ASSUME NEW a \in Agent, NEW act \in Action, Pass(a, act) PROVE TypeOK'
  <2>1. call' \in [Agent -> Call]
    BY <1>2 DEF Pass, Call, Reason
  <2>2. QED
    BY <1>2, <2>1 DEF Pass
<1>3. ASSUME NEW a \in Agent, NEW act \in Action, Ask(a, act) PROVE TypeOK'
  <2>1. asked + 1 \in Prompt /\ asked' \in 0..MaxAsked
    BY <1>3, GateAssumption DEF Ask, Prompt
  <2>2. call' \in [Agent -> Call]
    BY <1>3, <2>1 DEF Ask, Call, Reason
  <2>3. QED
    BY <1>3, <2>1, <2>2 DEF Ask
<1>4. ASSUME NEW a \in Agent, Answered(a) \/ TimesOut(a) PROVE TypeOK'
  <2>1. call' \in [Agent -> Call]
    BY <1>4 DEF Answered, TimesOut, Call
  <2>2. QED
    BY <1>4, <2>1 DEF Answered, TimesOut
<1>5. ASSUME NEW a \in Agent, Pop(a) PROVE TypeOK'
  <2> DEFINE n == call[a].prompt
             decision == entry[n].decision
             act == call[a].act
  <2>1. call' \in [Agent -> Call]
    <3>1. CASE Accepts(act, decision)
      <4>1. decision \in Reason
        BY <3>1 DEF Accepts, Reason
      <4>2. [[call[a] EXCEPT !.at = "allowed"] EXCEPT !.by = decision] \in Call
        BY <4>1 DEF Call
      <4>3. QED
        BY <1>5, <3>1, <4>2 DEF Pop
    <3>2. CASE ~Accepts(act, decision)
      BY <1>5, <3>2, EmptyIsTyped DEF Pop
    <3>3. QED
      BY <3>1, <3>2
  <2>2. alwaysCommands' \in SUBSET Heads
    BY <1>5 DEF Pop, Heads, CallOK
  <2>3. alwaysWrite' \in BOOLEAN
    BY <1>5 DEF Pop
  <2>4. pending' \in SUBSET Prompt
    BY <1>5 DEF Pop, CallOK
  <2>5. QED
    BY <1>5, <2>1, <2>2, <2>3, <2>4 DEF Pop
<1>6. ASSUME NEW a \in Agent, Start(a) \/ Return(a) PROVE TypeOK'
  <2>1. call' \in [Agent -> Call]
    BY <1>6, EmptyIsTyped DEF Start, Return
  <2>2. doing' \in [Agent -> ToolCall]
    <3>1. [act |-> call[a].act, by |-> call[a].by] \in ToolCall
      <4>1. call[a] \in Call
        OBVIOUS
      <4>2. QED
        BY <4>1 DEF Call, ToolCall
    <3>2. QED
      BY <1>6, <3>1, EmptyIsTyped DEF Start, Return
  <2>3. QED
    BY <1>6, <2>1, <2>2 DEF Start, Return
<1>7. ASSUME NEW c \in Client, NEW n \in Prompt, NEW answer \in Decision \cup {"all"},
             LookUp(c, n, answer)
      PROVE TypeOK'
  BY <1>7 DEF LookUp, Answering
<1>8. ASSUME NEW c \in Client, Decide(c) PROVE TypeOK'
  <2>1. entry' \in [Prompt -> Entry]
    BY <1>8 DEF Decide, Entry, Answering, ClientOK, Decision
  <2>2. client' \in [Client -> Answering]
    BY <1>8 DEF Decide, Answering
  <2>3. QED
    BY <1>8, <2>1, <2>2 DEF Decide
<1>9. ASSUME NEW m \in Modes, SetMode(m) PROVE TypeOK'
  BY <1>9 DEF SetMode
<1>10. ASSUME NEW gs \in GrantSets, SetGrants(gs) PROVE TypeOK'
  BY <1>10 DEF SetGrants
<1>11. CASE UNCHANGED vars
  BY <1>11 DEF vars
<1>12. QED
  BY <1>1, <1>2, <1>3, <1>4, <1>5, <1>6, <1>7, <1>8, <1>9, <1>10, <1>11 DEF Next, Gate

\* A call keeps its action and its prompt, a client its answer.
LEMMA CallStep == TypeInv /\ [Next]_vars => CallOK' /\ ClientOK'
<1> SUFFICES ASSUME TypeInv, [Next]_vars PROVE CallOK' /\ ClientOK'
  OBVIOUS
<1> USE DEF TypeInv, TypeOK, CallOK, ClientOK, manager, turns, prompts
<1>1. ASSUME NEW a \in Agent, BeginTurn(a) \/ EndTurn(a) \/ Record(a)
      PROVE CallOK' /\ ClientOK'
  BY <1>1 DEF BeginTurn, EndTurn, Record
<1>2. ASSUME NEW a \in Agent, NEW act \in Action, Pass(a, act) PROVE CallOK' /\ ClientOK'
  BY <1>2 DEF Pass
<1>3. ASSUME NEW a \in Agent, NEW act \in Action, Ask(a, act) PROVE CallOK' /\ ClientOK'
  <2>1. asked + 1 \in Prompt
    BY <1>3, GateAssumption DEF Ask, Prompt
  <2>2. QED
    BY <1>3, <2>1 DEF Ask
<1>4. ASSUME NEW a \in Agent, Answered(a) \/ TimesOut(a) PROVE CallOK' /\ ClientOK'
  BY <1>4 DEF Answered, TimesOut, Call
<1>5. ASSUME NEW a \in Agent, Pop(a) PROVE CallOK' /\ ClientOK'
  BY <1>5 DEF Pop, NoCall, Call
<1>6. ASSUME NEW a \in Agent, Start(a) \/ Return(a) PROVE CallOK' /\ ClientOK'
  BY <1>6 DEF Start, Return, NoCall
<1>7. ASSUME NEW c \in Client, NEW n \in Prompt, NEW answer \in Decision \cup {"all"},
             LookUp(c, n, answer)
      PROVE CallOK' /\ ClientOK'
  BY <1>7 DEF LookUp
<1>8. ASSUME NEW c \in Client, Decide(c) PROVE CallOK' /\ ClientOK'
  BY <1>8 DEF Decide
<1>9. ASSUME NEW m \in Modes, SetMode(m) PROVE CallOK' /\ ClientOK'
  BY <1>9 DEF SetMode
<1>10. ASSUME NEW gs \in GrantSets, SetGrants(gs) PROVE CallOK' /\ ClientOK'
  BY <1>10 DEF SetGrants
<1>11. CASE UNCHANGED vars
  BY <1>11 DEF vars
<1>12. QED
  BY <1>1, <1>2, <1>3, <1>4, <1>5, <1>6, <1>7, <1>8, <1>9, <1>10, <1>11 DEF Next, Gate

\* The typing invariant is inductive.
LEMMA TypeInvStep == TypeInv /\ [Next]_vars => TypeInv'
  BY TypeStep, CallStep DEF TypeInv

\* Every reachable state is well typed, however agents, clients and settings
\* interleave.
THEOREM TypeCorrect == Spec => []TypeOK
<1>1. TypeInv => TypeOK
  BY DEF TypeInv
<1>2. QED
  BY <1>1, TypeInitial, TypeInvStep, PTL DEF Spec

(***************************************************************************)
(* Standing approvals.                                                     *)
(***************************************************************************)
\* While a running turn has read steering content, no call of a high-risk
\* command turns from "none" to "allowed" in a step: neither a grant, nor an
\* earlier "always", nor "yes to all" lets it pass.
THEOREM TaintedAsks == Spec => TaintedOutwardAsks
<1> DEFINE Asks == \A a \in Agent :
                     (call[a] = NoCall /\ call'[a].at = "allowed" /\ High(call'[a].act))
                       => ~Tainted
<1>1. TypeInv /\ [Next]_vars => [Asks]_vars
  <2> SUFFICES ASSUME TypeInv, Next, NEW a \in Agent,
                      call[a] = NoCall, call'[a].at = "allowed", High(call'[a].act)
               PROVE ~Tainted
    OBVIOUS
  <2> USE DEF TypeInv, TypeOK, NoCall
  <2>1. PICK act \in Action : Pass(a, act)
    <3>1. ASSUME NEW b \in Agent, BeginTurn(b) \/ EndTurn(b) \/ Record(b) PROVE FALSE
      BY <3>1 DEF BeginTurn, EndTurn, Record
    <3>2. ASSUME NEW b \in Agent, NEW act \in Action, Ask(b, act) PROVE FALSE
      BY <3>2 DEF Ask
    <3>3. ASSUME NEW b \in Agent, Gate(b) PROVE FALSE
      BY <3>3 DEF Gate, Answered, TimesOut, Pop, Start, Return
    <3>4. ASSUME NEW c \in Client, NEW n \in Prompt, NEW answer \in Decision \cup {"all"},
                 LookUp(c, n, answer)
          PROVE FALSE
      BY <3>4 DEF LookUp
    <3>5. ASSUME NEW c \in Client, Decide(c) PROVE FALSE
      BY <3>5 DEF Decide
    <3>6. ASSUME NEW m \in Modes, SetMode(m) PROVE FALSE
      BY <3>6 DEF SetMode
    <3>7. ASSUME NEW gs \in GrantSets, SetGrants(gs) PROVE FALSE
      BY <3>7 DEF SetGrants
    <3>8. ASSUME NEW b \in Agent, NEW act \in Action, Pass(b, act) PROVE Pass(a, act)
      <4>1. b = a
        BY <3>8 DEF Pass
      <4>2. QED
        BY <3>8, <4>1
    <3>9. QED
      BY <3>1, <3>2, <3>3, <3>4, <3>5, <3>6, <3>7, <3>8 DEF Next
  <2>2. High(act)
    BY <2>1 DEF Pass
  <2>3. ~ByMode(act)
    BY <2>2 DEF High, ByMode
  <2>4. ByStanding(act)
    BY <2>1, <2>3 DEF Pass
  <2>5. QED
    BY <2>2, <2>4 DEF High, ByStanding
<1>2. QED
  BY <1>1, TypeInitial, TypeInvStep, PTL DEF Spec, TaintedOutwardAsks

(***************************************************************************)
(* Consent.                                                                *)
(***************************************************************************)
\* No tool is at work at first.
LEMMA GateInitial == Init => GateInv
<1> SUFFICES ASSUME Init PROVE GateInv
  OBVIOUS
<1>1. AllowedConsented
  BY DEF Init, AllowedConsented, NoCall
<1>2. HighNeedsConsent
  BY DEF Init, HighNeedsConsent, Nothing
<1>3. QED
  BY <1>1, <1>2, TypeInitial DEF GateInv

\* The gate lets no high-risk command pass but on a standing approval.
LEMMA PassConsents ==
  ASSUME NEW act \in Action, High(act), ByMode(act) \/ ByStanding(act)
  PROVE  ~ByMode(act) /\ (alwaysAll \/ act.op \in grants)
  BY DEF High, ByMode, ByStanding

\* Consent is inductive: a call is allowed with it, a tool started with it,
\* and nothing that consent rests on is ever taken back.
LEMMA GateStep == GateInv /\ [Next]_vars => GateInv'
<1> SUFFICES ASSUME GateInv, [Next]_vars PROVE AllowedConsented' /\ HighNeedsConsent'
  BY TypeInvStep DEF GateInv
<1> USE DEF GateInv, TypeInv, TypeOK, AllowedConsented, HighNeedsConsent, Consented, manager
<1>1. ASSUME NEW a \in Agent, BeginTurn(a) \/ EndTurn(a) \/ Record(a)
      PROVE AllowedConsented' /\ HighNeedsConsent'
  BY <1>1 DEF BeginTurn, EndTurn, Record
<1>2. ASSUME NEW a \in Agent, NEW act \in Action, Pass(a, act)
      PROVE AllowedConsented' /\ HighNeedsConsent'
  <2>1. Consented(call'[a])
    <3> SUFFICES ASSUME High(act)
                 PROVE call'[a].by = "standing" /\ (alwaysAll \/ act.op \in granted)
      BY <1>2 DEF Pass
    <3>1. ByMode(act) \/ ByStanding(act)
      BY <1>2 DEF Pass
    <3>2. ~ByMode(act) /\ (alwaysAll \/ act.op \in grants)
      BY <3>1, PassConsents
    <3>3. QED
      BY <1>2, <3>2 DEF Pass
  <2>2. QED
    BY <1>2, <2>1 DEF Pass
<1>3. ASSUME NEW a \in Agent, NEW act \in Action, Ask(a, act)
      PROVE AllowedConsented' /\ HighNeedsConsent'
  BY <1>3 DEF Ask
<1>4. ASSUME NEW a \in Agent, Answered(a) \/ TimesOut(a)
      PROVE AllowedConsented' /\ HighNeedsConsent'
  BY <1>4 DEF Answered, TimesOut, Call
<1>5. ASSUME NEW a \in Agent, Pop(a) PROVE AllowedConsented' /\ HighNeedsConsent'
  <2> DEFINE decision == entry[call[a].prompt].decision
             act == call[a].act
  <2>1. CASE ~Accepts(act, decision)
    BY <1>5, <2>1 DEF Pop, NoCall
  <2>2. CASE Accepts(act, decision)
    <3>1. call' = [call EXCEPT ![a] = [[call[a] EXCEPT !.at = "allowed"] EXCEPT !.by = decision]]
      BY <1>5, <2>2 DEF Pop
    <3>2. call'[a].act = act /\ call'[a].by = decision
      BY <3>1 DEF Call
    <3>3. High(act) => decision = "yes"
      BY <2>2 DEF Accepts, High
    <3>4. QED
      BY <1>5, <3>1, <3>2, <3>3 DEF Pop
  <2>3. QED
    BY <2>1, <2>2
<1>6. ASSUME NEW a \in Agent, Start(a) PROVE AllowedConsented' /\ HighNeedsConsent'
  BY <1>6 DEF Start, NoCall
<1>7. ASSUME NEW a \in Agent, Return(a) PROVE AllowedConsented' /\ HighNeedsConsent'
  BY <1>7 DEF Return, Nothing
<1>8. ASSUME NEW c \in Client, NEW n \in Prompt, NEW answer \in Decision \cup {"all"},
             LookUp(c, n, answer)
      PROVE AllowedConsented' /\ HighNeedsConsent'
  BY <1>8 DEF LookUp
<1>9. ASSUME NEW c \in Client, Decide(c) PROVE AllowedConsented' /\ HighNeedsConsent'
  BY <1>9 DEF Decide
<1>10. ASSUME NEW m \in Modes, SetMode(m) PROVE AllowedConsented' /\ HighNeedsConsent'
  BY <1>10 DEF SetMode
<1>11. ASSUME NEW gs \in GrantSets, SetGrants(gs)
       PROVE AllowedConsented' /\ HighNeedsConsent'
  BY <1>11 DEF SetGrants
<1>12. CASE UNCHANGED vars
  BY <1>12 DEF vars
<1>13. QED
  BY <1>1, <1>2, <1>3, <1>4, <1>5, <1>6, <1>7, <1>8, <1>9, <1>10, <1>11, <1>12
  DEF Next, Gate

\* No tool carries out a high-risk command that the human has neither said
\* "yes" to in its own prompt, nor granted, nor covered by "yes to all",
\* whichever prompts time out, are answered twice or are still open.
THEOREM HighIsConsented == Spec => []HighNeedsConsent
<1>1. GateInv => HighNeedsConsent
  BY DEF GateInv
<1>2. QED
  BY <1>1, GateInitial, GateStep, PTL DEF Spec

(***************************************************************************)
(* Pushes.  What the gate knows of a line is its risk and its operation.   *)
(* If these are right of every line an agent may try, then whatever the    *)
(* shell makes of the line, no push gets past the gate unasked.  (Which    *)
(* lines CommandRisk is right of is a question of data; it is right of     *)
(* Kinds, the lines of MCPermissionGate.)                                  *)
(***************************************************************************)
ClassifiedRight ==
  \A act \in Action :
    /\ "push" \in act.runs => High(act)
    /\ act.op \in {"push", "commit"} => act.runs = {act.op}

\* No tool carries out a line that pushes but on a "yes" to its own prompt,
\* on "yes to all", or on a grant to push while it does nothing else.
THEOREM PushIsConsented == ClassifiedRight => (Spec => []PushNeedsConsent)
<1> SUFFICES ASSUME ClassifiedRight PROVE Spec => []PushNeedsConsent
  OBVIOUS
<1> DEFINE GrantedInv == GateInv /\ granted \subseteq {"push", "commit"}
<1>1. Init => GrantedInv
  BY GateInitial, GateAssumption DEF Init
<1>2. GrantedInv /\ [Next]_vars => GrantedInv'
  <2> SUFFICES ASSUME GrantedInv, [Next]_vars PROVE (granted \subseteq {"push", "commit"})'
    BY GateStep
  <2>1. granted' = granted \/ \E gs \in GrantSets : granted' = granted \cup gs
    BY DEF Next, Gate, manager, BeginTurn, EndTurn, Record, Pass, Ask, Answered, TimesOut, Pop, Start, Return, LookUp,
           Decide, SetMode, SetGrants, vars
  <2>2. QED
    BY <2>1, GateAssumption
<1>3. GrantedInv => PushNeedsConsent
  <2> SUFFICES ASSUME GrantedInv, NEW a \in Agent, doing[a].act # None, "push" \in doing[a].act.runs
               PROVE  \/ doing[a].by = "yes"
                      \/ doing[a].by = "standing" /\ (alwaysAll \/ (doing[a].act.runs = {"push"} /\ "push" \in granted))
    BY DEF PushNeedsConsent
  <2>1. doing[a].act \in Action
    BY DEF GateInv, TypeInv, TypeOK, ToolCall
  <2>2. High(doing[a].act)
    BY <2>1 DEF ClassifiedRight
  <2>3. doing[a].by = "yes" \/ (doing[a].by = "standing" /\ (alwaysAll \/ doing[a].act.op \in granted))
    BY <2>2 DEF GateInv, HighNeedsConsent
  <2>4. doing[a].act.op \in granted => doing[a].act.runs = {"push"} /\ "push" \in granted
    BY <2>1 DEF ClassifiedRight
  <2>5. QED
    BY <2>3, <2>4
<1>4. QED
  BY <1>1, <1>2, <1>3, PTL DEF Spec
=============================================================================
