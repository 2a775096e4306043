------------------------------- MODULE MCDesk -------------------------------
(***************************************************************************)
(* Instances of what happens at the desk of a user: the tools of the       *)
(* agents change files (FileEdits), a turn streams to the page             *)
(* (TurnStream), the page's drawer opens and closes sessions               *)
(* (ProjectDrawer), and the REPL does the same in a terminal (Repl).  They *)
(* share no state here, so one of them runs in a behaviour, and the others *)
(* stay where they start.                                                  *)
(***************************************************************************)
EXTENDS FileEdits, TLC

CONSTANTS
  a1, a2,
  Page, Retries, MAX_STEPS, MaxTexts, MaxCalls, StreamTurns,
  Tab, Project, Launchpad, MaxSessions, Free,
  Directory, Home, Model, Launch, ReplTurns

Both == {a1, a2}
Gens == a1 :> 2 @@ a2 :> 0

VARIABLES
  part,  \* which of them runs
  turn, reply, texts, transcript, buffer, queue, page,
  table, shown, projectless, launcher, hidden, locked, tab,
  at, flags, agent, session, stored, talk, locks, foreign, servers, tree

edits   == <<gui, disk, written, known, generations, current, snapshots, turns, before, wrote,
             lock, open, call, undo>>
stream  == <<turn, reply, texts, transcript, buffer, queue, page>>
drawer  == <<table, shown, projectless, launcher, hidden, locked, tab>>
repl    == <<at, flags, agent, session, stored, talk, locks, foreign, servers, tree>>
all     == <<part, edits, stream, drawer, repl>>

Stream == INSTANCE TurnStream WITH MaxTurns <- StreamTurns
Drawer == INSTANCE ProjectDrawer WITH current <- shown
REPL   == INSTANCE Repl WITH Root <- Directory, MaxTurns <- ReplTurns

\* A part that does not run has one initial state.
AllInit ==
  /\ part \in {"edits", "stream", "drawer", "repl"}
  /\ Init /\ Stream!Init /\ Drawer!Init /\ REPL!Init
  /\ part # "edits" => ~gui /\ lock = a1 /\ disk = [f \in File |-> Missing]
  /\ part # "drawer" => projectless
  /\ part # "repl" => foreign = {} /\ \A f \in DOMAIN flags : ~flags[f]

EditsStep   == part = "edits" /\ Next /\ UNCHANGED <<part, stream, drawer, repl>>
StreamStep  == part = "stream" /\ Stream!Next /\ UNCHANGED <<part, edits, drawer, repl>>
DrawerStep  == part = "drawer" /\ Drawer!Next /\ UNCHANGED <<part, edits, stream, repl>>
ReplStep    == part = "repl" /\ REPL!Next /\ UNCHANGED <<part, edits, stream, drawer>>

AllSpec == AllInit /\ [][EditsStep \/ StreamStep \/ DrawerStep \/ ReplStep]_all

-----------------------------------------------------------------------------
(* Every part's state has its type.                                        *)
TypesOK ==
  CASE part = "edits"  -> TypeOK
    [] part = "stream" -> Stream!TypeOK
    [] part = "drawer" -> Drawer!TypeOK
    [] part = "repl"   -> REPL!TypeOK

(* A revert brings back what the turn found and removes only what the turn *)
(* wrote (checkpoints.py).                                                 *)
RevertsAreExact == RevertRestoresTurn /\ RevertRemovesOwnWork

(* What a turn says is said once, kept, and shown by the pages that follow *)
(* it (openai_compat.py, loop.py, gui/server.py).                          *)
SaidOnceAndShown == Stream!TextIsOnce /\ Stream!TranscriptIsComplete /\ Stream!PageFollows

(* The drawer's current session is open, and whoever cannot write has been *)
(* told so (gui/server.py).                                                *)
DrawerIsTrue == Drawer!CurrentIsOpen /\ Drawer!NoSilentConflict

(* The REPL's store has the conversation that is seen (cli/repl.py).       *)
ConversationIsSaved == REPL!ConversationIsSaved

(* The REPL leaves no MCP server behind (cli/repl.py).                     *)
NoServerIsLeft == REPL!NoServerIsLeft
=============================================================================
