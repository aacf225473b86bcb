--------------------------------- MODULE Prompt ---------------------------------
(***************************************************************************)
(* The keyboard of the REPL (internal/tui): the input box with its slash   *)
(* menu, file picker, history and search, and the dialogs of the engine's  *)
(* permission and plan requests.                                           *)
(*                                                                         *)
(* A key goes to the first that wants it: a dialog, the search box, the    *)
(* busy prompt, an open menu, the line.  A request waits for a listener,   *)
(* one of each kind, which whatever answers a dialog arms again.  What a   *)
(* text offers to complete is constant; what a turn does is AgentLoop's,   *)
(* and what a command does is Terminal's.                                  *)
(***************************************************************************)
EXTENDS Naturals, Sequences, SequencesExt, FiniteSets

CONSTANTS
  Inputs,      \* texts the input box may hold
  Empty,       \* the empty one
  Continued,   \* those with a trailing backslash
  CommandsFor, \* the commands the menu offers for each
  FilesFor,    \* the files the picker offers for each
  Mentions,    \* those with an @token at the cursor
  Completed,   \* what a command or a file completes the box to
  Slashed,     \* the texts that are commands
  Named,       \* the text that is a command's name
  NoAsk,       \* no request
  MaxAsks,     \* bound: requests
  MaxEntries,  \* bound: entries of the transcript
  MaxHistory   \* bound: lines remembered

ASSUME PromptAssumption ==
  /\ Empty \in Inputs /\ Continued \subseteq Inputs /\ Mentions \subseteq Inputs
  /\ CommandsFor[Empty] = <<>> /\ Empty \notin Mentions \cup Continued
  /\ CommandsFor \in [Inputs -> Seq(DOMAIN Named)] /\ FilesFor \in [Inputs -> Seq(DOMAIN Completed)]
  /\ Named \in [DOMAIN Named -> Inputs] /\ Completed \in [DOMAIN Completed -> Inputs]
  /\ DOMAIN Named \subseteq DOMAIN Completed
  /\ {MaxAsks, MaxEntries, MaxHistory} \subseteq Nat
  /\ NoAsk \notin Nat /\ NoAsk \notin [n : Nat, choice : Nat]

VARIABLES
  input, draft,    \* the box, and whether lines before it are continued
  menu, menuIdx, menuHideFor,
  atItems, atIdx, atHideFor,
  fileList,        \* of the picker: not asked for, loading, loaded
  lines, pos,      \* history and the position in it
  searching, hits, cur,
  entries,         \* entries of the transcript
  running,         \* busy, and whether the user has cancelled
  dialog,          \* the requests on screen, with the option selected
  planFeedback,
  listening,       \* the listeners that are armed
  heard,           \* the message of one that has heard a request
  ask,             \* the request a tool waits for, and where it is
  asked,           \* requests made
  allowed,         \* sessionAllowed, of a permission's one tool
  quitting

box   == <<input, draft>>
menus == <<menu, menuIdx, menuHideFor, atItems, atIdx, atHideFor, fileList>>
find  == <<lines, pos, searching, hits, cur>>
talk  == <<dialog, planFeedback, listening, heard, ask, asked, allowed>>
promptVars == <<box, menus, find, entries, running, talk, quitting>>

Kinds == {"permission", "plan"}
Options == 3

PromptInit ==
  /\ input = Empty /\ draft = FALSE
  /\ menu = <<>> /\ menuIdx = 1 /\ menuHideFor = Empty
  /\ atItems = <<>> /\ atIdx = 1 /\ atHideFor = Empty /\ fileList = "none"
  /\ lines = <<>> /\ pos = 1 /\ searching = FALSE /\ hits = <<>> /\ cur = 1
  /\ entries = 0 /\ running = "idle"
  /\ dialog = [k \in Kinds |-> NoAsk] /\ planFeedback = FALSE
  /\ listening = Kinds /\ heard = [k \in Kinds |-> NoAsk]
  /\ ask = NoAsk /\ asked = 0 /\ allowed = FALSE /\ quitting = FALSE

NoDialog == \A k \in Kinds : dialog[k] = NoAsk
AtPrompt == ~quitting /\ NoDialog /\ ~searching
AtRest == AtPrompt /\ running = "idle"
InTurn == AtPrompt /\ running # "idle"
Entry == entries' = IF entries < MaxEntries THEN entries + 1 ELSE entries

\* Up or down in a list, with wrap-around.
Moved(i, list) == {(i % Len(list)) + 1, ((i + Len(list) - 2) % Len(list)) + 1}

-----------------------------------------------------------------------------
(* The line.                                                               *)

\* updateMenu for the text v.
UpdateMenu(v) ==
  /\ menu' = IF v = menuHideFor THEN <<>> ELSE CommandsFor[v]
  /\ menuHideFor' = IF v = menuHideFor THEN menuHideFor ELSE Empty
  /\ menuIdx' = IF menuIdx > Len(menu') THEN 1 ELSE menuIdx

\* A selection kept as it was when the list has changed.
KeptIndex(i, list) == i

\* A selection past the end of the new list goes to its first item.
InRange(i, list) == IF i > Len(list) THEN 1 ELSE i

\* updateAt for the text v, with the list of files as loaded is.
UpdateAt(v, loaded) ==
  IF v \notin Mentions \/ v = atHideFor
  THEN atItems' = <<>> /\ fileList' = loaded /\ UNCHANGED <<atIdx, atHideFor>>
  ELSE /\ atHideFor' = Empty
       /\ IF loaded = "loaded"
          THEN /\ atItems' = FilesFor[v] /\ atIdx' = InRange(atIdx, atItems') /\ fileList' = loaded
          ELSE fileList' = "loading" /\ UNCHANGED <<atItems, atIdx>>

\* A key that edits the line.
Type(v) ==
  /\ AtRest /\ v # input /\ input' = v /\ UpdateMenu(v) /\ UpdateAt(v, fileList)
  /\ UNCHANGED <<draft, find, entries, running, talk, quitting>>

\* filesLoadedMsg, whenever it comes.
FilesLoaded ==
  /\ ~quitting /\ fileList = "loading" /\ UpdateAt(input, "loaded")
  /\ UNCHANGED <<box, menu, menuIdx, menuHideFor, find, entries, running, talk, quitting>>

\* Up and down, when no menu is open.
Recall ==
  /\ AtRest /\ menu = <<>> /\ atItems = <<>> /\ lines # <<>>
  /\ \/ pos' = (IF pos > 1 THEN pos - 1 ELSE pos) /\ input' = lines[pos']
     \/ /\ pos <= Len(lines) /\ pos' = pos + 1
        /\ input' = IF pos' > Len(lines) THEN Empty ELSE lines[pos']
  /\ UNCHANGED <<draft, menus, lines, searching, hits, cur, entries, running, talk, quitting>>

\* submit of the line v: a turn, a command, or another line of the draft.
SubmitLine(v) ==
  /\ input' = Empty
  /\ IF v \in Continued
     THEN /\ draft' = TRUE
          /\ UNCHANGED <<menu, menuIdx, atItems, atIdx, lines, pos, entries, running, quitting>>
     ELSE /\ draft' = FALSE /\ menu' = <<>> /\ menuIdx' = 1 /\ atItems' = <<>> /\ atIdx' = 1
          /\ IF v = Empty /\ ~draft
             THEN UNCHANGED <<lines, pos, entries, running, quitting>>
             ELSE /\ lines' = IF lines # <<>> /\ Last(lines) = v THEN lines ELSE Append(lines, v)
                  /\ Len(lines') <= MaxHistory
                  /\ pos' = Len(lines') + 1
                  /\ \/ Entry /\ running' = "running" /\ UNCHANGED quitting
                     \/ /\ v \in Slashed
                        /\ \/ (Entry \/ entries' = 0) /\ UNCHANGED <<running, quitting>>
                           \/ quitting' = TRUE /\ UNCHANGED <<entries, running>>
  /\ UNCHANGED <<menuHideFor, atHideFor, fileList, searching, hits, cur, talk>>

\* enter, when no menu is open.
Enter == AtRest /\ menu = <<>> /\ atItems = <<>> /\ SubmitLine(input)

-----------------------------------------------------------------------------
(* The menus.                                                              *)

InMenu == AtRest /\ menu # <<>>
InPicker == AtRest /\ menu = <<>> /\ atItems # <<>>

MenuMove ==
  /\ InMenu /\ menuIdx' \in Moved(menuIdx, menu)
  /\ UNCHANGED <<box, menu, menuHideFor, atItems, atIdx, atHideFor, fileList, find, entries,
                 running, talk, quitting>>

\* completeMenu.
MenuTab ==
  /\ InMenu /\ input' = Completed[menu[menuIdx]] /\ menu' = <<>>
  /\ UNCHANGED <<draft, menuIdx, menuHideFor, atItems, atIdx, atHideFor, fileList, find, entries,
                 running, talk, quitting>>

\* acceptMenu.
MenuEnter == InMenu /\ SubmitLine(Named[menu[menuIdx]])

MenuEsc ==
  /\ InMenu /\ menuHideFor' = input /\ menu' = <<>>
  /\ UNCHANGED <<box, menuIdx, atItems, atIdx, atHideFor, fileList, find, entries, running,
                 talk, quitting>>

AtMove ==
  /\ InPicker /\ atIdx' \in Moved(atIdx, atItems)
  /\ UNCHANGED <<box, menu, menuIdx, menuHideFor, atItems, atHideFor, fileList, find, entries,
                 running, talk, quitting>>

\* acceptAt: nothing when the cursor is in no @token.
AtAccept ==
  /\ InPicker /\ input \in Mentions
  /\ input' = Completed[atItems[atIdx]] /\ atItems' = <<>> /\ atIdx' = 1
  /\ UNCHANGED <<draft, menu, menuIdx, menuHideFor, atHideFor, fileList, find, entries,
                 running, talk, quitting>>

AtEsc ==
  /\ InPicker /\ atHideFor' = input /\ atItems' = <<>>
  /\ UNCHANGED <<box, menu, menuIdx, menuHideFor, atIdx, fileList, find, entries, running,
                 talk, quitting>>

-----------------------------------------------------------------------------
(* Search.                                                                 *)

\* enterSearch; the menus stay as they are.
CtrlF ==
  /\ AtRest /\ searching' = TRUE /\ hits' = <<>> /\ cur' = 1 /\ input' = Empty
  /\ UNCHANGED <<draft, menus, lines, pos, entries, running, talk, quitting>>

InSearch == ~quitting /\ searching /\ NoDialog

\* n entries of the transcript, in order.
Matches(n) == {h \in [1..n -> 1..entries] : \A i, j \in 1..n : i < j => h[i] < h[j]}

\* run for the text v.
Search(v) ==
  /\ InSearch /\ v # input /\ input' = v /\ cur' = 1
  /\ \E n \in 0..entries : \E found \in Matches(n) :
       hits' = IF v = Empty THEN <<>> ELSE found
  /\ UNCHANGED <<draft, menus, lines, pos, searching, entries, running, talk, quitting>>

SearchMove ==
  /\ InSearch /\ hits # <<>> /\ cur' \in Moved(cur, hits)
  /\ UNCHANGED <<box, menus, lines, pos, searching, hits, entries, running, talk, quitting>>

\* exitSearch.
SearchEsc ==
  /\ InSearch /\ searching' = FALSE /\ hits' = <<>> /\ cur' = 1 /\ input' = Empty
  /\ UNCHANGED <<draft, menus, lines, pos, entries, running, talk, quitting>>

-----------------------------------------------------------------------------
(* A turn.                                                                 *)

\* A steer edited, or enqueued with enter; the menus are not looked at.
Steer(v) ==
  /\ InTurn /\ v # input /\ input' = v /\ (IF v = Empty THEN Entry ELSE UNCHANGED entries)
  /\ UNCHANGED <<draft, menus, find, running, talk, quitting>>

\* ctrl+c, or esc at the prompt, of a busy terminal: the request waiting returns, its
\* dialog stays.
Cancel ==
  /\ ~quitting /\ running = "running" /\ running' = "cancelled" /\ Entry
  /\ ask' = NoAsk
  /\ UNCHANGED <<box, menus, find, dialog, planFeedback, listening, heard, asked, allowed, quitting>>

\* ctrl+c when idle.
Quit ==
  /\ ~quitting /\ running = "idle" /\ quitting' = TRUE
  /\ UNCHANGED <<box, menus, find, entries, running, talk>>

\* The run is over: DoneEvent, ErrorEvent or turnDoneMsg.
TurnOver ==
  /\ ~quitting /\ running # "idle" /\ running' = "idle"
  /\ ask = NoAsk
  /\ UNCHANGED <<box, menus, find, entries, talk, quitting>>

-----------------------------------------------------------------------------
(* Requests.                                                               *)

\* Ask or ApprovePlan; the tools of a turn ask one at a time.
Ask(k) ==
  /\ ~quitting /\ running = "running" /\ ask = NoAsk /\ asked < MaxAsks
  /\ asked' = asked + 1 /\ ask' = [n |-> asked', kind |-> k, state |-> "asked"]
  /\ UNCHANGED <<box, menus, find, entries, running, dialog, planFeedback, listening, heard,
                 allowed, quitting>>

\* waitForPermission or waitForPlan returns.
Hear(k) ==
  /\ ask # NoAsk /\ ask.kind = k /\ ask.state = "asked" /\ k \in listening
  /\ ask' = [ask EXCEPT !.state = "heard"]
  /\ listening' = listening \ {k} /\ heard' = [heard EXCEPT ![k] = ask.n]
  /\ UNCHANGED <<box, menus, find, entries, running, dialog, planFeedback, asked, allowed, quitting>>

\* Listening again only while a tool waits.
RearmedIfAwaited(k) == IF ask = NoAsk THEN listening ELSE listening \cup {k}

\* The listeners after a request has been answered.
Rearmed(k) == listening \cup {k}

\* Request n returns to the tool, if that still waits for it.
Reply(n) == ask' = IF ask # NoAsk /\ ask.n = n THEN NoAsk ELSE ask

\* permRequestMsg or planRequestMsg.
OnRequest(k) ==
  /\ ~quitting /\ heard[k] # NoAsk /\ heard' = [heard EXCEPT ![k] = NoAsk]
  /\ IF k = "permission" /\ allowed
     THEN listening' = Rearmed(k) /\ Reply(heard[k]) /\ UNCHANGED dialog
     ELSE /\ dialog' = [dialog EXCEPT ![k] = [n |-> heard[k], choice |-> 1]]
          /\ ask' = IF ask # NoAsk /\ ask.n = heard[k] THEN [ask EXCEPT !.state = "shown"] ELSE ask
          /\ UNCHANGED listening
  /\ UNCHANGED <<box, menus, find, entries, running, planFeedback, asked, allowed, quitting>>

\* The dialog keys go to.
InFront == IF dialog["permission"] # NoAsk THEN "permission" ELSE "plan"

Choosing == ~quitting /\ ~NoDialog /\ (InFront = "plan" => ~planFeedback)

DialogMove ==
  /\ Choosing /\ dialog' = [dialog EXCEPT ![InFront].choice = (@ % Options) + 1]
  /\ UNCHANGED <<box, menus, find, entries, running, planFeedback, listening, heard, ask, asked,
                 allowed, quitting>>

\* resolvePermission or resolvePlan: the reply is buffered, so whoever asked need not be
\* waiting any more.
Resolve ==
  /\ Reply(dialog[InFront].n) /\ listening' = Rearmed(InFront) /\ Entry
  /\ dialog' = [dialog EXCEPT ![InFront] = NoAsk]

\* enter on an option; the third option of the plan opens a feedback box.
DialogEnter ==
  /\ Choosing
  /\ LET option == dialog[InFront].choice
     IN IF InFront = "plan" /\ option = Options
        THEN planFeedback' = TRUE /\ input' = Empty /\ UNCHANGED <<ask, dialog, listening, allowed, entries>>
        ELSE Resolve /\ allowed' = (allowed \/ (InFront = "permission" /\ option = 2))
             /\ UNCHANGED <<planFeedback, input>>
  /\ UNCHANGED <<draft, menus, find, running, heard, asked, quitting>>

DialogEsc ==
  /\ Choosing /\ Resolve
  /\ UNCHANGED <<box, menus, find, running, planFeedback, heard, asked, allowed, quitting>>

\* The feedback is sent, or esc leads back to the dialog.
Feedback ==
  /\ ~quitting /\ ~NoDialog /\ InFront = "plan" /\ planFeedback
  /\ planFeedback' = FALSE /\ input' = Empty
  /\ Resolve \/ UNCHANGED <<ask, dialog, listening, entries>>
  /\ UNCHANGED <<draft, menus, find, running, heard, asked, allowed, quitting>>

-----------------------------------------------------------------------------
PromptNext ==
  \/ \E v \in Inputs : Type(v) \/ Search(v) \/ Steer(v)
  \/ FilesLoaded \/ Recall \/ Enter
  \/ MenuMove \/ MenuTab \/ MenuEnter \/ MenuEsc \/ AtMove \/ AtAccept \/ AtEsc
  \/ CtrlF \/ SearchMove \/ SearchEsc
  \/ Cancel \/ Quit \/ TurnOver
  \/ \E k \in Kinds : Ask(k) \/ Hear(k) \/ OnRequest(k)
  \/ DialogMove \/ DialogEnter \/ DialogEsc \/ Feedback

PromptSpec == PromptInit /\ [][PromptNext]_promptVars
-----------------------------------------------------------------------------
\* No key can index past a list, which would end the REPL with a panic: the selections
\* of both menus, of the search and of the history stay in their lists while the texts
\* and the lists change under them, a file list that arrives late included.
SelectionsInRange ==
  /\ menu # <<>> => menuIdx \in DOMAIN menu
  /\ atItems # <<>> => atIdx \in DOMAIN atItems
  /\ hits # <<>> => cur \in DOMAIN hits
  /\ pos \in 1..(Len(lines) + 1)

\* A request is never left without anybody to show it: as long as the tool waits, a
\* listener of its kind is armed or the request itself is on the way to the screen or
\* on it -- whatever dialogs were cancelled with their turn, answered late or answered
\* by the session's allowance.
NobodyAsksInVain ==
  ask # NoAsk =>
    LET k == ask.kind
    IN CASE ask.state = "asked" -> k \in listening \/ heard[k] # NoAsk \/ dialog[k] # NoAsk
         [] ask.state = "heard" -> heard[k] = ask.n
         [] ask.state = "shown" -> dialog[k] # NoAsk /\ dialog[k].n = ask.n
=============================================================================
