---------------------------- MODULE TerminalTabs ----------------------------
(***************************************************************************)
(* Terminals: the tabs of the browser (internal/ui/static/app.js), and for *)
(* each of them a websocket, a handler of the server and a shell behind a  *)
(* pseudo terminal (internal/ui/terminal.go).                              *)
(*                                                                         *)
(* A session is its number: terminalTabOrder holds the open ones in the    *)
(* order in which they were made.  A size of a terminal is the pair of the *)
(* window size and the font size it was computed from; what is typed and   *)
(* printed is left out.                                                    *)
(***************************************************************************)
EXTENDS Naturals, Sequences, FiniteSets, FiniteSetsExt

CONSTANTS
  Labs,
  Host,          \* stands for the lab in a session of the host
  MaxSessions,   \* bound on the terminals opened
  MaxFont,       \* fonts are clamped to 1 .. MaxFont
  MaxActs        \* bound on what the user does

ASSUME TerminalConstantsOK ==
  /\ Host \notin Labs
  /\ MaxSessions \in Nat \ {0} /\ MaxFont \in Nat \ {0} /\ MaxActs \in Nat

Sessions == 1 .. MaxSessions
NoSession == 0
Fonts == 1 .. MaxFont
Boxes == 1 .. 2                  \* sizes of the window
Sizes == Boxes \X Fonts
TermSize == <<0, 0>>             \* what xterm starts with
PtySize == <<0, 1>>              \* what the server sets first

VARIABLES
  lab,          \* state.lab
  mode,         \* state.centerMode
  tabs,         \* the sessions in state.terminalTabs and terminalTabOrder
  active,       \* state.terminalActiveNode
  seq,          \* state.terminalSessionSeq
  at,           \* per session: the lab of its URL
  hidden,       \* per session: is its container hidden?
  term,         \* per session: cols and rows of the terminal
  seen,         \* per session: the size its ResizeObserver reported last
  sock,         \* per session: the browser's end of the websocket
  sent,         \* per session: the resize messages on their way
  box, font,    \* the window, and state.terminalFontSize
  pending,      \* per lab: clicks that wait for loadTopology
  handler,      \* per session: terminalWSHandler
  shell,        \* per session: the process behind the pty
  reader,       \* per session: the goroutine from the pty to the websocket
  pty,          \* per session: the size of the pty
  acts          \* bounded counter

ui == <<lab, mode, tabs, active, seq, at, hidden, term, seen, sock, box, font, pending>>
server == <<handler, shell, reader, pty>>
counters == <<acts>>
vars == <<ui, sent, server, counters>>

TypeOK ==
  /\ lab \in Labs
  /\ mode \in {"topo", "terminal"}
  /\ seq \in 0 .. MaxSessions
  /\ tabs \subseteq 1 .. seq
  /\ active \in tabs \cup {NoSession}
  /\ at \in [Sessions -> Labs \cup {Host}]
  /\ hidden \in [Sessions -> BOOLEAN]
  /\ term \in [Sessions -> Sizes \cup {TermSize}]
  /\ seen \in [Sessions -> {0} \cup Boxes]
  /\ sock \in [Sessions -> {"none", "connecting", "open", "closed"}]
  /\ sent \in [Sessions -> Seq(Sizes \cup {TermSize})]
  /\ box \in Boxes /\ font \in Fonts
  /\ pending \in [Labs -> Nat]
  /\ handler \in [Sessions -> {"none", "starting", "reading", "done"}]
  /\ shell \in [Sessions -> {"none", "running", "exited", "reaped"}]
  /\ reader \in [Sessions -> {"none", "reading", "done"}]
  /\ pty \in [Sessions -> Sizes \cup {TermSize, PtySize}]
  /\ acts \in 0 .. MaxActs

Init ==
  /\ lab \in Labs
  /\ mode = "topo"
  /\ tabs = {} /\ active = NoSession /\ seq = 0
  /\ at = [s \in Sessions |-> Host]
  /\ hidden = [s \in Sessions |-> TRUE]
  /\ term = [s \in Sessions |-> TermSize]
  /\ seen = [s \in Sessions |-> 0]
  /\ sock = [s \in Sessions |-> "none"]
  /\ sent = [s \in Sessions |-> <<>>]
  /\ box = 1 /\ font = 1
  /\ pending = [l \in Labs |-> 0]
  /\ handler = [s \in Sessions |-> "none"]
  /\ shell = [s \in Sessions |-> "none"]
  /\ reader = [s \in Sessions |-> "none"]
  /\ pty = [s \in Sessions |-> PtySize]
  /\ acts = 0

-----------------------------------------------------------------------------
(* Sizes.                                                                  *)

(* The space a session's container takes: none while it cannot be seen.    *)
Extent(s) == IF mode = "terminal" /\ ~hidden[s] THEN box ELSE 0

(* terminalSendResizeForSession: only an open socket takes the message.    *)
SendResize(ss) ==
  sent' = [s \in Sessions |->
            IF s \in ss /\ sock[s] = "open" THEN Append(sent[s], term'[s]) ELSE sent[s]]

(* fit.fit(), which does nothing unless the container can be seen, and a   *)
(* resize message.                                                         *)
FitAndSend(ss, visible) ==
  /\ term' = [s \in Sessions |-> IF s \in ss \cap visible THEN <<box', font'>> ELSE term[s]]
  /\ SendResize(ss)

KeepSizes == UNCHANGED <<hidden, term, sent>>

-----------------------------------------------------------------------------
(* Tabs.                                                                   *)

(* selectTerminalTab, perhaps after others in the same handler.            *)
SelectTab(s, before) ==
  /\ active' = s
  /\ hidden' = [t \in Sessions |-> IF t \in tabs' THEN t # s ELSE hidden[t]]
  /\ FitAndSend(before \cup {s}, IF mode' = "terminal" THEN Sessions ELSE {})

SelectNone == active' = NoSession /\ KeepSizes

(* terminalTabOrder[0] || "".                                              *)
FirstTab(ts) == IF ts = {} THEN NoSession ELSE CHOOSE s \in ts : \A t \in ts : s <= t

(* Mutants of CloseTab: the tab that becomes active is not shown, or none  *)
(* becomes active.                                                         *)
CloseTabOnly(s) ==
  /\ tabs' = tabs \ {s}
  /\ sock' = [sock EXCEPT ![s] = "closed"]
  /\ active' = IF active = s THEN FirstTab(tabs') ELSE active
  /\ KeepSizes
  /\ UNCHANGED <<lab, mode, seq, at, seen, box, font, pending>>
CloseTabStill(s) ==
  /\ tabs' = tabs \ {s}
  /\ sock' = [sock EXCEPT ![s] = "closed"]
  /\ KeepSizes
  /\ UNCHANGED <<lab, mode, active, seq, at, seen, box, font, pending>>

(* closeTerminalForSession.                                                *)
CloseTab(s) ==
  /\ UNCHANGED <<lab, mode, seq, at, seen, box, font, pending>>
  /\ tabs' = tabs \ {s}
  /\ sock' = [sock EXCEPT ![s] = "closed"]
  /\ LET next == FirstTab(tabs') IN
     CASE active # s -> UNCHANGED active /\ KeepSizes
       [] active = s /\ mode = "terminal" /\ next # NoSession -> SelectTab(next, {})
       [] OTHER -> active' = next /\ KeepSizes

(* The synchronous rest of openTerminalForNode, and openHostTerminal.      *)
NewTab(where, before) ==
  LET s == seq + 1 IN
  /\ s \in Sessions              \* as Open sees to
  /\ seq' = s
  /\ tabs' = tabs \cup {s}
  /\ at' = [at EXCEPT ![s] = where]
  /\ sock' = [sock EXCEPT ![s] = "connecting"]
  /\ SelectTab(s, before)

(* The session that setCenterMode selects.                                 *)
Pick == IF active # NoSession THEN active ELSE FirstTab(tabs)

(* setCenterMode: the session is fitted when it comes to see; a frame      *)
(* later its size is sent once more, the same, which is left out.          *)
SetCenterMode(m) ==
  /\ UNCHANGED <<lab, tabs, seq, at, seen, sock, box, font>>
  /\ mode' = m
  /\ IF m = "terminal" /\ Pick # NoSession
     THEN SelectTab(Pick, {})
     ELSE UNCHANGED active /\ KeepSizes

-----------------------------------------------------------------------------
(* The user.                                                               *)

Act == acts < MaxActs /\ acts' = acts + 1

(* The terminal that a click asks for has a number left, after those that  *)
(* still wait.                                                             *)
Open == Act /\ seq + MapThenSumSet(LAMBDA l : pending[l], Labs) < MaxSessions

(* openTerminalForNode after a click, which also changes to the terminals: *)
(* in live mode it waits for loadTopology, without it makes the tab at once.*)
OpenLive ==
  /\ Open
  /\ SetCenterMode("terminal")
  /\ pending' = [pending EXCEPT ![lab] = @ + 1]
  /\ UNCHANGED server

OpenNow(where) ==
  /\ Open
  /\ UNCHANGED <<lab, seen, box, font, pending, server>>
  /\ mode' = "terminal"
  /\ NewTab(where, {Pick} \ {NoSession})

(* loadTopology returns: state.lab may be another one by now.              *)
OpenLoaded(l) ==
  /\ pending[l] > 0
  /\ pending' = [pending EXCEPT ![l] = @ - 1]
  /\ UNCHANGED <<lab, mode, seen, box, font, server, counters>>
  /\ NewTab(lab, {})

(* It throws, and no terminal is opened.                                   *)
OpenFails(l) ==
  /\ pending[l] > 0
  /\ pending' = [pending EXCEPT ![l] = @ - 1]
  /\ UNCHANGED <<lab, mode, tabs, active, seq, at, hidden, term, seen, sock, sent, box, font,
                 server, counters>>

(* A tab is clicked: the active session is shown before the other one.     *)
ClickTab(s) ==
  /\ Act
  /\ s \in tabs
  /\ UNCHANGED <<lab, tabs, seq, at, seen, sock, box, font, pending, server>>
  /\ mode' = "terminal"
  /\ SelectTab(s, {Pick})

ClickClose(s) == Act /\ s \in tabs /\ CloseTab(s) /\ UNCHANGED server

(* viewModeSelect.onchange; the box may name the mode of now, since only   *)
(* the user changes it.                                                    *)
ChangeMode(m) == Act /\ SetCenterMode(m) /\ UNCHANGED <<pending, server>>

(* labSelect.onchange: closeAllTerminalSessions, then the other lab (sizes *)
(* that sessions are sent on the way, just before they close, left out).   *)
SelectLab(l) ==
  /\ Act
  /\ l # lab
  /\ lab' = l
  /\ tabs' = {}
  /\ sock' = [s \in Sessions |-> IF s \in tabs THEN "closed" ELSE sock[s]]
  /\ SelectNone
  /\ UNCHANGED <<mode, seq, at, seen, box, font, pending, server>>

(* zoomTerminalFont, in every tab.                                         *)
Zoom(f) ==
  /\ Act
  /\ mode = "terminal" /\ active # NoSession
  /\ f \in {font - 1, font + 1} \cap Fonts
  /\ font' = f
  /\ UNCHANGED <<mode, hidden, box>>
  /\ FitAndSend(tabs, {active})
  /\ UNCHANGED <<lab, tabs, active, seq, at, seen, sock, pending, server>>

(* The window's resize listener tells the active session its old size; the *)
(* window changes at most once a frame, at whose end the observers run.    *)
ResizeWindow(b) ==
  /\ Act
  /\ b # box
  /\ \A s \in tabs : seen[s] = Extent(s)
  /\ box' = b
  /\ UNCHANGED term
  /\ SendResize(IF mode = "terminal" /\ active # NoSession THEN {active} ELSE {})
  /\ UNCHANGED <<lab, mode, tabs, active, seq, at, hidden, seen, sock, font, pending, server>>

-----------------------------------------------------------------------------
(* Callbacks of the browser.                                               *)

(* The ResizeObserver of a tab, called when its extent has changed.        *)
Observe(s) ==
  /\ UNCHANGED <<mode, hidden, box, font>>
  /\ s \in tabs
  /\ seen[s] # Extent(s)
  /\ seen' = [seen EXCEPT ![s] = Extent(s)]
  /\ IF hidden[s] THEN UNCHANGED <<term, sent>> ELSE FitAndSend({s}, IF Extent(s) # 0 THEN {s} ELSE {})
  /\ UNCHANGED <<lab, tabs, active, seq, at, sock, pending, server, counters>>

(* Mutant of OnOpen: the size is left for the next resize.                 *)
OnOpenSilent(s) ==
  /\ sock[s] = "connecting" /\ handler[s] # "none"
  /\ sock' = [sock EXCEPT ![s] = "open"]
  /\ UNCHANGED <<lab, mode, tabs, active, seq, at, hidden, term, seen, sent, box, font, pending,
                 server, counters>>

(* ws.onopen.                                                              *)
OnOpen(s) ==
  /\ sock[s] = "connecting" /\ handler[s] # "none"
  /\ UNCHANGED <<mode, hidden, box, font>>
  /\ sock' = [sock EXCEPT ![s] = "open"]
  /\ term' = [term EXCEPT ![s] = IF Extent(s) # 0 THEN <<Extent(s), font>> ELSE @]
  /\ sent' = [sent EXCEPT ![s] = Append(@, term'[s])]
  /\ UNCHANGED <<lab, tabs, active, seq, at, seen, pending, server, counters>>

(* ws.onclose: the server has closed the connection.                       *)
OnClose(s) ==
  /\ sock[s] = "open" /\ handler[s] = "done"
  /\ CloseTab(s)
  /\ UNCHANGED <<server, counters>>

-----------------------------------------------------------------------------
(* The server.                                                             *)

(* The request arrives, and is upgraded to a websocket, even though the    *)
(* browser may have given it up by now.                                    *)
Upgrade(s) ==
  /\ handler[s] = "none" /\ sock[s] # "none"
  /\ handler' = [handler EXCEPT ![s] = "starting"]
  /\ UNCHANGED <<ui, sent, shell, reader, pty, counters>>

(* The shell starts, with a first size, or cannot (no node, no pty).       *)
StartShell(s) ==
  /\ handler[s] = "starting"
  /\ \/ /\ handler' = [handler EXCEPT ![s] = "reading"]
        /\ shell' = [shell EXCEPT ![s] = "running"]
        /\ reader' = [reader EXCEPT ![s] = "reading"]
        /\ pty' = [pty EXCEPT ![s] = PtySize]
     \/ handler' = [handler EXCEPT ![s] = "done"] /\ UNCHANGED <<shell, reader, pty>>
  /\ UNCHANGED <<ui, sent, counters>>

(* A resize message is read and applied: one of no columns is not.         *)
Resize(s) ==
  /\ handler[s] = "reading" /\ sent[s] # <<>>
  /\ sent' = [sent EXCEPT ![s] = Tail(@)]
  /\ pty' = [pty EXCEPT ![s] = Head(sent[s])]
  /\ UNCHANGED <<ui, handler, shell, reader, counters>>

(* Mutant of EndHandler: the shell is left alone.                          *)
EndHandlerOnly(s) ==
  /\ handler[s] = "reading" /\ sock[s] = "closed" /\ sent[s] = <<>>
  /\ handler' = [handler EXCEPT ![s] = "done"]
  /\ reader' = [reader EXCEPT ![s] = "done"]
  /\ UNCHANGED <<ui, sent, shell, pty, counters>>

(* The read fails since the browser has closed: the deferred calls kill    *)
(* the shell, wait for it and close the pty, which ends the reader.        *)
EndHandler(s) ==
  /\ handler[s] = "reading" /\ sock[s] = "closed" /\ sent[s] = <<>>
  /\ handler' = [handler EXCEPT ![s] = "done"]
  /\ shell' = [shell EXCEPT ![s] = "reaped"]
  /\ reader' = [reader EXCEPT ![s] = "done"]
  /\ UNCHANGED <<ui, sent, pty, counters>>

(* The shell ends by itself.                                               *)
ExitShell(s) ==
  /\ shell[s] = "running"
  /\ shell' = [shell EXCEPT ![s] = "exited"]
  /\ UNCHANGED <<ui, sent, handler, reader, pty, counters>>

(* The reader finds the pty at its end, or cannot write to the browser.    *)
EndReader(s) ==
  /\ reader[s] = "reading"
  /\ shell[s] = "exited" \/ sock[s] = "closed"
  /\ reader' = [reader EXCEPT ![s] = "done"]
  /\ UNCHANGED <<ui, sent, handler, shell, pty, counters>>

-----------------------------------------------------------------------------
User ==
  \/ OpenLive \/ OpenNow(lab) \/ OpenNow(Host)
  \/ \E l \in Labs : SelectLab(l)
  \/ \E s \in Sessions : ClickTab(s) \/ ClickClose(s)
  \/ \E m \in {"topo", "terminal"} : ChangeMode(m)
  \/ \E f \in Fonts : Zoom(f)
  \/ \E b \in Boxes : ResizeWindow(b)

Browser ==
  \/ \E l \in Labs : OpenLoaded(l) \/ OpenFails(l)
  \/ \E s \in Sessions : Observe(s) \/ OnOpen(s) \/ OnClose(s)

Serve(s) ==
  Upgrade(s) \/ StartShell(s) \/ Resize(s) \/ EndHandler(s) \/ ExitShell(s) \/ EndReader(s)

Next == User \/ Browser \/ \E s \in Sessions : Serve(s)

Spec == Init /\ [][Next]_vars

(* Callbacks are called and goroutines run; no user acts, no shell ends    *)
(* and no request of a closed socket arrives for sure.                     *)
Fairness == \A s \in Sessions :
  /\ WF_vars(OnOpen(s)) /\ WF_vars(OnClose(s)) /\ WF_vars(Observe(s))
  /\ WF_vars(sock[s] = "connecting" /\ Upgrade(s))
  /\ WF_vars(StartShell(s)) /\ WF_vars(Resize(s)) /\ WF_vars(EndHandler(s)) /\ WF_vars(EndReader(s))

FairSpec == Spec /\ Fairness

-----------------------------------------------------------------------------
(* Properties.                                                             *)

(* The tabs are sessions of the selected lab or of the host, although a    *)
(* tab may be made long after its click, when all tabs have been closed    *)
(* for another lab in between.                                             *)
TabsOfSelectedLab == \A s \in tabs : at[s] \in {lab, Host}

(* There is an active session as long as there is any, and in the terminal *)
(* view its container is the one that shows: also when the server closed   *)
(* the active one while the topology was on display.                       *)
ActiveTabShows ==
  /\ active = NoSession <=> tabs = {}
  /\ mode = "terminal" => \A s \in tabs : hidden[s] <=> s # active

(* The tabs are those of the lab, and the right one of them shows.         *)
TabsConsistent == TabsOfSelectedLab /\ ActiveTabShows

(* app.js, `Keep PTY size in sync with this tab's container`: when         *)
(* observer and messages have done their work, the shell on display has    *)
(* the size of its container, whatever was resized, zoomed, hidden and     *)
(* shown before, in part while the socket was still connecting.            *)
SizeInSync ==
  mode = "terminal" /\ active # NoSession =>
    \/ sock[active] # "open" \/ handler[active] # "reading"
    \/ sent[active] # <<>> \/ seen[active] # box
    \/ pty[active] = <<box, font>>

(* A shell does not outlive its tab: it is killed and reaped even if the   *)
(* tab was closed before the server had started it; and a session that the *)
(* server could not start or has given up loses its tab.                   *)
SessionEndsWhole == \A s \in Sessions :
  /\ s \in (1 .. seq) \ tabs ~> [](shell[s] \in {"none", "reaped"} /\ reader[s] # "reading")
  /\ handler[s] = "done" ~> s \notin tabs
=============================================================================
