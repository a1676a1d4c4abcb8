-------------------------- MODULE TerminalTabsProofs --------------------------
(***************************************************************************)
(* Safety of TerminalTabs for any number of terminals, labs and fonts.     *)
(***************************************************************************)
EXTENDS TerminalTabs, SequenceTheorems, WellFoundedInduction, TLAPS

AllSizes == Sizes \cup {TermSize}

LEMMA FirstTabIsATab ==
  ASSUME NEW ts \in SUBSET Sessions
  PROVE  IF ts = {} THEN FirstTab(ts) = NoSession ELSE FirstTab(ts) \in ts
<1> SUFFICES ASSUME ts # {} PROVE FirstTab(ts) \in ts
  BY DEF FirstTab
<1> DEFINE lt == {p \in Nat \X Nat : p[1] < p[2]}
<1>1. IsWellFoundedOn(lt, Nat)
  BY NatLessThanWellFounded DEF OpToRel
<1>2. ts \subseteq Nat
  BY TerminalConstantsOK DEF Sessions
<1> HIDE DEF lt
<1>3. PICK s \in ts : \A t \in ts : ~(<<t, s>> \in lt)
  BY <1>1, <1>2, WFMin
<1>4. ASSUME NEW t \in ts PROVE s <= t
  <2>1. s \in Nat /\ t \in Nat
    BY <1>2
  <2>2. ~(t < s)
    BY <1>3, <2>1 DEF lt
  <2> QED
    BY <2>1, <2>2
<1> QED
  BY <1>4 DEF FirstTab

LEMMA NumbersOfSessions ==
  /\ NoSession \notin Sessions
  /\ \A n \in 0 .. MaxSessions : 1 .. n \subseteq Sessions
  /\ \A n \in 0 .. MaxSessions : n < MaxSessions => n + 1 \in Sessions /\ n + 1 \in 0 .. MaxSessions
BY TerminalConstantsOK DEF Sessions, NoSession

-----------------------------------------------------------------------------
(* What the helpers of the actions do.  Sent is the part that types and    *)
(* sizes have in common: messages are sizes of their sessions.             *)

SizesTyped ==
  /\ hidden \in [Sessions -> BOOLEAN]
  /\ term \in [Sessions -> AllSizes]
  /\ sent \in [Sessions -> Seq(AllSizes)]

LEMMA FitAndSendTyped ==
  ASSUME SizesTyped, NEW ss, NEW visible, FitAndSend(ss, visible), box' \in Boxes, font' \in Fonts
  PROVE  /\ term' \in [Sessions -> AllSizes]
         /\ sent' \in [Sessions -> Seq(AllSizes)]
<1>1. <<box', font'>> \in AllSizes
  BY DEF AllSizes, Sizes
<1>2. term' \in [Sessions -> AllSizes]
  BY <1>1 DEF FitAndSend, SizesTyped
<1>3. ASSUME NEW s \in Sessions
      PROVE  (IF s \in ss /\ sock[s] = "open" THEN Append(sent[s], term'[s]) ELSE sent[s])
             \in Seq(AllSizes)
  <2>1. term'[s] \in AllSizes /\ sent[s] \in Seq(AllSizes)
    BY <1>2 DEF SizesTyped
  <2>2. Append(sent[s], term'[s]) \in Seq(AllSizes)
    BY <2>1
  <2> QED
    BY <2>1, <2>2
<1> QED
  BY <1>2, <1>3 DEF FitAndSend, SendResize

LEMMA SelectTabTyped ==
  ASSUME SizesTyped, NEW s, NEW before, SelectTab(s, before), box' \in Boxes, font' \in Fonts
  PROVE  SizesTyped' /\ active' = s
<1>1. hidden' \in [Sessions -> BOOLEAN]
  BY DEF SelectTab, SizesTyped
<1>2. /\ term' \in [Sessions -> AllSizes]
      /\ sent' \in [Sessions -> Seq(AllSizes)]
  <2>1. PICK ss, visible : FitAndSend(ss, visible)
    BY DEF SelectTab
  <2> QED
    BY <2>1, FitAndSendTyped
<1> QED
  BY <1>1, <1>2 DEF SizesTyped, SelectTab

LEMMA TypeOKSizes == TypeOK => SizesTyped
BY DEF TypeOK, SizesTyped, AllSizes

LEMMA TabsAreSessions ==
  ASSUME TypeOK
  PROVE  tabs \subseteq Sessions /\ active \in Sessions \cup {NoSession}
BY NumbersOfSessions DEF TypeOK

LEMMA PickIsATab ==
  ASSUME TypeOK, Pick # NoSession
  PROVE  Pick \in tabs
<1>1. tabs \in SUBSET Sessions
  BY TabsAreSessions
<1> QED
  BY <1>1, FirstTabIsATab DEF Pick, TypeOK

LEMMA NewTabTyped ==
  ASSUME TypeOK, NEW where \in Labs \cup {Host}, NEW before,
         NewTab(where, before), UNCHANGED <<box, font>>
  PROVE  /\ seq' \in 0 .. MaxSessions /\ tabs' \subseteq 1 .. seq'
         /\ active' \in tabs' \cup {NoSession}
         /\ at' \in [Sessions -> Labs \cup {Host}]
         /\ sock' \in [Sessions -> {"none", "connecting", "open", "closed"}]
         /\ SizesTyped'
<1>1. seq + 1 \in 0 .. MaxSessions /\ seq' = seq + 1
  BY TerminalConstantsOK DEF TypeOK, NewTab, Sessions
<1>2. tabs' = tabs \cup {seq + 1} /\ tabs' \subseteq 1 .. seq'
  <2>1. seq \in Nat /\ tabs \subseteq 1 .. seq
    BY DEF TypeOK
  <2> QED
    BY <1>1, <2>1 DEF NewTab
<1>3. SizesTyped' /\ active' = seq + 1
  <2>1. SelectTab(seq + 1, before) /\ box' \in Boxes /\ font' \in Fonts
    BY DEF NewTab, TypeOK
  <2> QED
    BY <2>1, SelectTabTyped, TypeOKSizes
<1>4. /\ at' \in [Sessions -> Labs \cup {Host}]
      /\ sock' \in [Sessions -> {"none", "connecting", "open", "closed"}]
  BY DEF NewTab, TypeOK
<1> QED
  BY <1>1, <1>2, <1>3, <1>4

LEMMA CloseTabTyped ==
  ASSUME TypeOK, NEW s, CloseTab(s)
  PROVE  /\ tabs' \subseteq 1 .. seq
         /\ active' \in tabs' \cup {NoSession}
         /\ sock' \in [Sessions -> {"none", "connecting", "open", "closed"}]
         /\ SizesTyped'
         /\ UNCHANGED <<lab, mode, seq, at, seen, box, font, pending>>
<1>1. /\ tabs' = tabs \ {s} /\ tabs' \subseteq 1 .. seq
      /\ sock' \in [Sessions -> {"none", "connecting", "open", "closed"}]
      /\ UNCHANGED <<lab, mode, seq, at, seen, box, font, pending>>
  BY DEF CloseTab, TypeOK
<1>2. PICK next : next = FirstTab(tabs')
  OBVIOUS
<1>3. next \in tabs' \cup {NoSession}
  <2>1. PICK ts \in SUBSET Sessions : ts = tabs'
    BY <1>1, TabsAreSessions
  <2> QED
    BY <1>2, <2>1, FirstTabIsATab
<1>4. CASE active # s
  BY <1>1, <1>4, TypeOKSizes DEF CloseTab, KeepSizes, SizesTyped, TypeOK
<1>5. CASE active = s /\ mode = "terminal" /\ next # NoSession
  <2>1. SelectTab(next, {}) /\ box' \in Boxes /\ font' \in Fonts
    BY <1>1, <1>2, <1>5 DEF CloseTab, TypeOK
  <2> QED
    BY <1>1, <1>3, <2>1, SelectTabTyped, TypeOKSizes
<1>6. CASE active = s /\ ~(mode = "terminal" /\ next # NoSession)
  <2>1. active' = next /\ KeepSizes
    BY <1>2, <1>6 DEF CloseTab
  <2> QED
    BY <1>1, <1>3, <2>1, TypeOKSizes DEF KeepSizes, SizesTyped
<1> QED
  BY <1>4, <1>5, <1>6

LEMMA SetCenterModeTyped ==
  ASSUME TypeOK, NEW m \in {"topo", "terminal"}, SetCenterMode(m)
  PROVE  /\ mode' \in {"topo", "terminal"}
         /\ active' \in tabs \cup {NoSession}
         /\ SizesTyped'
         /\ UNCHANGED <<lab, tabs, seq, at, seen, sock, box, font>>
<1>1. mode' = m /\ UNCHANGED <<lab, tabs, seq, at, seen, sock, box, font>>
  BY DEF SetCenterMode
<1>2. CASE m = "terminal" /\ Pick # NoSession
  <2>1. PICK p : p = Pick
    OBVIOUS
  <2>2. SelectTab(p, {}) /\ box' \in Boxes /\ font' \in Fonts
    BY <1>1, <1>2, <2>1 DEF SetCenterMode, TypeOK
  <2> QED
    BY <1>1, <1>2, <2>1, <2>2, SelectTabTyped, TypeOKSizes, PickIsATab
<1>3. CASE ~(m = "terminal" /\ Pick # NoSession)
  <2>1. UNCHANGED active /\ KeepSizes
    BY <1>3 DEF SetCenterMode
  <2> QED
    BY <1>1, <2>1, TypeOKSizes DEF KeepSizes, SizesTyped, TypeOK
<1> QED
  BY <1>2, <1>3

-----------------------------------------------------------------------------
(* Types.  A session has a number because Open leaves it one.              *)

LEMMA UserTyped == TypeOK /\ User => TypeOK'
<1> SUFFICES ASSUME TypeOK, User PROVE TypeOK'
  OBVIOUS
<1> USE DEF ui, server, counters, Act
<1>0. SizesTyped /\ MaxActs \in Nat /\ MaxSessions \in Nat
  BY TypeOKSizes, TerminalConstantsOK
<1>1. acts' \in 0 .. MaxActs
  BY <1>0 DEF User, OpenLive, OpenNow, Open, SelectLab, ClickTab, ClickClose, ChangeMode, Zoom,
              ResizeWindow, TypeOK
<1>2. CASE OpenLive
  <2>1. pending' \in [Labs -> Nat]
    BY <1>2 DEF OpenLive, TypeOK
  <2>2. /\ mode' \in {"topo", "terminal"}
        /\ active' \in tabs \cup {NoSession}
        /\ SizesTyped'
        /\ UNCHANGED <<lab, tabs, seq, at, seen, sock, box, font>>
    BY <1>2, SetCenterModeTyped DEF OpenLive
  <2> QED
    BY <1>1, <1>2, <2>1, <2>2 DEF OpenLive, TypeOK, SizesTyped, AllSizes
<1>3. ASSUME NEW where \in Labs \cup {Host}, OpenNow(where) PROVE TypeOK'
  <2>1. PICK before : NewTab(where, before)
    BY <1>3 DEF OpenNow
  <2>2. /\ seq' \in 0 .. MaxSessions /\ tabs' \subseteq 1 .. seq'
        /\ active' \in tabs' \cup {NoSession}
        /\ at' \in [Sessions -> Labs \cup {Host}]
        /\ sock' \in [Sessions -> {"none", "connecting", "open", "closed"}]
        /\ SizesTyped'
    BY <1>3, <2>1, NewTabTyped DEF OpenNow
  <2> QED
    BY <1>1, <1>3, <2>2 DEF OpenNow, TypeOK, SizesTyped, AllSizes
<1>4. ASSUME NEW l \in Labs, SelectLab(l) PROVE TypeOK'
  <2>1. sock' \in [Sessions -> {"none", "connecting", "open", "closed"}]
    BY <1>4 DEF SelectLab, TypeOK
  <2> QED
    BY <1>1, <1>4, <2>1 DEF SelectLab, SelectNone, KeepSizes, TypeOK
<1>5. ASSUME NEW s \in Sessions, ClickTab(s) PROVE TypeOK'
  <2>1. PICK before : SelectTab(s, before)
    BY <1>5 DEF ClickTab
  <2>2. SizesTyped' /\ active' = s
    BY <1>0, <1>5, <2>1, SelectTabTyped DEF ClickTab, TypeOK
  <2> QED
    BY <1>1, <1>5, <2>2 DEF ClickTab, TypeOK, SizesTyped, AllSizes
<1>6. ASSUME NEW s \in Sessions, ClickClose(s) PROVE TypeOK'
  <2>1. /\ tabs' \subseteq 1 .. seq
        /\ active' \in tabs' \cup {NoSession}
        /\ sock' \in [Sessions -> {"none", "connecting", "open", "closed"}]
        /\ SizesTyped'
        /\ UNCHANGED <<lab, mode, seq, at, seen, box, font, pending>>
    BY <1>6, CloseTabTyped DEF ClickClose
  <2> QED
    BY <1>1, <1>6, <2>1 DEF ClickClose, TypeOK, SizesTyped, AllSizes
<1>7. ASSUME NEW m \in {"topo", "terminal"}, ChangeMode(m) PROVE TypeOK'
  <2>1. /\ mode' \in {"topo", "terminal"}
        /\ active' \in tabs \cup {NoSession}
        /\ SizesTyped'
        /\ UNCHANGED <<lab, tabs, seq, at, seen, sock, box, font>>
    BY <1>7, SetCenterModeTyped DEF ChangeMode
  <2> QED
    BY <1>1, <1>7, <2>1 DEF ChangeMode, TypeOK, SizesTyped, AllSizes
<1>8. ASSUME NEW f \in Fonts, Zoom(f) PROVE TypeOK'
  <2>1. FitAndSend(tabs, {active}) /\ font' \in Fonts /\ box' = box /\ hidden' = hidden
    BY <1>8 DEF Zoom
  <2>2. SizesTyped'
    BY <1>0, <2>1, FitAndSendTyped DEF TypeOK, SizesTyped
  <2> QED
    BY <1>1, <1>8, <2>1, <2>2 DEF Zoom, TypeOK, SizesTyped, AllSizes
<1>9. ASSUME NEW b \in Boxes, ResizeWindow(b) PROVE TypeOK'
  <2>1. PICK ss : SendResize(ss)
    BY <1>9 DEF ResizeWindow
  <2>2. ASSUME NEW s \in Sessions
        PROVE  (IF s \in ss /\ sock[s] = "open" THEN Append(sent[s], term'[s]) ELSE sent[s])
               \in Seq(AllSizes)
    <3>1. term'[s] \in AllSizes /\ sent[s] \in Seq(AllSizes)
      BY <1>0, <1>9 DEF ResizeWindow, SizesTyped
    <3>2. Append(sent[s], term'[s]) \in Seq(AllSizes)
      BY <3>1
    <3> QED
      BY <3>1, <3>2
  <2>3. sent' \in [Sessions -> Seq(AllSizes)]
    BY <2>1, <2>2 DEF SendResize
  <2> QED
    BY <1>1, <1>9, <2>3 DEF ResizeWindow, TypeOK, AllSizes
<1> QED
  BY <1>2, <1>3, <1>4, <1>5, <1>6, <1>7, <1>8, <1>9 DEF User, TypeOK

LEMMA BrowserTyped == TypeOK /\ Browser => TypeOK'
<1> SUFFICES ASSUME TypeOK, Browser PROVE TypeOK'
  OBVIOUS
<1> USE DEF ui, server, counters
<1>0. SizesTyped
  BY TypeOKSizes
<1>1. ASSUME NEW l \in Labs, OpenLoaded(l) PROVE TypeOK'
  <2>1. pending' \in [Labs -> Nat]
    BY <1>1 DEF OpenLoaded, TypeOK
  <2>2. PICK where \in Labs \cup {Host} : where = lab
    BY DEF TypeOK
  <2>3. NewTab(where, {})
    BY <1>1, <2>2 DEF OpenLoaded
  <2>4. /\ seq' \in 0 .. MaxSessions /\ tabs' \subseteq 1 .. seq'
        /\ active' \in tabs' \cup {NoSession}
        /\ at' \in [Sessions -> Labs \cup {Host}]
        /\ sock' \in [Sessions -> {"none", "connecting", "open", "closed"}]
        /\ SizesTyped'
    BY <1>1, <2>3, NewTabTyped DEF OpenLoaded
  <2> QED
    BY <1>1, <2>1, <2>4 DEF OpenLoaded, TypeOK, SizesTyped, AllSizes
<1>2. ASSUME NEW l \in Labs, OpenFails(l) PROVE TypeOK'
  <2>1. pending' \in [Labs -> Nat]
    BY <1>2 DEF OpenFails, TypeOK
  <2> QED
    BY <1>2, <2>1 DEF OpenFails, TypeOK
<1>3. ASSUME NEW s \in Sessions, Observe(s) PROVE TypeOK'
  <2>1. seen' \in [Sessions -> {0} \cup Boxes]
    BY <1>3 DEF Observe, Extent, TypeOK
  <2>2. SizesTyped'
    <3>1. CASE hidden[s]
      BY <1>0, <1>3, <3>1 DEF Observe, SizesTyped
    <3>2. CASE ~hidden[s]
      <4>1. PICK ss, visible : FitAndSend(ss, visible)
        BY <1>3, <3>2 DEF Observe
      <4> QED
        BY <1>0, <1>3, <4>1, FitAndSendTyped DEF Observe, SizesTyped, TypeOK
    <3> QED
      BY <3>1, <3>2
  <2> QED
    BY <1>3, <2>1, <2>2 DEF Observe, TypeOK, SizesTyped, AllSizes
<1>4. ASSUME NEW s \in Sessions, OnOpen(s) PROVE TypeOK'
  <2>1. term' \in [Sessions -> AllSizes]
    BY <1>0, <1>4 DEF OnOpen, Extent, SizesTyped, TypeOK, AllSizes, Sizes
  <2>2. Append(sent[s], term'[s]) \in Seq(AllSizes)
    <3>1. sent[s] \in Seq(AllSizes) /\ term'[s] \in AllSizes
      BY <1>0, <2>1 DEF SizesTyped
    <3> QED
      BY <3>1
  <2>3. sent' \in [Sessions -> Seq(AllSizes)]
    BY <1>0, <1>4, <2>2 DEF OnOpen, SizesTyped
  <2>4. sock' \in [Sessions -> {"none", "connecting", "open", "closed"}]
    BY <1>4 DEF OnOpen, TypeOK
  <2> QED
    BY <1>4, <2>1, <2>3, <2>4 DEF OnOpen, TypeOK, AllSizes
<1>5. ASSUME NEW s \in Sessions, OnClose(s) PROVE TypeOK'
  <2>1. /\ tabs' \subseteq 1 .. seq
        /\ active' \in tabs' \cup {NoSession}
        /\ sock' \in [Sessions -> {"none", "connecting", "open", "closed"}]
        /\ SizesTyped'
        /\ UNCHANGED <<lab, mode, seq, at, seen, box, font, pending>>
    BY <1>5, CloseTabTyped DEF OnClose
  <2> QED
    BY <1>5, <2>1 DEF OnClose, TypeOK, SizesTyped, AllSizes
<1> QED
  BY <1>1, <1>2, <1>3, <1>4, <1>5 DEF Browser

LEMMA ServeTyped ==
  ASSUME TypeOK, NEW s \in Sessions, Serve(s)
  PROVE  TypeOK'
<1> USE DEF ui, server, counters
<1>1. CASE Upgrade(s)
  BY <1>1 DEF Upgrade, TypeOK
<1>2. CASE StartShell(s)
  BY <1>2 DEF StartShell, TypeOK
<1>3. CASE Resize(s)
  <2>1. Head(sent[s]) \in AllSizes /\ Tail(sent[s]) \in Seq(AllSizes)
    <3>1. sent[s] \in Seq(AllSizes) /\ sent[s] # <<>>
      BY <1>3 DEF Resize, TypeOK, AllSizes
    <3> QED
      BY <3>1
  <2>2. sent' \in [Sessions -> Seq(AllSizes)] /\ pty' \in [Sessions -> AllSizes \cup {PtySize}]
    BY <1>3, <2>1 DEF Resize, TypeOK, AllSizes
  <2> QED
    BY <1>3, <2>2 DEF Resize, TypeOK, AllSizes
<1>4. CASE EndHandler(s)
  BY <1>4 DEF EndHandler, TypeOK
<1>5. CASE ExitShell(s)
  BY <1>5 DEF ExitShell, TypeOK
<1>6. CASE EndReader(s)
  BY <1>6 DEF EndReader, TypeOK
<1> QED
  BY <1>1, <1>2, <1>3, <1>4, <1>5, <1>6 DEF Serve

LEMMA TypeInvariant == Spec => []TypeOK
<1>1. Init => TypeOK
  <2> SUFFICES ASSUME Init PROVE TypeOK
    OBVIOUS
  <2>1. sent \in [Sessions -> Seq(AllSizes)]
    BY DEF Init
  <2>2. 0 \in 0 .. MaxSessions /\ 1 \in Fonts /\ 0 \in 0 .. MaxActs
    BY TerminalConstantsOK DEF Fonts
  <2> QED
    BY <2>1, <2>2 DEF Init, TypeOK, AllSizes, Boxes
<1>2. TypeOK /\ [Next]_vars => TypeOK'
  <2>1. TypeOK /\ UNCHANGED vars => TypeOK'
    BY DEF TypeOK, vars, ui, server, counters
  <2> QED
    BY <2>1, UserTyped, BrowserTyped, ServeTyped DEF Next
<1> QED
  BY <1>1, <1>2, PTL DEF Spec

(* TypeOK; in particular the active session is always one that has a tab.  *)
THEOREM TypeCorrect == Spec => []TypeOK
BY TypeInvariant

-----------------------------------------------------------------------------
(* The tabs are those of the selected lab.                                 *)

LEMMA NewTabOfLab ==
  ASSUME TypeOK, TabsOfSelectedLab, NEW where \in {lab, Host}, NEW before,
         NewTab(where, before), lab' = lab
  PROVE  TabsOfSelectedLab'
<1>1. seq + 1 \in Sessions /\ tabs \subseteq Sessions
  BY TabsAreSessions DEF NewTab
<1>2. tabs' = tabs \cup {seq + 1} /\ at' = [at EXCEPT ![seq + 1] = where]
  BY DEF NewTab
<1>3. ASSUME NEW s \in tabs' PROVE at'[s] \in {lab, Host}
  BY <1>1, <1>2, <1>3 DEF TypeOK, TabsOfSelectedLab
<1> QED
  BY <1>3 DEF TabsOfSelectedLab

LEMMA CloseTabOfLab ==
  ASSUME TabsOfSelectedLab, NEW s, CloseTab(s)
  PROVE  TabsOfSelectedLab'
BY DEF CloseTab, TabsOfSelectedLab

LEMMA LabNext == TypeOK /\ TabsOfSelectedLab /\ [Next]_vars => TabsOfSelectedLab'
<1> SUFFICES ASSUME TypeOK, TabsOfSelectedLab, [Next]_vars PROVE TabsOfSelectedLab'
  OBVIOUS
<1> USE DEF ui, server, counters
<1>0. ASSUME UNCHANGED <<lab, tabs, at>> PROVE TabsOfSelectedLab'
  BY <1>0 DEF TabsOfSelectedLab
<1>1. CASE OpenLive
  BY <1>0, <1>1 DEF OpenLive, SetCenterMode
<1>2. ASSUME NEW where \in {lab, Host}, OpenNow(where) PROVE TabsOfSelectedLab'
  BY <1>2, NewTabOfLab DEF OpenNow
<1>3. ASSUME NEW l \in Labs, SelectLab(l) PROVE TabsOfSelectedLab'
  BY <1>3 DEF SelectLab, TabsOfSelectedLab
<1>4. ASSUME NEW s \in Sessions, ClickTab(s) PROVE TabsOfSelectedLab'
  BY <1>0, <1>4 DEF ClickTab
<1>5. ASSUME NEW s \in Sessions, ClickClose(s) PROVE TabsOfSelectedLab'
  BY <1>5, CloseTabOfLab DEF ClickClose
<1>6. ASSUME NEW m \in {"topo", "terminal"}, ChangeMode(m) PROVE TabsOfSelectedLab'
  BY <1>0, <1>6 DEF ChangeMode, SetCenterMode
<1>7. ASSUME NEW f \in Fonts, Zoom(f) PROVE TabsOfSelectedLab'
  BY <1>0, <1>7 DEF Zoom
<1>8. ASSUME NEW b \in Boxes, ResizeWindow(b) PROVE TabsOfSelectedLab'
  BY <1>0, <1>8 DEF ResizeWindow
<1>9. ASSUME NEW l \in Labs, OpenLoaded(l) PROVE TabsOfSelectedLab'
  <2>1. PICK where \in {lab, Host} : where = lab
    OBVIOUS
  <2>2. NewTab(where, {}) /\ lab' = lab
    BY <1>9, <2>1 DEF OpenLoaded
  <2> QED
    BY <2>2, NewTabOfLab
<1>10. ASSUME NEW l \in Labs, OpenFails(l) PROVE TabsOfSelectedLab'
  BY <1>0, <1>10 DEF OpenFails
<1>11. ASSUME NEW s \in Sessions, Observe(s) \/ OnOpen(s) PROVE TabsOfSelectedLab'
  BY <1>0, <1>11 DEF Observe, OnOpen
<1>12. ASSUME NEW s \in Sessions, OnClose(s) PROVE TabsOfSelectedLab'
  BY <1>12, CloseTabOfLab DEF OnClose
<1>13. ASSUME NEW s \in Sessions, Serve(s) PROVE TabsOfSelectedLab'
  BY <1>0, <1>13 DEF Serve, Upgrade, StartShell, Resize, EndHandler, ExitShell, EndReader
<1>14. CASE UNCHANGED vars
  BY <1>0, <1>14 DEF vars
<1> QED
  BY <1>1, <1>2, <1>3, <1>4, <1>5, <1>6, <1>7, <1>8, <1>9, <1>10, <1>11, <1>12, <1>13, <1>14
  DEF Next, User, Browser

-----------------------------------------------------------------------------
(* The right tab shows, and has been fitted.  Fitted relates the terminal  *)
(* to the window: it is what SizeInSync lacks on the side of the browser.  *)

Fitted ==
  mode = "terminal" /\ active # NoSession => term[active] = <<box, font>> \/ seen[active] # box

ViewInv == ActiveTabShows /\ Fitted

LEMMA SelectTabShows ==
  ASSUME TypeOK, NEW s \in Sessions, NEW before, SelectTab(s, before),
         s \in tabs', tabs' \subseteq Sessions
  PROVE  ViewInv'
<1>1. /\ active' = s /\ s # NoSession
      /\ \A t \in tabs' : hidden'[t] <=> t # s
  BY NumbersOfSessions DEF SelectTab
<1>2. ASSUME mode' = "terminal" PROVE term'[s] = <<box', font'>>
  <2>1. FitAndSend(before \cup {s}, Sessions)
    BY <1>2 DEF SelectTab
  <2> QED
    BY <2>1 DEF FitAndSend
<1> QED
  BY <1>1, <1>2 DEF ViewInv, ActiveTabShows, Fitted

LEMMA NewTabShows ==
  ASSUME TypeOK, NEW where, NEW before, NewTab(where, before)
  PROVE  ViewInv'
<1>1. /\ seq + 1 \in Sessions /\ tabs \subseteq Sessions
      /\ tabs' = tabs \cup {seq + 1}
      /\ SelectTab(seq + 1, before)
  BY TabsAreSessions DEF NewTab
<1>2. PICK s \in Sessions : s = seq + 1
  BY <1>1
<1>3. SelectTab(s, before) /\ s \in tabs' /\ tabs' \subseteq Sessions
  BY <1>1, <1>2
<1> QED
  BY <1>3, SelectTabShows

LEMMA CloseTabShows ==
  ASSUME TypeOK, ViewInv, NEW s \in Sessions, CloseTab(s)
  PROVE  ViewInv'
<1>1. /\ tabs' = tabs \ {s} /\ tabs \subseteq Sessions
      /\ UNCHANGED <<mode, seen, box, font>>
  BY TabsAreSessions DEF CloseTab
<1>2. PICK next : next = FirstTab(tabs')
  OBVIOUS
<1>3. IF tabs' = {} THEN next = NoSession ELSE next \in tabs'
  <2>1. PICK ts \in SUBSET Sessions : ts = tabs'
    BY <1>1
  <2> QED
    BY <1>2, <2>1, FirstTabIsATab
<1>4. NoSession \notin tabs
  BY <1>1, NumbersOfSessions
<1>5. CASE active # s
  <2>1. UNCHANGED <<active, hidden, term>>
    BY <1>5 DEF CloseTab, KeepSizes
  <2>2. active = NoSession <=> tabs' = {}
    BY <1>1, <1>4, <1>5 DEF ViewInv, ActiveTabShows, TypeOK
  <2> QED
    BY <1>1, <2>1, <2>2 DEF ViewInv, ActiveTabShows, Fitted
<1>6. CASE active = s /\ mode = "terminal" /\ next # NoSession
  <2>1. SelectTab(next, {}) /\ next \in tabs' /\ next \in Sessions
    BY <1>1, <1>2, <1>3, <1>6 DEF CloseTab
  <2> QED
    BY <1>1, <2>1, SelectTabShows
<1>7. CASE active = s /\ ~(mode = "terminal" /\ next # NoSession)
  <2>1. active' = next
    BY <1>2, <1>7 DEF CloseTab
  <2> QED
    BY <1>1, <1>3, <1>4, <1>7, <2>1 DEF ViewInv, ActiveTabShows, Fitted
<1> QED
  BY <1>5, <1>6, <1>7

LEMMA SetCenterModeShows ==
  ASSUME TypeOK, ViewInv, NEW m \in {"topo", "terminal"}, SetCenterMode(m)
  PROVE  ViewInv'
<1>1. tabs \subseteq Sessions /\ NoSession \notin tabs
  BY TabsAreSessions, NumbersOfSessions
<1>2. PICK p : p = Pick
  OBVIOUS
<1>3. CASE m = "terminal" /\ p # NoSession
  <2>1. p \in tabs /\ tabs' = tabs /\ SelectTab(p, {})
    BY <1>2, <1>3, PickIsATab DEF SetCenterMode
  <2> QED
    BY <1>1, <2>1, SelectTabShows
<1>4. CASE m = "terminal" /\ p = NoSession
  <2>1. active = NoSession /\ tabs = {}
    BY <1>2, <1>4 DEF Pick, ViewInv, ActiveTabShows
  <2>2. active' = active /\ tabs' = tabs
    BY <1>2, <1>4 DEF SetCenterMode
  <2> QED
    BY <2>1, <2>2 DEF ViewInv, ActiveTabShows, Fitted
<1>5. CASE m = "topo"
  <2>1. active' = active /\ tabs' = tabs /\ mode' = "topo"
    BY <1>5 DEF SetCenterMode
  <2> QED
    BY <2>1 DEF ViewInv, ActiveTabShows, Fitted
<1> QED
  BY <1>3, <1>4, <1>5

LEMMA ViewNext == TypeOK /\ ViewInv /\ [Next]_vars => ViewInv'
<1> SUFFICES ASSUME TypeOK, ViewInv, [Next]_vars PROVE ViewInv'
  OBVIOUS
<1> USE DEF ui, server, counters
<1>0. ASSUME UNCHANGED <<mode, tabs, active, hidden, term, seen, box, font>> PROVE ViewInv'
  BY <1>0 DEF ViewInv, ActiveTabShows, Fitted
<1>a. /\ tabs \subseteq Sessions
      /\ active \in tabs \cup {NoSession}
      /\ active # NoSession /\ mode = "terminal" => ~hidden[active] /\ Extent(active) = box
  BY TabsAreSessions DEF TypeOK, ViewInv, ActiveTabShows, Extent
<1>1. CASE OpenLive
  BY <1>1, SetCenterModeShows DEF OpenLive
<1>2. ASSUME NEW where, OpenNow(where) PROVE ViewInv'
  BY <1>2, NewTabShows DEF OpenNow
<1>3. ASSUME NEW l \in Labs, SelectLab(l) PROVE ViewInv'
  BY <1>3 DEF SelectLab, SelectNone, ViewInv, ActiveTabShows, Fitted
<1>4. ASSUME NEW s \in Sessions, ClickTab(s) PROVE ViewInv'
  <2>1. PICK before : SelectTab(s, before)
    BY <1>4 DEF ClickTab
  <2> QED
    BY <1>4, <1>a, <2>1, SelectTabShows DEF ClickTab
<1>5. ASSUME NEW s \in Sessions, ClickClose(s) PROVE ViewInv'
  BY <1>5, CloseTabShows DEF ClickClose
<1>6. ASSUME NEW m \in {"topo", "terminal"}, ChangeMode(m) PROVE ViewInv'
  BY <1>6, SetCenterModeShows DEF ChangeMode
<1>7. ASSUME NEW f \in Fonts, Zoom(f) PROVE ViewInv'
  <2>1. FitAndSend(tabs, {active}) /\ active \in tabs
    BY <1>7, <1>a DEF Zoom
  <2>2. term'[active] = <<box', font'>>
    BY <1>a, <2>1 DEF FitAndSend
  <2> QED
    BY <1>7, <2>2 DEF Zoom, ViewInv, ActiveTabShows, Fitted
<1>8. ASSUME NEW b \in Boxes, ResizeWindow(b) PROVE ViewInv'
  <2>1. active # NoSession /\ mode = "terminal" => seen[active] = box
    BY <1>8, <1>a DEF ResizeWindow
  <2> QED
    BY <1>8, <2>1 DEF ResizeWindow, ViewInv, ActiveTabShows, Fitted
<1>9. ASSUME NEW l \in Labs, OpenLoaded(l) PROVE ViewInv'
  <2>1. PICK where : NewTab(where, {})
    BY <1>9 DEF OpenLoaded
  <2> QED
    BY <2>1, NewTabShows
<1>10. ASSUME NEW l \in Labs, OpenFails(l) PROVE ViewInv'
  BY <1>0, <1>10 DEF OpenFails
<1>11. ASSUME NEW s \in Sessions, Observe(s) PROVE ViewInv'
  <2>1. /\ UNCHANGED <<mode, tabs, active, hidden, box, font>>
        /\ seen' = [seen EXCEPT ![s] = Extent(s)]
        /\ s \in tabs
    BY <1>11 DEF Observe
  <2>2. CASE hidden[s] \/ mode # "terminal"
    <3>1. active # s \/ mode # "terminal"
      <4>1. s # NoSession
        BY <1>a, <2>1, NumbersOfSessions
      <4> QED
        BY <1>a, <2>2, <4>1
    <3>2. term'[active] = term[active] \/ mode # "terminal" \/ active = NoSession
      <4>1. CASE hidden[s]
        BY <1>11, <4>1 DEF Observe
      <4>2. CASE ~hidden[s]
        BY <2>2, <4>2
      <4> QED
        BY <4>1, <4>2
    <3>3. active # NoSession /\ mode = "terminal" => seen'[active] = seen[active]
      BY <1>a, <2>1, <3>1 DEF TypeOK
    <3> QED
      BY <2>1, <3>2, <3>3 DEF ViewInv, ActiveTabShows, Fitted
  <2>3. CASE ~hidden[s] /\ mode = "terminal"
    <3>1. s = active
      BY <2>1, <2>3 DEF ViewInv, ActiveTabShows
    <3>2. FitAndSend({s}, {s})
      <4>1. Extent(s) # 0
        BY <2>3 DEF Extent, TypeOK, Boxes
      <4> QED
        BY <1>11, <2>3, <4>1 DEF Observe
    <3>3. term'[s] = <<box', font'>>
      BY <1>a, <3>1, <3>2 DEF FitAndSend
    <3> QED
      BY <2>1, <3>1, <3>3 DEF ViewInv, ActiveTabShows, Fitted
  <2> QED
    BY <2>2, <2>3
<1>12. ASSUME NEW s \in Sessions, OnOpen(s) PROVE ViewInv'
  <2>1. /\ UNCHANGED <<mode, tabs, active, hidden, seen, box, font>>
        /\ term' = [term EXCEPT ![s] = IF Extent(s) # 0 THEN <<Extent(s), font>> ELSE @]
    BY <1>12 DEF OnOpen
  <2>2. ASSUME active # NoSession, mode = "terminal"
        PROVE  term'[active] = term[active] \/ term'[active] = <<box, font>>
    <3>1. Extent(active) = box /\ active \in Sessions
      BY <1>a, <2>2
    <3> QED
      BY <2>1, <3>1 DEF TypeOK
  <2> QED
    BY <2>1, <2>2 DEF ViewInv, ActiveTabShows, Fitted
<1>13. ASSUME NEW s \in Sessions, OnClose(s) PROVE ViewInv'
  BY <1>13, CloseTabShows DEF OnClose
<1>14. ASSUME NEW s \in Sessions, Serve(s) PROVE ViewInv'
  BY <1>0, <1>14 DEF Serve, Upgrade, StartShell, Resize, EndHandler, ExitShell, EndReader
<1>15. CASE UNCHANGED vars
  BY <1>0, <1>15 DEF vars
<1> QED
  BY <1>1, <1>2, <1>3, <1>4, <1>5, <1>6, <1>7, <1>8, <1>9, <1>10, <1>11, <1>12, <1>13, <1>14, <1>15
  DEF Next, User, Browser

LEMMA ViewInvariant == Spec => [](TabsOfSelectedLab /\ ViewInv)
<1>1. Init => TabsOfSelectedLab /\ ViewInv
  BY DEF Init, TabsOfSelectedLab, ViewInv, ActiveTabShows, Fitted
<1> QED
  BY <1>1, LabNext, ViewNext, TypeInvariant, PTL DEF Spec

(* TabsConsistent: whatever is opened late or closed by either side, for   *)
(* any number of terminals, the tabs are of the lab and the right one shows.*)
THEOREM TabsStayConsistent == Spec => []TabsConsistent
<1>1. TabsOfSelectedLab /\ ViewInv => TabsConsistent
  BY DEF ViewInv, TabsConsistent
<1> QED
  BY <1>1, ViewInvariant, PTL

-----------------------------------------------------------------------------
(* Sizes.  Synced is what SizeInSync lacks on the side of the server: the  *)
(* last message on its way, or else the pty, has the terminal's size; and  *)
(* a shell that starts late, with a size of its own, has a message ahead.  *)

Told(s) == IF sent[s] # <<>> THEN sent[s][Len(sent[s])] ELSE pty[s]

SyncedAt(s) == sock[s] = "open" =>
  /\ handler[s] # "none"
  /\ handler[s] = "starting" => sent[s] # <<>>
  /\ handler[s] \in {"starting", "reading"} => Told(s) = term[s]

Synced == \A s \in Sessions : SyncedAt(s)

LEMMA LastAppended ==
  ASSUME NEW q \in Seq(AllSizes), NEW size
  PROVE  LET r == Append(q, size) IN r # <<>> /\ r[Len(r)] = size
OBVIOUS

LEMMA LastOfTail ==
  ASSUME NEW q \in Seq(AllSizes), q # <<>>
  PROVE  IF Tail(q) # <<>> THEN Tail(q)[Len(Tail(q))] = q[Len(q)] ELSE Head(q) = q[Len(q)]
<1>1. /\ Len(q) \in Nat /\ Len(q) > 0
      /\ Tail(q) \in Seq(AllSizes)
      /\ Len(Tail(q)) = Len(q) - 1
      /\ \A i \in 1 .. Len(Tail(q)) : Tail(q)[i] = q[i + 1]
  BY HeadTailProperties, LenProperties, EmptySeq
<1>2. CASE Tail(q) = <<>>
  <2>1. Len(q) = 1
    <3>1. Len(Tail(q)) = Len(<<>>)
      BY <1>2, Zenon
    <3>2. Len(<<>>) = 0
      OBVIOUS
    <3>3. PICK n, m : n \in Nat /\ n = Len(q) /\ m = Len(Tail(q))
      BY <1>1
    <3>4. n \in Nat /\ m = n - 1 /\ m = 0
      BY <1>1, <3>1, <3>2, <3>3, Zenon
    <3>5. n = 1
      BY <3>4
    <3> QED
      BY <3>3, <3>5
  <2>2. Head(q) = q[1]
    BY DEF Head
  <2> QED
    BY <1>2, <2>1, <2>2
<1>3. CASE Tail(q) # <<>>
  <2>1. Len(Tail(q)) \in Nat \ {0}
    BY <1>1, <1>3, EmptySeq
  <2>2. Len(q) - 1 \in 1 .. Len(Tail(q)) /\ (Len(q) - 1) + 1 = Len(q)
    BY <1>1, <2>1
  <2>3. PICK k : k = Len(q) - 1
    OBVIOUS
  <2>4. k \in 1 .. Len(Tail(q)) /\ k + 1 = Len(q) /\ Len(Tail(q)) = k
    BY <1>1, <2>2, <2>3
  <2>5. Tail(q)[k] = q[k + 1]
    BY <1>1, <2>4
  <2> QED
    BY <1>3, <2>4, <2>5
<1> QED
  BY <1>2, <1>3

(* Messages follow every change of a terminal whose socket is open.        *)
LEMMA SentSyncs ==
  ASSUME TypeOK, Synced, NEW ss, SendResize(ss),
         \A s \in Sessions \ ss : term'[s] = term[s],
         \A s \in Sessions : sock'[s] = "open" => sock[s] = "open",
         UNCHANGED <<handler, pty>>
  PROVE  Synced'
<1> SUFFICES ASSUME NEW s \in Sessions, sock'[s] = "open" PROVE SyncedAt(s)'
  BY DEF Synced, SyncedAt
<1>1. sock[s] = "open" /\ SyncedAt(s) /\ handler'[s] = handler[s] /\ pty'[s] = pty[s]
  BY DEF Synced
<1>2. CASE s \in ss
  <2>1. sent'[s] = Append(sent[s], term'[s]) /\ sent[s] \in Seq(AllSizes)
    BY <1>1, <1>2 DEF SendResize, TypeOK, AllSizes
  <2>2. sent'[s] # <<>> /\ sent'[s][Len(sent'[s])] = term'[s]
    BY <2>1, LastAppended
  <2> QED
    BY <1>1, <2>2 DEF SyncedAt, Told
<1>3. CASE s \notin ss
  <2>1. sent'[s] = sent[s] /\ term'[s] = term[s]
    BY <1>3 DEF SendResize
  <2> QED
    BY <1>1, <2>1 DEF SyncedAt, Told
<1> QED
  BY <1>2, <1>3

LEMMA FitAndSendSyncs ==
  ASSUME TypeOK, Synced, NEW ss, NEW visible, FitAndSend(ss, visible),
         \A s \in Sessions : sock'[s] = "open" => sock[s] = "open",
         UNCHANGED <<handler, pty>>
  PROVE  Synced'
<1>1. SendResize(ss) /\ \A s \in Sessions \ ss : term'[s] = term[s]
  BY DEF FitAndSend
<1> QED
  BY <1>1, SentSyncs

LEMMA KeepSizesSyncs ==
  ASSUME Synced, UNCHANGED <<term, sent>>,
         \A s \in Sessions : sock'[s] = "open" => sock[s] = "open",
         UNCHANGED <<handler, pty>>
  PROVE  Synced'
BY DEF Synced, SyncedAt, Told

LEMMA NewTabSyncs ==
  ASSUME TypeOK, Synced, NEW where, NEW before, NewTab(where, before), UNCHANGED <<handler, pty>>
  PROVE  Synced'
<1>1. PICK ss, visible : FitAndSend(ss, visible)
  BY DEF NewTab, SelectTab
<1>2. \A s \in Sessions : sock'[s] = "open" => sock[s] = "open"
  BY DEF NewTab, TypeOK
<1> QED
  BY <1>1, <1>2, FitAndSendSyncs

LEMMA CloseTabSyncs ==
  ASSUME TypeOK, Synced, NEW s, CloseTab(s), UNCHANGED <<handler, pty>>
  PROVE  Synced'
<1>1. \A r \in Sessions : sock'[r] = "open" => sock[r] = "open"
  BY DEF CloseTab, TypeOK
<1>2. KeepSizes \/ \E ss, visible : FitAndSend(ss, visible)
  <2>1. CASE active # s
    BY <2>1 DEF CloseTab
  <2>2. CASE active = s /\ mode = "terminal" /\ FirstTab(tabs') # NoSession
    BY <2>2 DEF CloseTab, SelectTab
  <2>3. CASE active = s /\ ~(mode = "terminal" /\ FirstTab(tabs') # NoSession)
    BY <2>3 DEF CloseTab
  <2> QED
    BY <2>1, <2>2, <2>3
<1> QED
  BY <1>1, <1>2, FitAndSendSyncs, KeepSizesSyncs DEF KeepSizes

LEMMA SetCenterModeSyncs ==
  ASSUME TypeOK, Synced, NEW m, SetCenterMode(m), UNCHANGED <<handler, pty>>
  PROVE  Synced'
<1>1. \A r \in Sessions : sock'[r] = "open" => sock[r] = "open"
  BY DEF SetCenterMode
<1>2. KeepSizes \/ \E ss, visible : FitAndSend(ss, visible)
  BY DEF SetCenterMode, SelectTab
<1> QED
  BY <1>1, <1>2, FitAndSendSyncs, KeepSizesSyncs DEF KeepSizes

LEMMA SyncedNext == TypeOK /\ Synced /\ [Next]_vars => Synced'
<1> SUFFICES ASSUME TypeOK, Synced, [Next]_vars PROVE Synced'
  OBVIOUS
<1> USE DEF ui, server, counters
<1>0. ASSUME UNCHANGED <<term, sent, sock, handler, pty>> PROVE Synced'
  BY <1>0 DEF Synced, SyncedAt, Told
<1>1. CASE OpenLive
  BY <1>1, SetCenterModeSyncs DEF OpenLive
<1>2. ASSUME NEW where, OpenNow(where) PROVE Synced'
  BY <1>2, NewTabSyncs DEF OpenNow
<1>3. ASSUME NEW l \in Labs, SelectLab(l) PROVE Synced'
  <2>1. \A s \in Sessions : sock'[s] = "open" => sock[s] = "open"
    BY <1>3 DEF SelectLab
  <2> QED
    BY <1>3, <2>1, KeepSizesSyncs DEF SelectLab, SelectNone, KeepSizes
<1>4. ASSUME NEW s \in Sessions, ClickTab(s) PROVE Synced'
  <2>1. PICK ss, visible : FitAndSend(ss, visible)
    BY <1>4 DEF ClickTab, SelectTab
  <2> QED
    BY <1>4, <2>1, FitAndSendSyncs DEF ClickTab
<1>5. ASSUME NEW s \in Sessions, ClickClose(s) PROVE Synced'
  BY <1>5, CloseTabSyncs DEF ClickClose
<1>6. ASSUME NEW m \in {"topo", "terminal"}, ChangeMode(m) PROVE Synced'
  BY <1>6, SetCenterModeSyncs DEF ChangeMode
<1>7. ASSUME NEW f \in Fonts, Zoom(f) PROVE Synced'
  BY <1>7, FitAndSendSyncs DEF Zoom
<1>8. ASSUME NEW b \in Boxes, ResizeWindow(b) PROVE Synced'
  <2>1. PICK ss : SendResize(ss)
    BY <1>8 DEF ResizeWindow
  <2> QED
    BY <1>8, <2>1, SentSyncs DEF ResizeWindow
<1>9. ASSUME NEW l \in Labs, OpenLoaded(l) PROVE Synced'
  <2>1. PICK where : NewTab(where, {})
    BY <1>9 DEF OpenLoaded
  <2> QED
    BY <1>9, <2>1, NewTabSyncs DEF OpenLoaded
<1>10. ASSUME NEW l \in Labs, OpenFails(l) PROVE Synced'
  BY <1>0, <1>10 DEF OpenFails
<1>11. ASSUME NEW s \in Sessions, Observe(s) PROVE Synced'
  <2>1. CASE hidden[s]
    BY <1>0, <1>11, <2>1 DEF Observe
  <2>2. CASE ~hidden[s]
    <3>1. PICK ss, visible : FitAndSend(ss, visible)
      BY <1>11, <2>2 DEF Observe
    <3> QED
      BY <1>11, <3>1, FitAndSendSyncs DEF Observe
  <2> QED
    BY <2>1, <2>2
<1>12. ASSUME NEW s \in Sessions, OnOpen(s) PROVE Synced'
  <2> SUFFICES ASSUME NEW r \in Sessions, sock'[r] = "open" PROVE SyncedAt(r)'
    BY DEF Synced, SyncedAt
  <2>1. CASE r = s
    <3>1. sent'[s] = Append(sent[s], term'[s]) /\ sent[s] \in Seq(AllSizes)
      BY <1>12 DEF OnOpen, TypeOK, AllSizes
    <3>2. sent'[s] # <<>> /\ sent'[s][Len(sent'[s])] = term'[s]
      BY <3>1, LastAppended
    <3>3. handler'[s] # "none"
      BY <1>12 DEF OnOpen
    <3> QED
      BY <2>1, <3>2, <3>3 DEF SyncedAt, Told
  <2>2. CASE r # s
    <3>1. /\ sock[r] = "open" /\ term'[r] = term[r] /\ sent'[r] = sent[r]
          /\ handler'[r] = handler[r] /\ pty'[r] = pty[r]
      BY <1>12, <2>2 DEF OnOpen, TypeOK
    <3>2. SyncedAt(r)
      BY DEF Synced
    <3> QED
      BY <3>1, <3>2 DEF SyncedAt, Told
  <2> QED
    BY <2>1, <2>2
<1>13. ASSUME NEW s \in Sessions, OnClose(s) PROVE Synced'
  BY <1>13, CloseTabSyncs DEF OnClose
<1>14. ASSUME NEW s \in Sessions, Upgrade(s) PROVE Synced'
  <2>1. sock[s] # "open"
    BY <1>14 DEF Upgrade, Synced, SyncedAt
  <2> QED
    BY <1>14, <2>1 DEF Upgrade, Synced, SyncedAt, Told, TypeOK
<1>15. ASSUME NEW s \in Sessions, StartShell(s) PROVE Synced'
  <2> SUFFICES ASSUME NEW r \in Sessions, sock'[r] = "open" PROVE SyncedAt(r)'
    BY DEF Synced, SyncedAt
  <2>1. SyncedAt(r) /\ sock[r] = "open" /\ sent'[r] = sent[r] /\ term'[r] = term[r]
    BY <1>15 DEF StartShell, Synced
  <2>2. CASE r = s
    <3>1. handler[r] = "starting" /\ handler'[r] \in {"reading", "done"}
      BY <1>15, <2>2 DEF StartShell, TypeOK
    <3> QED
      BY <2>1, <3>1 DEF SyncedAt, Told
  <2>3. CASE r # s
    <3>1. handler'[r] = handler[r] /\ pty'[r] = pty[r]
      BY <1>15, <2>3 DEF StartShell, TypeOK
    <3> QED
      BY <2>1, <3>1 DEF SyncedAt, Told
  <2> QED
    BY <2>2, <2>3
<1>16. ASSUME NEW s \in Sessions, Resize(s) PROVE Synced'
  <2> SUFFICES ASSUME NEW r \in Sessions, sock'[r] = "open" PROVE SyncedAt(r)'
    BY DEF Synced, SyncedAt
  <2>1. SyncedAt(r) /\ sock[r] = "open" /\ handler'[r] = handler[r] /\ term'[r] = term[r]
    BY <1>16 DEF Resize, Synced
  <2>2. CASE r = s
    <3>1. /\ handler[r] = "reading" /\ sent[r] \in Seq(AllSizes) /\ sent[r] # <<>>
          /\ sent'[r] = Tail(sent[r]) /\ pty'[r] = Head(sent[r])
      BY <1>16, <2>2 DEF Resize, TypeOK, AllSizes
    <3>2. IF sent'[r] # <<>> THEN sent'[r][Len(sent'[r])] = sent[r][Len(sent[r])]
                             ELSE pty'[r] = sent[r][Len(sent[r])]
      BY <3>1, LastOfTail
    <3>3. sent[r][Len(sent[r])] = term[r]
      BY <2>1, <3>1 DEF SyncedAt, Told
    <3> QED
      BY <2>1, <3>1, <3>2, <3>3 DEF SyncedAt, Told
  <2>3. CASE r # s
    <3>1. sent'[r] = sent[r] /\ pty'[r] = pty[r]
      BY <1>16, <2>3 DEF Resize, TypeOK
    <3> QED
      BY <2>1, <3>1 DEF SyncedAt, Told
  <2> QED
    BY <2>2, <2>3
<1>17. ASSUME NEW s \in Sessions, EndHandler(s) PROVE Synced'
  BY <1>17 DEF EndHandler, Synced, SyncedAt, Told, TypeOK
<1>18. ASSUME NEW s \in Sessions, ExitShell(s) \/ EndReader(s) PROVE Synced'
  BY <1>0, <1>18 DEF ExitShell, EndReader
<1>19. CASE UNCHANGED vars
  BY <1>0, <1>19 DEF vars
<1> QED
  BY <1>1, <1>2, <1>3, <1>4, <1>5, <1>6, <1>7, <1>8, <1>9, <1>10, <1>11, <1>12, <1>13, <1>14,
     <1>15, <1>16, <1>17, <1>18, <1>19
  DEF Next, User, Browser, Serve

(* SizeInSync, for any number of terminals, fonts and resizes in any order:*)
(* when the messages are read, the shell on display fits its container.    *)
THEOREM SizesEndInSync == Spec => []SizeInSync
<1>1. Init => Synced
  BY DEF Init, Synced, SyncedAt
<1>2. TypeOK /\ ViewInv /\ Synced => SizeInSync
  <2> SUFFICES ASSUME TypeOK, Fitted, Synced, mode = "terminal", active # NoSession,
                      sock[active] = "open", handler[active] = "reading",
                      sent[active] = <<>>, seen[active] = box
               PROVE  pty[active] = <<box, font>>
    BY DEF SizeInSync, ViewInv
  <2>1. active \in Sessions
    BY TabsAreSessions
  <2>2. pty[active] = term[active]
    BY <2>1 DEF Synced, SyncedAt, Told
  <2> QED
    BY <2>2 DEF Fitted
<1> QED
  BY <1>1, <1>2, SyncedNext, TypeInvariant, ViewInvariant, PTL DEF Spec
=============================================================================
