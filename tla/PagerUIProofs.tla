---------------------------- MODULE PagerUIProofs ----------------------------
(***************************************************************************)
(* Proofs about the screens and the loop of one pager, for any limits of   *)
(* the line, the name, the channels and the history.                       *)
(***************************************************************************)
EXTENDS PagerUI, SequenceTheorems, TLAPS

(***************************************************************************)
(* Drawing                                                                 *)
(***************************************************************************)
\* A frame is of the current screen.
LEMMA ViewScreen == View.screen = state
BY DEF View, ChatView

\* After a redraw the last frame shows what there is to show.
LEMMA RedrawShows ==
  ASSUME NEW forced \in BOOLEAN, Redraw(forced)
  PROVE  /\ panel'.view = View'
         /\ panel'.view.screen = state'
         /\ panel'.full \in BOOLEAN
<1>1. View'.screen = state'
  BY DEF View, ChatView
<1> QED  BY <1>1 DEF Redraw

\* Whatever stops the program, only files, picture and radio are left.
LEMMA StopsLeave == Stops => Leaves("down") \/ Leaves("stopped") \/ Leaves("ended")
BY DEF Stops, DoReboot, Fatal, Killed, PowerCut

(***************************************************************************)
(* Saved edits                                                             *)
(***************************************************************************)
\* Each key handler either saves, or stays or ends in the menu or an editor, or
\* touches no configuration.
LEMMA KeysSaveEdits == EditsAreSaved /\ Key => EditsAreSaved'
<1> SUFFICES ASSUME EditsAreSaved, Key
             PROVE  EditsAreSaved'
  OBVIOUS
<1> USE DEF EditsAreSaved, configVars, screenVars, KeepConfig, SaveConfig, Goes
<1>1. CASE WifiKey \/ IgnoredKey \/ ChatEnter \/ ChatBackspace
           \/ \E c \in Char : ChatType(c)
  BY <1>1 DEF WifiKey, IgnoredKey, ChatEnter, ChatBackspace, ChatType
<1>2. CASE ChatMenu \/ \E to \in 0..MaxHistory : ChatScroll(to)
  BY <1>2 DEF ChatMenu, ChatScroll
<1>3. CASE MenuStays \/ MenuEdit \/ \E to \in 0..PROF_COUNT : MenuMove(to)
  BY <1>3 DEF MenuStays, MenuEdit, MenuMove
<1>4. CASE MenuSilent \/ MenuReboot \/ MenuClose
  BY <1>4 DEF MenuSilent, MenuReboot, MenuClose
<1>5. CASE RebootConfirm \/ RebootCancel \/ SleepKey
  BY <1>5 DEF RebootConfirm, RebootCancel, SleepKey
<1>6. CASE \/ \E n \in 0..MaxName : NameEdit(n)
           \/ \E c \in 1..MaxChannel : ChannelEdit(c)
  BY <1>6 DEF NameEdit, ChannelEdit
<1>7. CASE EditDone \/ EditLeft
  BY <1>7 DEF EditDone, EditLeft
<1> QED  BY <1>1, <1>2, <1>3, <1>4, <1>5, <1>6, <1>7 DEF Key

\* The loop never touches the configuration and never opens an editor.
LEMMA TurnKeepsEdits ==
  ASSUME Turn
  PROVE  /\ UNCHANGED configVars
         /\ state' = state \/ {state, state'} = {"chat", "sleep"}
<1>1. CASE DrainEnds \/ DoSend \/ DoToggleWifi \/ DoSilentChanged \/ DoWake \/ DoNothing
  BY <1>1 DEF DrainEnds, DoSend, DoToggleWifi, DoSilentChanged, DoWake, DoNothing, screenVars
<1>2. CASE SettleDraws \/ SettleWaits \/ ReceiveNothing \/ StatusChange \/ NoTimeout \/ StayAwake
  BY <1>2 DEF SettleDraws, SettleWaits, ReceiveNothing, StatusChange, NoTimeout, StayAwake, screenVars
<1>3. CASE ReceiveNew \/ FallAsleep
  BY <1>3 DEF ReceiveNew, FallAsleep
<1> QED  BY <1>1, <1>2, <1>3 DEF Turn

\* Outside the menu and its editors, the configuration in force is the one on
\* disk, in every reachable state.
THEOREM EditsHold == Spec => []EditsAreSaved
<1>1. Init => EditsAreSaved
  BY DEF Init, EditsAreSaved
<1>2. EditsAreSaved /\ [Next]_vars => EditsAreSaved'
  <2> SUFFICES ASSUME EditsAreSaved, [Next]_vars
               PROVE  EditsAreSaved'
    OBVIOUS
  <2>1. CASE Key
    BY <2>1, KeysSaveEdits
  <2>2. CASE Turn
    <3>1. UNCHANGED configVars
      BY <2>2, TurnKeepsEdits
    <3>2. state' = state \/ state \in {"chat", "sleep"}
      BY <2>2, TurnKeepsEdits
    <3> QED  BY <3>1, <3>2 DEF EditsAreSaved, configVars
  <2>3. CASE Stops
    BY <2>3 DEF EditsAreSaved, Stops, DoReboot, Fatal, Killed, PowerCut, Leaves
  <2>4. CASE Starts
    BY <2>4 DEF EditsAreSaved, Starts, Restart, PowerScript, WindowOpens, WindowCloses, Boot,
                screenVars, configVars
  <2>5. CASE UNCHANGED vars
    BY <2>5 DEF EditsAreSaved, vars
  <2> QED  BY <2>1, <2>2, <2>3, <2>4, <2>5 DEF Next
<1> QED  BY <1>1, <1>2, PTL DEF Spec

(***************************************************************************)
(* The picture                                                             *)
(***************************************************************************)
\* A step that redraws makes the picture current.
LEMMA RedrawIsCurrent ==
  ASSUME NEW forced \in BOOLEAN, Redraw(forced)
  PROVE  PanelIsCurrent'
BY RedrawShows DEF PanelIsCurrent

\* A step that changes at most the line, the scroll position and the history, of
\* these the history not in the chat, needs no redraw.
LEMMA NoRedrawNeeded ==
  ASSUME PanelIsCurrent, Running,
         UNCHANGED <<state, sel, config, wifiOn, panel>>,
         state = "chat" => UNCHANGED historyVars
  PROVE  PanelIsCurrent'
<1>1. Apart(View') = Apart(View)
  <2>1. CASE state = "chat"
    <3>1. View = ChatView /\ View' = ChatView'
      BY <2>1 DEF View
    <3>2. Apart(ChatView) = ChatButInput(ChatView) /\ Apart(ChatView') = ChatButInput(ChatView')
      BY DEF Apart, ChatView
    <3>3. ChatButInput(ChatView') = ChatButInput(ChatView)
      BY <2>1 DEF ChatButInput, ChatView, historyVars
    <3> QED  BY <3>1, <3>2, <3>3
  <2>2. CASE state # "chat"
    <3>1. View' = View
      BY <2>2 DEF View
    <3> QED  BY <3>1
  <2> QED  BY <2>1, <2>2
<1> QED  BY <1>1 DEF PanelIsCurrent, Apart

\* The key handlers draw what they change, all but the typing in the chat.
LEMMA KeysDraw == PanelIsCurrent /\ Key => PanelIsCurrent'
<1> SUFFICES ASSUME PanelIsCurrent, Key
             PROVE  PanelIsCurrent'
  OBVIOUS
<1>0. InDrain => Running /\ UNCHANGED <<historyVars, wifiOn>>
  BY DEF InDrain, Running
<1>1. CASE WifiKey \/ IgnoredKey \/ ChatEnter \/ ChatBackspace
           \/ \E c \in Char : ChatType(c)
  <2>1. InDrain /\ UNCHANGED <<state, sel, config, panel>>
    BY <1>1 DEF WifiKey, IgnoredKey, ChatEnter, ChatBackspace, ChatType, screenVars, configVars
  <2> QED  BY <1>0, <2>1, NoRedrawNeeded
<1>2. CASE \/ MenuStays \/ MenuSilent
           \/ \E to \in 0..MaxHistory : ChatScroll(to)
           \/ \E to \in 0..PROF_COUNT : MenuMove(to)
           \/ \E n \in 0..MaxName : NameEdit(n)
           \/ \E c \in 1..MaxChannel : ChannelEdit(c)
  <2>1. Redraw(FALSE)
    BY <1>2 DEF MenuStays, MenuSilent, ChatScroll, MenuMove, NameEdit, ChannelEdit
  <2> QED  BY <2>1, RedrawIsCurrent
<1>3. CASE ChatMenu \/ MenuEdit \/ MenuReboot \/ MenuClose \/ RebootConfirm \/ RebootCancel
           \/ EditDone \/ EditLeft
  <2>1. Redraw(FALSE)
    BY <1>3 DEF ChatMenu, MenuEdit, MenuReboot, MenuClose, RebootConfirm, RebootCancel,
                EditDone, EditLeft, Goes
  <2> QED  BY <2>1, RedrawIsCurrent
<1>4. CASE SleepKey
  <2>1. Redraw(TRUE)
    BY <1>4 DEF SleepKey
  <2> QED  BY <2>1, RedrawIsCurrent
<1> QED  BY <1>1, <1>2, <1>3, <1>4 DEF Key

\* The loop draws what it changes; asleep, a changed status shows nowhere.
LEMMA TurnDraws == PanelIsCurrent /\ Turn => PanelIsCurrent'
<1> SUFFICES ASSUME PanelIsCurrent, Turn
             PROVE  PanelIsCurrent'
  OBVIOUS
<1>1. CASE \/ DrainEnds \/ DoSilentChanged \/ DoWake \/ DoNothing
           \/ SettleWaits \/ ReceiveNothing \/ NoTimeout \/ StayAwake
  <2>1. Running /\ UNCHANGED <<screenVars, configVars, historyVars, wifiOn, panel>>
    BY <1>1 DEF DrainEnds, DoSilentChanged, DoWake, DoNothing, Acts, SettleWaits,
                ReceiveNothing, NoTimeout, StayAwake, Running
  <2> QED  BY <2>1, NoRedrawNeeded DEF screenVars, configVars
<1>2. CASE DoSend
  <2>1. Redraw(~Blank(input))
    BY <1>2 DEF DoSend
  <2>2. CASE Blank(input)
    <3>1. Redraw(FALSE)
      BY <2>1, <2>2 DEF Redraw
    <3> QED  BY <3>1, RedrawIsCurrent
  <2>3. CASE ~Blank(input)
    <3>1. Redraw(TRUE)
      BY <2>1, <2>3 DEF Redraw
    <3> QED  BY <3>1, RedrawIsCurrent
  <2> QED  BY <2>2, <2>3
<1>3. CASE DoToggleWifi \/ SettleDraws \/ FallAsleep
  <2>1. Redraw(FALSE)
    BY <1>3 DEF DoToggleWifi, SettleDraws, FallAsleep
  <2> QED  BY <2>1, RedrawIsCurrent
<1>4. CASE ReceiveNew
  <2>1. Redraw(TRUE)
    BY <1>4 DEF ReceiveNew
  <2> QED  BY <2>1, RedrawIsCurrent
<1>5. CASE StatusChange
  <2>1. CASE state = "sleep"
    <3>1. Running /\ UNCHANGED <<screenVars, configVars, wifiOn, panel>>
      BY <1>5, <2>1 DEF StatusChange, Running
    <3> QED  BY <2>1, <3>1, NoRedrawNeeded DEF screenVars, configVars
  <2>2. CASE state # "sleep"
    <3>1. Redraw(FALSE)
      BY <1>5, <2>2 DEF StatusChange
    <3> QED  BY <3>1, RedrawIsCurrent
  <2> QED  BY <2>1, <2>2
<1> QED  BY <1>1, <1>2, <1>3, <1>4, <1>5 DEF Turn

\* While the program runs, the last frame drawn shows all there is to show but
\* what was typed since.
THEOREM PictureHolds == Spec => []PanelIsCurrent
<1>1. Init => PanelIsCurrent
  BY DEF Init, PanelIsCurrent, Running
<1>2. PanelIsCurrent /\ [Next]_vars => PanelIsCurrent'
  <2> SUFFICES ASSUME PanelIsCurrent, [Next]_vars
               PROVE  PanelIsCurrent'
    OBVIOUS
  <2>1. CASE Key
    BY <2>1, KeysDraw
  <2>2. CASE Turn
    BY <2>2, TurnDraws
  <2>3. CASE Stops
    BY <2>3 DEF PanelIsCurrent, Running, Stops, DoReboot, Fatal, Killed, PowerCut, Leaves
  <2>4. CASE Restart \/ PowerScript
    BY <2>4 DEF PanelIsCurrent, Running, Restart, PowerScript
  <2>5. CASE WindowOpens \/ WindowCloses
    <3>1. UNCHANGED <<pc, screenVars, configVars, historyVars, wifiOn, panel>>
      BY <2>5 DEF WindowOpens, WindowCloses
    <3>2. CASE Running
      BY <3>1, <3>2, NoRedrawNeeded DEF screenVars, configVars
    <3>3. CASE ~Running
      BY <3>1, <3>3 DEF PanelIsCurrent, Running
    <3> QED  BY <3>2, <3>3
  <2>6. CASE Boot
    BY <2>6 DEF Boot, PanelIsCurrent
  <2>7. CASE UNCHANGED vars
    <3>1. UNCHANGED <<pc, panel>> /\ View' = View
      BY <2>7 DEF vars, View, ChatView
    <3> QED  BY <3>1 DEF PanelIsCurrent, Running, Apart
  <2> QED  BY <2>1, <2>2, <2>3, <2>4, <2>5, <2>6, <2>7 DEF Next, Starts
<1> QED  BY <1>1, <1>2, PTL DEF Spec

(***************************************************************************)
(* The scrolled view                                                       *)
(***************************************************************************)
\* ViewInHistory with what makes it inductive: the counters are numbers, and a
\* program that starts, and may find entries missing, starts unscrolled.
ViewInv ==
  /\ count \in Nat /\ scroll \in Nat
  /\ ViewInHistory
  /\ ~Running => scroll = 0

\* A new entry scrolls the view back to the newest.
LEMMA NewEntryView ==
  ASSUME ViewInv, AddMessage
  PROVE  count' \in Nat /\ scroll' = 0
BY LimitsAssumption DEF ViewInv, AddMessage, Least

\* The view stays within the history of a running pager.
LEMMA ViewRuns == ViewInv /\ (Key \/ Turn) => ViewInv'
<1> SUFFICES ASSUME ViewInv, Key \/ Turn
             PROVE  ViewInv'
  OBVIOUS
<1> USE DEF ViewInv, ViewInHistory, screenVars, historyVars
<1>1. CASE \E to \in 0..MaxHistory : ChatScroll(to)
  <2> PICK to \in 0..MaxHistory : ChatScroll(to)
    BY <1>1
  <2>1. InDrain /\ UNCHANGED <<pc, count>> /\ scroll' = to
    BY DEF ChatScroll, InDrain
  <2>2. to \in Nat
    BY LimitsAssumption
  <2>3. to < count \/ (scroll > 0 /\ to < scroll)
    BY <2>2 DEF ChatScroll
  <2> QED  BY <2>1, <2>2, <2>3 DEF InDrain, Running
<1>2. CASE \E c \in Char : ChatType(c)
  BY <1>2 DEF ChatType, InDrain, Running
<1>3. CASE WifiKey \/ IgnoredKey \/ ChatEnter \/ ChatBackspace \/ ChatMenu
  BY <1>3 DEF WifiKey, IgnoredKey, ChatEnter, ChatBackspace, ChatMenu, InDrain, Running
<1>4. CASE \/ MenuStays \/ MenuEdit \/ MenuSilent \/ MenuReboot \/ MenuClose
           \/ \E to \in 0..PROF_COUNT : MenuMove(to)
  BY <1>4 DEF MenuStays, MenuEdit, MenuSilent, MenuReboot, MenuClose, MenuMove, InDrain, Running
<1>5. CASE \/ RebootConfirm \/ RebootCancel \/ EditDone \/ EditLeft \/ SleepKey
           \/ \E n \in 0..MaxName : NameEdit(n)
           \/ \E c \in 1..MaxChannel : ChannelEdit(c)
  BY <1>5 DEF RebootConfirm, RebootCancel, EditDone, EditLeft, SleepKey, NameEdit, ChannelEdit,
              InDrain, Running
<1>6. CASE DoSend
  <2>1. count' \in Nat /\ scroll' \in Nat /\ (scroll' = 0 \/ UNCHANGED <<count, scroll>>)
    BY <1>6, NewEntryView DEF DoSend
  <2>2. pc = "act" /\ pc' = "settle"
    BY <1>6 DEF DoSend, Acts, Proceeds
  <2> QED  BY <2>1, <2>2 DEF Running
<1>7. CASE ReceiveNew
  <2>1. pc' = "acks"
    BY <1>7 DEF ReceiveNew, Proceeds
  <2> QED  BY <1>7, <2>1, NewEntryView DEF ReceiveNew, Running
<1>8. CASE DrainEnds \/ DoToggleWifi \/ DoSilentChanged \/ DoWake \/ DoNothing
  BY <1>8 DEF DrainEnds, DoToggleWifi, DoSilentChanged, DoWake, DoNothing, Acts, Proceeds, Running
<1>9. CASE \/ SettleDraws \/ SettleWaits \/ ReceiveNothing \/ StatusChange \/ NoTimeout
           \/ FallAsleep \/ StayAwake
  BY <1>9 DEF SettleDraws, SettleWaits, ReceiveNothing, StatusChange, NoTimeout, FallAsleep,
              StayAwake, Proceeds, Running
<1> QED  BY <1>1, <1>2, <1>3, <1>4, <1>5, <1>6, <1>7, <1>8, <1>9 DEF Key, Turn

\* However messages come in, the history is trimmed and the pager restarts, the
\* scrolled chat shows at least one message.
THEOREM ViewHolds == Spec => []ViewInHistory
<1>1. Init => ViewInv
  BY DEF Init, ViewInv, ViewInHistory
<1>2. ViewInv /\ [Next]_vars => ViewInv'
  <2> SUFFICES ASSUME ViewInv, [Next]_vars
               PROVE  ViewInv'
    OBVIOUS
  <2> USE DEF ViewInv, ViewInHistory, screenVars, historyVars
  <2>1. CASE Key \/ Turn
    BY <2>1, ViewRuns
  <2>2. CASE Stops
    BY <2>2, StopsLeave DEF Leaves, Running
  <2>3. CASE Restart \/ PowerScript
    BY <2>3 DEF Restart, PowerScript, Running
  <2>4. CASE WindowOpens \/ WindowCloses
    BY <2>4 DEF WindowOpens, WindowCloses, Running
  <2>5. CASE Boot
    BY <2>5 DEF Boot, Running
  <2>6. CASE UNCHANGED vars
    BY <2>6 DEF vars, Running
  <2> QED  BY <2>1, <2>2, <2>3, <2>4, <2>5, <2>6 DEF Next, Starts
<1>3. ViewInv => ViewInHistory
  BY DEF ViewInv
<1> QED  BY <1>1, <1>2, <1>3, PTL DEF Spec

(***************************************************************************)
(* Types                                                                   *)
(***************************************************************************)
\* TypeOK in the parts that are inductive one by one.
PlaceTypes ==
  /\ pc \in Phase /\ state \in Screen /\ action \in Action
  /\ window \in {"none", "opening", "open"}
RowTypes == sel \in 0..(PROF_COUNT - 1)
LineTypes == input \in Seq(Char) /\ Len(input) <= MaxLine
ConfigTypes == config \in Config /\ saved \in Config
CountTypes == count \in 0..MaxHistory /\ scroll \in 0..MaxHistory
NewsTypes == news \in Version /\ marks \in Mark
FlagTypes ==
  /\ wifiOn \in BOOLEAN /\ typed \in BOOLEAN /\ pending \in BOOLEAN
  /\ muted \in BOOLEAN /\ wifi \in BOOLEAN /\ flag \in BOOLEAN
PanelTypes == panel.view.screen \in Screen /\ panel.full \in BOOLEAN

\* Together they are the types.
LEMMA TypesInParts ==
  TypeOK <=> /\ PlaceTypes /\ RowTypes /\ LineTypes /\ ConfigTypes /\ CountTypes
             /\ NewsTypes /\ FlagTypes /\ PanelTypes
BY DEF TypeOK, PlaceTypes, RowTypes, LineTypes, ConfigTypes, CountTypes, NewsTypes,
       FlagTypes, PanelTypes

\* Phases, screens, actions and the window only take their few values.
LEMMA PlacesKept == PlaceTypes /\ [Next]_vars => PlaceTypes'
<1> SUFFICES ASSUME PlaceTypes, [Next]_vars
             PROVE  PlaceTypes'
  OBVIOUS
<1> USE DEF PlaceTypes, Phase, Screen, Action, None, screenVars, turnVars, outsideVars
<1>1. CASE Key
  BY <1>1 DEF Key, InDrain, Goes, Returns, ReturnsNothing, ReturnsTyping, WifiKey, IgnoredKey,
     ChatEnter, ChatBackspace, ChatType, ChatMenu, ChatScroll, MenuMove, MenuStays, MenuEdit,
     MenuSilent, MenuReboot, MenuClose, RebootConfirm, RebootCancel, NameEdit, ChannelEdit,
     EditDone, EditLeft, SleepKey
<1>2. CASE Turn
  BY <1>2 DEF Turn, Acts, Proceeds, DrainEnds, DoSend, DoToggleWifi, DoSilentChanged, DoWake,
     DoNothing, SettleDraws, SettleWaits, ReceiveNew, ReceiveNothing, StatusChange, NoTimeout,
     FallAsleep, StayAwake
<1>3. CASE Stops
  BY <1>3 DEF Stops, DoReboot, Fatal, Killed, PowerCut, Leaves
<1>4. CASE Starts
  BY <1>4 DEF Starts, Restart, PowerScript, WindowOpens, WindowCloses, Boot
<1>5. CASE UNCHANGED vars
  BY <1>5 DEF vars
<1> QED  BY <1>1, <1>2, <1>3, <1>4, <1>5 DEF Next

\* The selected row stays in the menu.
LEMMA RowKept == RowTypes /\ [Next]_vars => RowTypes'
<1> SUFFICES ASSUME RowTypes, [Next]_vars
             PROVE  RowTypes'
  OBVIOUS
<1>1. \/ sel' = sel \/ sel' = 0
      \/ \E to \in 0..PROF_COUNT : MenuMove(to)
  <2>1. CASE Key
    BY <2>1 DEF Key, WifiKey, IgnoredKey, screenVars,
       ChatEnter, ChatBackspace, ChatType, ChatMenu, ChatScroll, MenuStays, MenuEdit,
       MenuSilent, MenuReboot, MenuClose, RebootConfirm, RebootCancel, NameEdit, ChannelEdit,
       EditDone, EditLeft, SleepKey
  <2>2. CASE Turn
    BY <2>2 DEF Turn, screenVars, DrainEnds, DoSend, DoToggleWifi, DoSilentChanged, DoWake,
       DoNothing, SettleDraws, SettleWaits, ReceiveNew, ReceiveNothing, StatusChange, NoTimeout,
       FallAsleep, StayAwake
  <2>3. CASE Stops \/ Starts
    BY <2>3 DEF Stops, DoReboot, Fatal, Killed, PowerCut, Leaves, Starts, Restart, PowerScript,
       WindowOpens, WindowCloses, Boot, screenVars
  <2>4. CASE UNCHANGED vars
    BY <2>4 DEF vars
  <2> QED  BY <2>1, <2>2, <2>3, <2>4 DEF Next
<1>2. ASSUME NEW to \in 0..PROF_COUNT, MenuMove(to) PROVE RowTypes'
  BY <1>2 DEF MenuMove, RowTypes
<1> QED  BY <1>1, <1>2 DEF RowTypes, PROF_COUNT

\* The input line stays a line of at most MaxLine characters.
LEMMA LineKept == LineTypes /\ [Next]_vars => LineTypes'
<1> SUFFICES ASSUME LineTypes, [Next]_vars
             PROVE  LineTypes'
  OBVIOUS
<1>1. \/ input' = input \/ input' = << >>
      \/ ChatBackspace
      \/ \E c \in Char : ChatType(c)
  <2>1. CASE Key
    BY <2>1 DEF Key, WifiKey, IgnoredKey, screenVars,
       ChatEnter, ChatMenu, ChatScroll, MenuMove, MenuStays, MenuEdit,
       MenuSilent, MenuReboot, MenuClose, RebootConfirm, RebootCancel, NameEdit, ChannelEdit,
       EditDone, EditLeft, SleepKey
  <2>2. CASE Turn
    BY <2>2 DEF Turn, screenVars, DrainEnds, DoSend, DoToggleWifi, DoSilentChanged, DoWake,
       DoNothing, SettleDraws, SettleWaits, ReceiveNew, ReceiveNothing, StatusChange, NoTimeout,
       FallAsleep, StayAwake
  <2>3. CASE Stops \/ Starts
    BY <2>3 DEF Stops, DoReboot, Fatal, Killed, PowerCut, Leaves, Starts, Restart, PowerScript,
       WindowOpens, WindowCloses, Boot, screenVars
  <2>4. CASE UNCHANGED vars
    BY <2>4 DEF vars
  <2> QED  BY <2>1, <2>2, <2>3, <2>4 DEF Next
<1>2. CASE input' = << >>
  BY <1>2, LimitsAssumption DEF LineTypes
<1>3. CASE ChatBackspace
  <2>1. Len(input) \in Nat \ {0} /\ input' = SubSeq(input, 1, Len(input) - 1)
    BY <1>3, EmptySeq DEF ChatBackspace, LineTypes
  <2>2. input' \in Seq(Char) /\ Len(input') = Len(input) - 1
    <3> DEFINE n == Len(input) - 1
    <3>1. n \in Nat /\ 1 \in Int /\ n \in Int
      BY <2>1
    <3>2. \A i \in 1..n : input[i] \in Char
      BY <2>1, LenProperties DEF LineTypes
    <3>3. SubSeq(input, 1, n) \in Seq(Char)
      BY <3>1, <3>2, SubSeqProperties
    <3>4. Len(SubSeq(input, 1, n)) = IF 1 <= n THEN n - 1 + 1 ELSE 0
      BY <3>1, <3>2, SubSeqProperties
    <3>5. Len(SubSeq(input, 1, n)) = n
      BY <3>1, <3>4
    <3> QED  BY <2>1, <3>3, <3>5
  <2> QED  BY <2>1, <2>2, LimitsAssumption DEF LineTypes
<1>4. ASSUME NEW c \in Char, ChatType(c) PROVE LineTypes'
  <2>1. input' = Append(input, c) /\ Len(input) < MaxLine
    BY <1>4 DEF ChatType
  <2>2. input' \in Seq(Char) /\ Len(input') = Len(input) + 1
    BY <2>1, AppendProperties DEF LineTypes
  <2> QED  BY <2>1, <2>2, LimitsAssumption, LenProperties DEF LineTypes
<1> QED  BY <1>1, <1>2, <1>3, <1>4 DEF LineTypes

\* The configuration keeps its fields in range, and the file never holds
\* anything else.
LEMMA ConfigKept == ConfigTypes /\ [Next]_vars => ConfigTypes'
<1> SUFFICES ASSUME ConfigTypes, [Next]_vars
             PROVE  ConfigTypes'
  OBVIOUS
<1> DEFINE Flipped == [config EXCEPT !.silent = ~@]
<1>1. Flipped \in Config
  BY DEF ConfigTypes, Config
<1>2. \/ config' \in {config, saved, saved', Flipped}
      \/ \E n \in 0..MaxName : NameEdit(n)
      \/ \E c \in 1..MaxChannel : ChannelEdit(c)
  <2>1. CASE Key
    BY <2>1 DEF Key, KeepConfig, SaveConfig, configVars, WifiKey, IgnoredKey,
       ChatEnter, ChatBackspace, ChatType, ChatMenu, ChatScroll, MenuMove, MenuStays, MenuEdit,
       MenuSilent, MenuReboot, MenuClose, RebootConfirm, RebootCancel, EditDone, EditLeft, SleepKey
  <2>2. CASE Turn
    BY <2>2, TurnKeepsEdits DEF configVars
  <2>3. CASE Stops \/ Starts
    BY <2>3 DEF Stops, DoReboot, Fatal, Killed, PowerCut, Leaves, Starts, Restart, PowerScript,
       WindowOpens, WindowCloses, Boot, configVars
  <2>4. CASE UNCHANGED vars
    BY <2>4 DEF vars
  <2> QED  BY <2>1, <2>2, <2>3, <2>4 DEF Next
<1>3. saved' \in {saved, config, Flipped}
  <2>1. CASE Key
    BY <2>1 DEF Key, KeepConfig, SaveConfig, configVars, WifiKey, IgnoredKey,
       ChatEnter, ChatBackspace, ChatType, ChatMenu, ChatScroll, MenuMove, MenuStays, MenuEdit,
       MenuSilent, MenuReboot, MenuClose, RebootConfirm, RebootCancel, NameEdit, ChannelEdit,
       EditDone, EditLeft, SleepKey
  <2>2. CASE Turn
    BY <2>2, TurnKeepsEdits DEF configVars
  <2>3. CASE Stops \/ Starts
    BY <2>3 DEF Stops, DoReboot, Fatal, Killed, PowerCut, Leaves, Starts, Restart, PowerScript,
       WindowOpens, WindowCloses, Boot, configVars
  <2>4. CASE UNCHANGED vars
    BY <2>4 DEF vars
  <2> QED  BY <2>1, <2>2, <2>3, <2>4 DEF Next
<1>4. ASSUME NEW n \in 0..MaxName, NameEdit(n) PROVE ConfigTypes'
  <2>1. config' = [config EXCEPT !.name = n] /\ saved' = saved
    BY <1>4 DEF NameEdit
  <2> QED  BY <2>1 DEF ConfigTypes, Config
<1>5. ASSUME NEW c \in 1..MaxChannel, ChannelEdit(c) PROVE ConfigTypes'
  <2>1. config' = [config EXCEPT !.channel = c] /\ saved' = saved
    BY <1>5 DEF ChannelEdit
  <2> QED  BY <2>1 DEF ConfigTypes, Config
<1>6. CASE config' \in {config, saved, saved', Flipped}
  BY <1>1, <1>3, <1>6 DEF ConfigTypes
<1> QED  BY <1>2, <1>4, <1>5, <1>6

\* The history never outgrows MAX_HISTORY, nor the scroll position.
LEMMA CountKept == CountTypes /\ [Next]_vars => CountTypes'
<1> SUFFICES ASSUME CountTypes, [Next]_vars
             PROVE  CountTypes'
  OBVIOUS
<1> USE LimitsAssumption DEF CountTypes, screenVars, historyVars
<1>1. ASSUME AddMessage PROVE CountTypes'
  BY <1>1 DEF AddMessage, Least
<1>2. CASE Key
  <2>1. count' = count
    BY <1>2 DEF Key, InDrain, WifiKey, IgnoredKey,
       ChatEnter, ChatBackspace, ChatType, ChatMenu, ChatScroll, MenuMove, MenuStays, MenuEdit,
       MenuSilent, MenuReboot, MenuClose, RebootConfirm, RebootCancel, NameEdit, ChannelEdit,
       EditDone, EditLeft, SleepKey
  <2>2. scroll' \in {scroll, 0} \/ \E to \in 0..MaxHistory : ChatScroll(to)
    BY <1>2 DEF Key, WifiKey, IgnoredKey,
       ChatEnter, ChatBackspace, ChatType, ChatMenu, MenuMove, MenuStays, MenuEdit,
       MenuSilent, MenuReboot, MenuClose, RebootConfirm, RebootCancel, NameEdit, ChannelEdit,
       EditDone, EditLeft, SleepKey
  <2>3. \A to \in 0..MaxHistory : ChatScroll(to) => scroll' = to
    BY DEF ChatScroll
  <2>4. scroll' \in 0..MaxHistory
    BY <2>2, <2>3
  <2> QED  BY <2>1, <2>4
<1>3. CASE Turn
  <2>1. AddMessage \/ UNCHANGED <<count, scroll>>
    BY <1>3 DEF Turn, DrainEnds, DoSend, DoToggleWifi, DoSilentChanged, DoWake,
       DoNothing, SettleDraws, SettleWaits, ReceiveNew, ReceiveNothing, StatusChange, NoTimeout,
       FallAsleep, StayAwake
  <2> QED  BY <1>1, <2>1
<1>4. CASE Stops
  BY <1>4, StopsLeave DEF Leaves
<1>5. CASE Starts
  BY <1>5 DEF Starts, Restart, PowerScript, WindowOpens, WindowCloses, Boot
<1>6. CASE UNCHANGED vars
  BY <1>6 DEF vars
<1> QED  BY <1>2, <1>3, <1>4, <1>5, <1>6 DEF Next

\* Every history has its versions.
LEMMA NewsKept == NewsTypes /\ [Next]_vars => NewsTypes'
<1> SUFFICES ASSUME NewsTypes, [Next]_vars
             PROVE  NewsTypes'
  OBVIOUS
<1> USE DEF NewsTypes, historyVars
<1>1. CASE Key
  BY <1>1 DEF Key, InDrain, WifiKey, IgnoredKey,
     ChatEnter, ChatBackspace, ChatType, ChatMenu, ChatScroll, MenuMove, MenuStays, MenuEdit,
     MenuSilent, MenuReboot, MenuClose, RebootConfirm, RebootCancel, NameEdit, ChannelEdit,
     EditDone, EditLeft, SleepKey
<1>2. CASE Turn
  BY <1>2 DEF Turn, AddMessage, DrainEnds, DoSend, DoToggleWifi, DoSilentChanged, DoWake,
     DoNothing, SettleDraws, SettleWaits, ReceiveNew, ReceiveNothing, StatusChange, NoTimeout,
     FallAsleep, StayAwake
<1>3. CASE Stops
  BY <1>3 DEF Stops, DoReboot, Fatal, Killed, PowerCut, Leaves
<1>4. CASE Starts
  BY <1>4 DEF Starts, Restart, PowerScript, WindowOpens, WindowCloses, Boot
<1>5. CASE UNCHANGED vars
  BY <1>5 DEF vars
<1> QED  BY <1>1, <1>2, <1>3, <1>4, <1>5 DEF Next

\* Flags stay flags; the buzzer's is copied from a configuration.
LEMMA FlagsKept == FlagTypes /\ ConfigTypes /\ [Next]_vars => FlagTypes'
<1> SUFFICES ASSUME FlagTypes, ConfigTypes, [Next]_vars
             PROVE  FlagTypes'
  OBVIOUS
<1>1. config.silent \in BOOLEAN
  BY DEF ConfigTypes, Config
<1> USE DEF FlagTypes, turnVars, outsideVars
<1>2. CASE Key
  BY <1>2 DEF Key, InDrain, Returns, ReturnsNothing, ReturnsTyping, WifiKey, IgnoredKey,
     ChatEnter, ChatBackspace, ChatType, ChatMenu, ChatScroll, MenuMove, MenuStays, MenuEdit,
     MenuSilent, MenuReboot, MenuClose, RebootConfirm, RebootCancel, NameEdit, ChannelEdit,
     EditDone, EditLeft, SleepKey
<1>3. CASE DoToggleWifi \/ DoSilentChanged \/ DoNothing
  BY <1>1, <1>3 DEF Acts, DoToggleWifi, DoSilentChanged, DoNothing
<1>4. CASE DrainEnds \/ DoSend \/ DoWake \/ SettleDraws \/ SettleWaits \/ ReceiveNew
           \/ ReceiveNothing \/ StatusChange \/ NoTimeout \/ FallAsleep \/ StayAwake
  BY <1>4 DEF Acts, DrainEnds, DoSend, DoWake, SettleDraws, SettleWaits, ReceiveNew,
     ReceiveNothing, StatusChange, NoTimeout, FallAsleep, StayAwake
<1>5. CASE Stops
  BY <1>5 DEF Stops, DoReboot, Fatal, Killed, PowerCut, Leaves
<1>6. CASE Starts
  BY <1>1, <1>6 DEF Starts, Restart, PowerScript, WindowOpens, WindowCloses, Boot
<1>7. CASE UNCHANGED vars
  BY <1>7 DEF vars
<1> QED  BY <1>2, <1>3, <1>4, <1>5, <1>6, <1>7 DEF Next, Turn

\* Whatever is drawn is a frame of a screen.
LEMMA PanelKept == PanelTypes /\ PlaceTypes /\ PlaceTypes' /\ [Next]_vars => PanelTypes'
<1> SUFFICES ASSUME PanelTypes, PlaceTypes', [Next]_vars
             PROVE  PanelTypes'
  OBVIOUS
<1> USE DEF PanelTypes
<1>1. ASSUME NEW forced \in BOOLEAN, Redraw(forced) PROVE PanelTypes'
  BY <1>1, RedrawShows DEF PlaceTypes
<1>2. CASE Redraw(FALSE) \/ Redraw(TRUE)
  BY <1>1, <1>2
<1>3. CASE UNCHANGED panel
  BY <1>3
<1>4. CASE Boot
  <2>1. panel' = [view |-> View', full |-> TRUE] /\ View'.screen = state'
    BY <1>4 DEF Boot, View, ChatView
  <2> QED  BY <2>1 DEF PlaceTypes
<1>5. CASE DoSend
  <2>1. (~Blank(input)) \in BOOLEAN /\ Redraw(~Blank(input))
    BY <1>5 DEF DoSend, Blank
  <2> QED  BY <1>1, <2>1
<1>6. CASE Key
  <2>1. Redraw(FALSE) \/ Redraw(TRUE) \/ UNCHANGED panel
    BY <1>6 DEF Key, Goes, WifiKey, IgnoredKey,
       ChatEnter, ChatBackspace, ChatType, ChatMenu, ChatScroll, MenuMove, MenuStays, MenuEdit,
       MenuSilent, MenuReboot, MenuClose, RebootConfirm, RebootCancel, NameEdit, ChannelEdit,
       EditDone, EditLeft, SleepKey
  <2> QED  BY <1>2, <1>3, <2>1
<1>7. CASE Turn /\ ~DoSend
  <2>1. Redraw(FALSE) \/ Redraw(TRUE) \/ UNCHANGED panel
    BY <1>7 DEF Turn, DrainEnds, DoToggleWifi, DoSilentChanged, DoWake,
       DoNothing, SettleDraws, SettleWaits, ReceiveNew, ReceiveNothing, StatusChange, NoTimeout,
       FallAsleep, StayAwake
  <2> QED  BY <1>2, <1>3, <2>1
<1>8. CASE Stops
  BY <1>3, <1>8 DEF Stops, DoReboot, Fatal, Killed, PowerCut, Leaves
<1>9. CASE Starts /\ ~Boot
  BY <1>3, <1>9 DEF Starts, Restart, PowerScript, WindowOpens, WindowCloses
<1>10. CASE UNCHANGED vars
  BY <1>3, <1>10 DEF vars
<1> QED  BY <1>4, <1>5, <1>6, <1>7, <1>8, <1>9, <1>10 DEF Next, Turn, Starts

\* Every variable keeps its type: the line and the history stay within their
\* limits, the channel stays one of the picker's.
THEOREM TypesHold == Spec => []TypeOK
<1>1. Init => /\ PlaceTypes /\ RowTypes /\ LineTypes /\ ConfigTypes /\ CountTypes
              /\ NewsTypes /\ FlagTypes /\ PanelTypes
  <2> SUFFICES ASSUME Init
               PROVE  /\ PlaceTypes /\ RowTypes /\ LineTypes /\ ConfigTypes /\ CountTypes
                      /\ NewsTypes /\ FlagTypes /\ PanelTypes
    OBVIOUS
  <2> USE DEF Init
  <2>1. PlaceTypes /\ RowTypes
    BY DEF PlaceTypes, RowTypes, Phase, Screen, Action, None, PROF_COUNT
  <2>2. LineTypes /\ CountTypes
    BY LimitsAssumption DEF LineTypes, CountTypes
  <2>3. ConfigTypes
    <3>1. config = [name |-> MaxName, channel |-> 1, silent |-> FALSE]
      OBVIOUS
    <3>2. MaxName \in 0..MaxName /\ 1 \in 1..MaxChannel /\ FALSE \in BOOLEAN
      BY LimitsAssumption
    <3>3. config \in Config
      BY <3>1, <3>2 DEF Config
    <3> QED  BY <3>3 DEF ConfigTypes
  <2>4. FlagTypes /\ NewsTypes
    BY DEF FlagTypes, NewsTypes
  <2>5. PanelTypes
    <3>1. panel.view.screen = "chat" /\ panel.full = TRUE
      BY ViewScreen
    <3> QED  BY <3>1 DEF PanelTypes, Screen
  <2> QED  BY <2>1, <2>2, <2>3, <2>4, <2>5
<1> QED  BY <1>1, TypesInParts, PlacesKept, RowKept, LineKept, ConfigKept, CountKept, NewsKept,
            FlagsKept, PanelKept, PTL DEF Spec

(***************************************************************************)
(* Ghosts                                                                  *)
(***************************************************************************)
\* What NoGhosts says of one step.
Ghostless ==
  panel' # panel /\ ~panel'.full =>
    /\ panel'.view.screen = panel.view.screen
    /\ panel.view.screen = "chat" => panel'.view.news = panel.view.news

\* A partial refresh over a current picture leaves no ghost if no entry came.
LEMMA QuietRedraw ==
  ASSUME PanelIsCurrent, Running, Redraw(FALSE), UNCHANGED news
  PROVE  Ghostless
<1> SUFFICES ASSUME ~panel'.full
             PROVE  /\ panel'.view.screen = panel.view.screen
                    /\ panel.view.screen = "chat" => panel'.view.news = panel.view.news
  BY DEF Ghostless
<1>1. panel'.view = View' /\ panel'.view.screen = state'
  BY RedrawShows
<1>2. panel.view.screen = state'
  BY DEF Redraw
<1>3. ASSUME panel.view.screen = "chat" PROVE panel'.view.news = panel.view.news
  <2>1. Apart(panel.view) = Apart(View)
    BY DEF PanelIsCurrent
  <2>2. Apart(panel.view) = ChatButInput(panel.view)
    BY <1>3 DEF Apart
  <2>3. View.screen = "chat"
    BY <2>1, <2>2 DEF Apart, ChatButInput
  <2>4. state = "chat" /\ Apart(View) = ChatButInput(View) /\ View.news = news
    BY <2>3, ViewScreen DEF Apart, View, ChatView
  <2>5. panel.view.news = news
    <3>1. \A v : ChatButInput(v).news = v.news
      BY DEF ChatButInput
    <3> QED  BY <2>1, <2>2, <2>4, <3>1
  <2>6. state' = "chat"
    BY <1>2, <1>3
  <2>7. View'.news = news'
    BY <2>6 DEF View, ChatView
  <2>8. panel'.view.news = news'
    BY <1>1, <2>7
  <2> QED  BY <2>5, <2>8
<1> QED  BY <1>1, <1>2, <1>3

\* A full refresh leaves no ghost at all.
LEMMA FullRedraw ==
  ASSUME Redraw(TRUE)
  PROVE  Ghostless
BY DEF Redraw, Ghostless

\* No partial refresh replaces another screen or shows a new message, in any
\* step of the keys, the loop, a stop or a start.
THEOREM GhostsHold == Spec => NoGhosts
<1>1. PanelIsCurrent /\ [Next]_vars => [Ghostless]_vars
  <2> SUFFICES ASSUME PanelIsCurrent, Next
               PROVE  Ghostless
    BY DEF Ghostless, vars
  <2>1. CASE UNCHANGED panel
    BY <2>1 DEF Ghostless
  <2>2. CASE Redraw(TRUE)
    BY <2>2, FullRedraw
  <2>3. CASE Running /\ Redraw(FALSE) /\ UNCHANGED news
    BY <2>3, QuietRedraw
  <2>4. CASE Key
    <3>1. Running /\ UNCHANGED news
      BY <2>4 DEF Running, historyVars, Key, InDrain, WifiKey, IgnoredKey,
         ChatEnter, ChatBackspace, ChatType, ChatMenu, ChatScroll, MenuMove, MenuStays, MenuEdit,
         MenuSilent, MenuReboot, MenuClose, RebootConfirm, RebootCancel, NameEdit, ChannelEdit,
         EditDone, EditLeft, SleepKey
    <3>2. Redraw(FALSE) \/ Redraw(TRUE) \/ UNCHANGED panel
      BY <2>4 DEF Key, Goes, WifiKey, IgnoredKey,
         ChatEnter, ChatBackspace, ChatType, ChatMenu, ChatScroll, MenuMove, MenuStays, MenuEdit,
         MenuSilent, MenuReboot, MenuClose, RebootConfirm, RebootCancel, NameEdit, ChannelEdit,
         EditDone, EditLeft, SleepKey
    <3> QED  BY <2>1, <2>2, <2>3, <3>1, <3>2
  <2>5. CASE DoSend
    <3>1. Running
      BY <2>5 DEF DoSend, Acts, Running
    <3>2. CASE Blank(input)
      BY <2>3, <2>5, <3>1, <3>2 DEF DoSend, historyVars, Redraw
    <3>3. CASE ~Blank(input)
      BY <2>2, <2>5, <3>3 DEF DoSend, Redraw
    <3> QED  BY <3>2, <3>3
  <2>6. CASE DoToggleWifi \/ SettleDraws \/ FallAsleep
    BY <2>3, <2>6 DEF DoToggleWifi, SettleDraws, FallAsleep, Acts, Running, historyVars
  <2>7. CASE ReceiveNew
    BY <2>2, <2>7 DEF ReceiveNew
  <2>8. CASE StatusChange
    BY <2>1, <2>3, <2>8 DEF StatusChange, Running
  <2>9. CASE DrainEnds \/ DoSilentChanged \/ DoWake \/ DoNothing \/ SettleWaits
              \/ ReceiveNothing \/ NoTimeout \/ StayAwake
    BY <2>1, <2>9 DEF DrainEnds, DoSilentChanged, DoWake, DoNothing, SettleWaits,
       ReceiveNothing, NoTimeout, StayAwake
  <2>10. CASE Stops
    BY <2>1, <2>10 DEF Stops, DoReboot, Fatal, Killed, PowerCut, Leaves
  <2>11. CASE Restart \/ PowerScript \/ WindowOpens \/ WindowCloses
    BY <2>1, <2>11 DEF Restart, PowerScript, WindowOpens, WindowCloses
  <2>12. CASE Boot
    BY <2>12 DEF Boot, Ghostless
  <2> QED  BY <2>4, <2>5, <2>6, <2>7, <2>8, <2>9, <2>10, <2>11, <2>12 DEF Next, Turn, Starts
<1>2. Spec => [][Ghostless]_vars
  BY <1>1, PictureHolds, PTL DEF Spec
<1> QED  BY <1>2 DEF NoGhosts, Ghostless
=============================================================================
