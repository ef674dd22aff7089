------------------------------- MODULE PagerUI -------------------------------
(***************************************************************************)
(* One pager as its user meets it: the screens and key handlers of ui.py,  *)
(* and the loop of main.py that drains the keys, acts on what the handlers *)
(* returned, redraws, takes in what the radio brought and falls asleep.    *)
(* Wi-Fi is switched by Alt+W and, after a reboot from the menu, by the    *)
(* deploy window of kidpager-power.sh.                                     *)
(*                                                                         *)
(* A drain hands any number of queued keys to the handlers; only then does *)
(* the loop act, and on the last action only.  A frame is what a draw call *)
(* of eink_refresh was given; whether it gets to the panel is the display  *)
(* worker's business.                                                      *)
(*                                                                         *)
(* Abstractions.  A character is "char" or "space"; a name is its length;  *)
(* the history is its length, a version of its entries and one of their    *)
(* status marks.  Timers that may have run out are choices.                *)
(***************************************************************************)
EXTENDS Naturals, Sequences

CONSTANTS
  MaxChannel,   \* the last channel of the picker, 99
  MaxHistory,   \* MAX_HISTORY
  Version,      \* what tells histories of one length apart
  Mark,         \* what tells the status marks of one history apart
  MaxLine,      \* bound: characters on the input line
  MaxName       \* bound: characters of the name

ASSUME LimitsAssumption ==
  /\ MaxChannel \in Nat \ {0}
  /\ MaxHistory \in Nat \ {0}
  /\ MaxLine \in Nat
  /\ MaxName \in Nat

Char == {"char", "space"}
None == "none"
Action == {None, "send", "toggle_wifi", "silent_changed", "wake", "reboot"}
Screen == {"chat", "profile", "name_edit", "channel_edit", "reboot_confirm",
           "rebooting", "sleep"}
Config == [name : 0..MaxName, channel : 1..MaxChannel, silent : BOOLEAN]

PROF_NAME == 0
PROF_CHANNEL == 1
PROF_SILENT == 2
PROF_REBOOT == 3
PROF_COUNT == 4

\* "drain" to "idle" follow one turn of the loop.  The service is "stopped" and
\* restarted alone, or has "ended" without a failure and is not, or the whole Pi is
\* "down" and boots up.
Phase == {"drain", "act", "settle", "radio", "acks", "idle",
          "stopped", "ended", "down", "booting"}

VARIABLES
  pc,        \* phase of the main loop
  state,     \* ui.state
  sel,       \* profile_sel
  input,     \* input_buf
  scroll,    \* scroll
  config,    \* name, channel and silent in memory
  saved,     \* config.json
  count,     \* len(ui.messages)
  news,      \* the version of the entries in ui.messages
  marks,     \* the version of their status marks
  wifiOn,    \* ui.wifi_on, the W badge
  action,    \* the last action of this drain
  typed,     \* got_typing
  pending,   \* eink_pending
  panel,     \* the last frame drawn: what it shows, and if by a full refresh
  muted,     \* the buzzer's silent flag
  wifi,      \* the Wi-Fi radio is not blocked
  flag,      \* the file deploy-window exists
  window     \* deploy window: "none", "opening" or "open"

screenVars == <<state, sel, input, scroll>>
configVars == <<config, saved>>
historyVars == <<count, news, marks>>
turnVars == <<action, typed, pending>>
outsideVars == <<muted, wifi, flag, window>>
vars == <<pc, state, sel, input, scroll, config, saved, count, news, marks, wifiOn,
          action, typed, pending, panel, muted, wifi, flag, window>>

Least(a, b) == IF a < b THEN a ELSE b
Most(a, b) == IF a < b THEN b ELSE a

(***************************************************************************)
(* Drawing                                                                 *)
(***************************************************************************)
\* What eink_refresh hands to the draw method of the current screen.
ChatView ==
  [screen |-> "chat", name |-> config.name, channel |-> config.channel,
   silent |-> config.silent, wifi |-> wifiOn, line |-> input,
   scroll |-> scroll, count |-> count, news |-> news, marks |-> marks]

View ==
  CASE state = "chat" -> ChatView
    [] state = "profile" ->
         [screen |-> state, name |-> config.name, channel |-> config.channel,
          silent |-> config.silent, sel |-> sel]
    [] state = "channel_edit" -> [screen |-> state, channel |-> config.channel]
    [] state = "sleep" ->
         [screen |-> state, name |-> config.name, silent |-> config.silent]
    [] OTHER -> [screen |-> state, name |-> config.name]

\* full_redraw: a full refresh when asked for, when the screen changes, and for
\* the screens whose draw method insists on one.
Redraw(forced) ==
  panel' = [view |-> View',
            full |-> \/ forced
                     \/ panel.view.screen # state'
                     \/ state' \in {"reboot_confirm", "rebooting", "sleep"}]

(***************************************************************************)
(* Keys                                                                    *)
(***************************************************************************)
InDrain == pc = "drain" /\ UNCHANGED <<pc, historyVars, wifiOn, pending, outsideVars>>

\* A handler that redraws and returns None, or an action for the loop.
Goes(next) == state' = next /\ Redraw(FALSE)
Returns(a) == action' = a /\ UNCHANGED typed
ReturnsNothing == UNCHANGED <<action, typed>>
ReturnsTyping == typed' = TRUE /\ UNCHANGED action

SaveConfig == saved' = config
KeepConfig == UNCHANGED configVars

\* Alt+W, on every screen.
WifiKey ==
  /\ InDrain
  /\ Returns("toggle_wifi")
  /\ UNCHANGED <<screenVars, configVars, panel>>

\* Keys a screen has no use for; on the sleep screen every other key counts.
IgnoredKey ==
  /\ InDrain /\ state # "sleep"
  /\ UNCHANGED <<screenVars, configVars, action, typed, panel>>

ChatEnter ==
  /\ InDrain /\ state = "chat"
  /\ Returns("send")
  /\ UNCHANGED <<screenVars, configVars, panel>>

ChatBackspace ==
  /\ InDrain /\ state = "chat" /\ input # << >>
  /\ input' = SubSeq(input, 1, Len(input) - 1)
  /\ ReturnsTyping
  /\ UNCHANGED <<state, sel, scroll, configVars, panel>>

ChatType(c) ==
  /\ InDrain /\ state = "chat" /\ Len(input) < MaxLine
  /\ input' = Append(input, c)
  /\ scroll' = 0
  /\ ReturnsTyping
  /\ UNCHANGED <<state, sel, configVars, panel>>

\* Mutated form: one line further than the history goes.
ChatScrollTooFar(to) ==
  /\ InDrain /\ state = "chat"
  /\ to \in {scroll + 1, scroll - 1} /\ to \in 0..count
  /\ scroll' = to
  /\ UNCHANGED <<state, sel, input, configVars>>
  /\ Redraw(FALSE) /\ ReturnsNothing

ChatScroll(to) ==
  /\ InDrain /\ state = "chat"
  /\ \/ to = scroll + 1 /\ to < count
     \/ scroll > 0 /\ to = scroll - 1
  /\ scroll' = to
  /\ UNCHANGED <<state, sel, input, configVars>>
  /\ Redraw(FALSE) /\ ReturnsNothing

ChatMenu ==
  /\ InDrain /\ state = "chat"
  /\ sel' = 0
  /\ UNCHANGED <<input, scroll, configVars>>
  /\ Goes("profile") /\ ReturnsNothing

MenuMove(to) ==
  /\ InDrain /\ state = "profile"
  /\ to \in 0..(PROF_COUNT - 1) /\ (to = sel + 1 \/ sel = to + 1)
  /\ sel' = to
  /\ UNCHANGED <<state, input, scroll, configVars>>
  /\ Redraw(FALSE) /\ ReturnsNothing

\* UP on the first row, DOWN on the last.
MenuStays ==
  /\ InDrain /\ state = "profile" /\ sel \in {0, PROF_COUNT - 1}
  /\ UNCHANGED <<screenVars, configVars>>
  /\ Redraw(FALSE) /\ ReturnsNothing

MenuEdit ==
  /\ InDrain /\ state = "profile"
  /\ UNCHANGED <<sel, input, scroll, configVars>>
  /\ \/ sel = PROF_NAME /\ Goes("name_edit")
     \/ sel = PROF_CHANNEL /\ Goes("channel_edit")
  /\ ReturnsNothing

MenuSilent ==
  /\ InDrain /\ state = "profile" /\ sel = PROF_SILENT
  /\ config' = [config EXCEPT !.silent = ~@]
  /\ saved' = config'
  /\ UNCHANGED screenVars
  /\ Redraw(FALSE) /\ Returns("silent_changed")

\* Mutated form: on to the question without saving the edits.
MenuRebootUnsaved ==
  /\ InDrain /\ state = "profile" /\ sel = PROF_REBOOT
  /\ KeepConfig
  /\ UNCHANGED <<sel, input, scroll>>
  /\ Goes("reboot_confirm") /\ ReturnsNothing

MenuReboot ==
  /\ InDrain /\ state = "profile" /\ sel = PROF_REBOOT
  /\ SaveConfig
  /\ UNCHANGED <<config, sel, input, scroll>>
  /\ Goes("reboot_confirm") /\ ReturnsNothing

MenuClose ==
  /\ InDrain /\ state = "profile"
  /\ SaveConfig
  /\ UNCHANGED <<config, sel, input, scroll>>
  /\ Goes("chat") /\ ReturnsNothing

\* Key 1.  The history is flushed here too.
RebootConfirm ==
  /\ InDrain /\ state = "reboot_confirm"
  /\ UNCHANGED <<sel, input, scroll, configVars>>
  /\ Goes("rebooting") /\ Returns("reboot")

RebootCancel ==
  /\ InDrain /\ state = "reboot_confirm"
  /\ UNCHANGED <<sel, input, scroll, configVars>>
  /\ Goes("profile") /\ ReturnsNothing

\* The editors change the configuration at once; ENTER saves it, ESC goes back
\* to the menu with the change in force.
NameEdit(length) ==
  /\ InDrain /\ state = "name_edit"
  /\ length \in 0..MaxName
  /\ \/ length = config.name + 1
     \/ config.name = length + 1
     \/ config.name = 0 /\ length = 0
  /\ config' = [config EXCEPT !.name = length]
  /\ UNCHANGED <<screenVars, saved>>
  /\ Redraw(FALSE) /\ ReturnsNothing

\* Mutated form: the picker does not stop at the last channel.
ChannelEditUnbounded(channel) ==
  /\ InDrain /\ state = "channel_edit"
  /\ config' = [config EXCEPT !.channel = @ + 1]
  /\ UNCHANGED <<screenVars, saved>>
  /\ Redraw(FALSE) /\ ReturnsNothing

ChannelEdit(channel) ==
  /\ InDrain /\ state = "channel_edit"
  /\ \/ channel = Least(MaxChannel, config.channel + 1)
     \/ channel = Most(1, config.channel - 1)
  /\ config' = [config EXCEPT !.channel = channel]
  /\ UNCHANGED <<screenVars, saved>>
  /\ Redraw(FALSE) /\ ReturnsNothing

EditDone ==
  /\ InDrain /\ state \in {"name_edit", "channel_edit"}
  /\ SaveConfig
  /\ UNCHANGED <<config, sel, input, scroll>>
  /\ Goes("profile") /\ ReturnsNothing

EditLeft ==
  /\ InDrain /\ state \in {"name_edit", "channel_edit"}
  /\ KeepConfig
  /\ UNCHANGED <<sel, input, scroll>>
  /\ Goes("profile") /\ ReturnsNothing

SleepKey ==
  /\ InDrain /\ state = "sleep"
  /\ state' = "chat"
  /\ UNCHANGED <<sel, input, scroll, configVars>>
  /\ Redraw(TRUE) /\ Returns("wake")

Key ==
  \/ WifiKey \/ IgnoredKey
  \/ ChatEnter \/ ChatBackspace \/ (\E c \in Char : ChatType(c)) \/ ChatMenu
  \/ (\E to \in 0..MaxHistory : ChatScroll(to))
  \/ (\E to \in 0..PROF_COUNT : MenuMove(to)) \/ MenuStays
  \/ MenuEdit \/ MenuSilent \/ MenuReboot \/ MenuClose
  \/ RebootConfirm \/ RebootCancel
  \/ (\E n \in 0..MaxName : NameEdit(n)) \/ (\E c \in 1..MaxChannel : ChannelEdit(c))
  \/ EditDone \/ EditLeft \/ SleepKey

(***************************************************************************)
(* The rest of a turn                                                      *)
(***************************************************************************)
\* The queue is empty, or KB_DRAIN_MAX keys were handled.
DrainEnds ==
  /\ pc = "drain" /\ pc' = "act"
  /\ UNCHANGED <<screenVars, configVars, historyVars, wifiOn, turnVars, panel, outsideVars>>

\* The loop acts once, and forgets what the drain returned.
Acts(a) == pc = "act" /\ action = a /\ action' = None /\ typed' = FALSE
Proceeds(phase) == pc' = phase

\* The history gets a new entry at its end.
AddMessage ==
  /\ count' = Least(MaxHistory, count + 1)
  /\ news' \in Version \ {news}
  /\ scroll' = 0
  /\ UNCHANGED marks

Blank(line) == \A i \in 1..Len(line) : line[i] = "space"

\* The line is taken and cleared; a blank one is not sent.
DoSend ==
  /\ Acts("send") /\ Proceeds("settle")
  /\ input' = << >> /\ pending' = FALSE
  /\ IF Blank(input) THEN UNCHANGED <<historyVars, scroll>> ELSE AddMessage
  /\ UNCHANGED <<state, sel, configVars, wifiOn, outsideVars>>
  /\ Redraw(~Blank(input))

\* wifi_toggle returns the state it finds after the attempt, which may fail; that
\* rfkill list itself fails, and reads as off, is left out.
DoToggleWifi ==
  /\ Acts("toggle_wifi") /\ Proceeds("settle")
  /\ wifi' \in BOOLEAN /\ wifiOn' = wifi'
  /\ pending' = FALSE
  /\ UNCHANGED <<screenVars, configVars, historyVars, muted, flag, window>>
  /\ Redraw(FALSE)

DoSilentChanged ==
  /\ Acts("silent_changed") /\ Proceeds("settle")
  /\ muted' = config.silent
  /\ pending' = FALSE
  /\ UNCHANGED <<screenVars, configVars, historyVars, wifiOn, panel, wifi, flag, window>>

DoWake ==
  /\ Acts("wake") /\ Proceeds("settle")
  /\ pending' = FALSE
  /\ UNCHANGED <<screenVars, configVars, historyVars, wifiOn, panel, outsideVars>>

DoNothing ==
  /\ Acts(None) /\ Proceeds("settle")
  /\ pending' = (pending \/ typed)
  /\ UNCHANGED <<screenVars, configVars, historyVars, wifiOn, panel, outsideVars>>

\* The debounced redraw: the user paused, or the frame is too old.
SettleDraws ==
  /\ pc = "settle" /\ Proceeds("radio")
  /\ pending /\ pending' = FALSE
  /\ UNCHANGED <<screenVars, configVars, historyVars, wifiOn, action, typed, outsideVars>>
  /\ Redraw(FALSE)

SettleWaits ==
  /\ pc = "settle" /\ Proceeds("radio")
  /\ UNCHANGED <<screenVars, configVars, historyVars, wifiOn, turnVars, panel, outsideVars>>

\* Mutated form: only a pager that sleeps redraws for a new message.
ReceiveNewUnseen ==
  /\ pc = "radio" /\ Proceeds("acks")
  /\ AddMessage
  /\ state' = IF state = "sleep" THEN "chat" ELSE state
  /\ UNCHANGED <<sel, input, configVars, wifiOn, turnVars, outsideVars>>
  /\ IF state = "sleep" THEN Redraw(TRUE) ELSE UNCHANGED panel

\* Mutated form: no full refresh for a new message.
ReceiveNewPartial ==
  /\ pc = "radio" /\ Proceeds("acks")
  /\ AddMessage
  /\ state' = IF state = "sleep" THEN "chat" ELSE state
  /\ UNCHANGED <<sel, input, configVars, wifiOn, turnVars, outsideVars>>
  /\ Redraw(FALSE)

\* A message not seen before: stored, and shown, also by a sleeping pager.
ReceiveNew ==
  /\ pc = "radio" /\ Proceeds("acks")
  /\ AddMessage
  /\ state' = IF state = "sleep" THEN "chat" ELSE state
  /\ UNCHANGED <<sel, input, configVars, wifiOn, turnVars, outsideVars>>
  /\ Redraw(TRUE)

\* No packet, or a repeat.
ReceiveNothing ==
  /\ pc = "radio" /\ Proceeds("acks")
  /\ UNCHANGED <<screenVars, configVars, historyVars, wifiOn, turnVars, panel, outsideVars>>

\* An ack or the timeout check changes the status of entries.
StatusChange ==
  /\ \/ pc = "radio" /\ Proceeds("acks")
     \/ pc = "acks" /\ Proceeds("idle")
  /\ count > 0 /\ marks' \in Mark \ {marks}
  /\ UNCHANGED <<screenVars, configVars, count, news, wifiOn, turnVars, outsideVars>>
  /\ IF state = "sleep" THEN UNCHANGED panel ELSE Redraw(FALSE)

NoTimeout ==
  /\ pc = "acks" /\ Proceeds("idle")
  /\ UNCHANGED <<screenVars, configVars, historyVars, wifiOn, turnVars, panel, outsideVars>>

\* IDLE_TIMEOUT without a key or a new message, in the chat, no W badge.
FallAsleep ==
  /\ pc = "idle" /\ Proceeds("drain")
  /\ state = "chat" /\ ~wifiOn
  /\ state' = "sleep"
  /\ UNCHANGED <<sel, input, scroll, configVars, historyVars, wifiOn, turnVars, outsideVars>>
  /\ Redraw(FALSE)

StayAwake ==
  /\ pc = "idle" /\ Proceeds("drain")
  /\ UNCHANGED <<screenVars, configVars, historyVars, wifiOn, turnVars, panel, outsideVars>>

(***************************************************************************)
(* Stops and starts                                                        *)
(***************************************************************************)
Running == pc \notin {"stopped", "ended", "down", "booting"}

\* What a stopped program leaves: the files, the picture and the radio.
Leaves(phase) ==
  /\ pc' = phase
  /\ state' = "chat" /\ sel' = 0 /\ input' = << >> /\ scroll' = 0
  /\ config' = saved'
  /\ action' = None /\ typed' = FALSE /\ pending' = FALSE
  /\ UNCHANGED <<historyVars, wifiOn, panel, muted, wifi>>

\* The finally block saves the configuration; an error there is swallowed.
\* Then the flag for the deploy window is written, if it can be, and the reboot is
\* started; if that fails the program has ended all the same, with no failure that
\* systemd would answer.
DoReboot ==
  /\ pc = "act" /\ action = "reboot"
  /\ saved' \in {config, saved}
  /\ flag' \in {flag, TRUE}
  /\ \/ Leaves("down") /\ window' = "none"
     \/ Leaves("ended") /\ UNCHANGED window

\* An error that leaves the loop: of config.save in a key handler, where the
\* silent setting is flipped before it is saved, or of the radio in a send or a
\* receive.  The finally block may get the configuration saved after all.
Fatal ==
  /\ \/ pc = "drain" /\ state \in {"profile", "name_edit", "channel_edit"}
     \/ pc = "act" /\ action = "send"
     \/ pc = "radio"
  /\ \/ saved' \in {config, saved}
     \/ /\ pc = "drain" /\ state = "profile" /\ sel = PROF_SILENT
        /\ saved' = [config EXCEPT !.silent = ~@]
  /\ UNCHANGED <<flag, window>>
  /\ Leaves("stopped")

\* systemctl restart, whose SIGTERM no handler catches.
Killed ==
  /\ Running
  /\ UNCHANGED <<saved, flag, window>>
  /\ Leaves("stopped")

\* A flag that was just written may be lost with the page cache.
PowerCut ==
  /\ pc # "down"
  /\ UNCHANGED saved
  /\ flag' \in {flag, FALSE}
  /\ window' = "none"
  /\ Leaves("down")

\* systemd starts the service again, after a failure or with systemctl restart.
Restart ==
  /\ pc = "stopped" /\ pc' = "booting"
  /\ UNCHANGED <<screenVars, configVars, historyVars, wifiOn, turnVars, panel, outsideVars>>

\* kidpager-power.sh runs before the service: it blocks Wi-Fi, or finds the flag,
\* deletes it and leaves opening and closing the window to transient units.
PowerScript ==
  /\ pc = "down" /\ pc' = "booting"
  /\ flag' = FALSE
  /\ IF flag
       THEN window' = "opening" /\ UNCHANGED wifi
       ELSE UNCHANGED window /\ wifi' = FALSE
  /\ UNCHANGED <<screenVars, configVars, historyVars, wifiOn, turnVars, panel, muted>>

WindowOpens ==
  /\ window = "opening" /\ pc # "down"
  /\ window' = "open" /\ wifi' = TRUE
  /\ UNCHANGED <<pc, screenVars, configVars, historyVars, wifiOn, turnVars, panel, muted, flag>>

WindowCloses ==
  /\ window = "open" /\ pc # "down"
  /\ window' = "none" /\ wifi' = FALSE
  /\ UNCHANGED <<pc, screenVars, configVars, historyVars, wifiOn, turnVars, panel, muted, flag>>

\* main() up to its loop.  Entries that were never flushed are gone.
Boot ==
  /\ pc = "booting" /\ pc' = "drain"
  /\ muted' = config.silent
  /\ wifiOn' = wifi
  /\ count' \in 0..count
  /\ UNCHANGED <<screenVars, configVars, news, marks, turnVars, wifi, flag, window>>
  /\ panel' = [view |-> View', full |-> TRUE]

(***************************************************************************)
(* Specification                                                           *)
(***************************************************************************)
Init ==
  /\ pc = "booting"
  /\ state = "chat" /\ sel = 0 /\ input = << >> /\ scroll = 0
  /\ config \in [name : {MaxName}, channel : {1}, silent : {FALSE}]
  /\ saved = config
  /\ count = 0 /\ news \in Version /\ marks \in Mark
  /\ wifiOn = FALSE
  /\ action = None /\ typed = FALSE /\ pending = FALSE
  /\ panel = [view |-> View, full |-> TRUE]
  /\ muted = FALSE
  /\ wifi = FALSE /\ flag = FALSE /\ window = "none"

Turn ==
  \/ DrainEnds
  \/ DoSend \/ DoToggleWifi \/ DoSilentChanged \/ DoWake \/ DoNothing
  \/ SettleDraws \/ SettleWaits
  \/ ReceiveNew \/ ReceiveNothing \/ StatusChange \/ NoTimeout
  \/ FallAsleep \/ StayAwake

Stops == DoReboot \/ Fatal \/ Killed \/ PowerCut
Starts == Restart \/ PowerScript \/ WindowOpens \/ WindowCloses \/ Boot

Next == Key \/ Turn \/ Stops \/ Starts

Spec == Init /\ [][Next]_vars

(***************************************************************************)
(* Properties                                                              *)
(***************************************************************************)
TypeOK ==
  /\ pc \in Phase
  /\ state \in Screen
  /\ sel \in 0..(PROF_COUNT - 1)
  /\ input \in Seq(Char) /\ Len(input) <= MaxLine
  /\ config \in Config /\ saved \in Config
  /\ count \in 0..MaxHistory /\ scroll \in 0..MaxHistory
  /\ news \in Version /\ marks \in Mark /\ wifiOn \in BOOLEAN
  /\ action \in Action /\ typed \in BOOLEAN /\ pending \in BOOLEAN
  /\ panel.view.screen \in Screen /\ panel.full \in BOOLEAN
  /\ muted \in BOOLEAN /\ wifi \in BOOLEAN /\ flag \in BOOLEAN
  /\ window \in {"none", "opening", "open"}

\* Outside the menu and its editors the configuration in force is the saved
\* one: no way out of the menu, and no order of edits left with ESC, loses an
\* edit to a power cut.
EditsAreSaved ==
  state \in {"chat", "reboot_confirm", "rebooting", "sleep"} => config = saved

\* The scrolled chat always shows at least one message of a history that has
\* any: messages coming in, the history's trimming and restarts do not strand
\* the view beyond the oldest entry.
ViewInHistory == scroll > 0 => scroll < count

\* While the program runs the last frame drawn shows what the pager knows, but
\* for the input line and the scroll position that typing resets: every other
\* change of screen, settings, history or badge is drawn in the step that makes
\* it, by whichever of the handlers and the loop has to.
ChatButInput(v) ==
  [screen |-> "chat", name |-> v.name, channel |-> v.channel, silent |-> v.silent,
   wifi |-> v.wifi, count |-> v.count, news |-> v.news, marks |-> v.marks]
Apart(v) == IF v.screen = "chat" THEN ChatButInput(v) ELSE v

PanelIsCurrent == Running => Apart(panel.view) = Apart(View)

\* A partial refresh never replaces another screen, and never shows a new
\* message, also when the history is full and its length stays the same: both would
\* leave a ghost of the old picture.
NoGhosts ==
  [][panel' # panel /\ ~panel'.full =>
       /\ panel'.view.screen = panel.view.screen
       /\ panel.view.screen = "chat" => panel'.view.news = panel.view.news]_vars

\* ui.py: "rebooting" is the last frame shown, the process is about to die.
\* So no turn of the loop gets past acting with that screen up.
ConfirmedRebootHappens == state = "rebooting" => pc \in {"drain", "act"}

\* CHANGELOG, v0.11: silent mode, persisted, mutes the buzzer for every event.
\* So once the loop has acted on the keys, the buzzer knows the setting.
SilentInForce == pc \in {"settle", "radio", "acks", "idle"} => muted = config.silent

\* README: auto-sleep is suppressed while Wi-Fi is on, so that an SSH session
\* is not interrupted.
NoSleepInSession == [][state # "sleep" /\ state' = "sleep" => ~wifi]_vars

\* main.py: a printable character that landed this turn is scheduled for a
\* redraw.  So after a turn the line is drawn, or a redraw is pending.
TypingIsDrawn == pc = "drain" /\ ~typed /\ ~pending /\ state = "chat" => panel.view = View
=============================================================================
