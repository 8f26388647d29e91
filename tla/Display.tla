-------------------------------- MODULE Display --------------------------------
(* Who owns the OLED of gugaPI: the fault page, the large timer                  *)
(* (app_large_timer.cpp), the competition page with its cache (app_main.cpp) and *)
(* the sensor monitors of the shell. The status task, App_Run, the monitors'     *)
(* tasks and the shell commands draw on one frame buffer.                        *)
EXTENDS Integers, FiniteSets

CONSTANTS Monitors,    \* the monitors of the build: ImuOled and GrayOled in the shipped one
          Selections,  \* what a competition page shows: slot, count, step, second, result
          LongestTime,     \* kMaximumElapsedMs, in tenths
          Refresh,     \* COMP_OLED_MIN_REFRESH_MS, in tenths
          MaxPanelOrders    \* bound: commands and mode changes

VARIABLES mode,      \* the mode of the application, "fault" once a fault is set
          selected,  \* what the competition page ought to show
          screen,    \* what the frame buffer holds
          cached,    \* g_compOledLast*: the page taken to be on the screen
          waited,    \* ticks since g_compOledLastAttemptMs, up to Refresh
          timer,     \* app_large_timer.cpp: g_state, g_accumulated_ms, the rest
          watching,  \* the monitors whose g_*OledEnabled is set
          wiped,     \* history: `timer hide` or `timer start` overwrote a cached page
          panelOrders

displayVars == << mode, selected, screen, cached, waited, timer, watching, wiped,
                  panelOrders >>

DisplayConstants ==
    /\ LongestTime \in Nat \ {0} /\ Refresh \in Nat /\ MaxPanelOrders \in Nat
    /\ "comp" \notin Monitors

Racing == {"armed", "racing"}
NoPage == << "none", 0 >>
Pages == Racing \X Selections
Page(m, s) == [by |-> "comp", page |-> << m, s >>]   \* the competition page
Drawn(what) == [by |-> what, page |-> NoPage]        \* anything else
TimerOff == [visible |-> FALSE, running |-> FALSE, saturated |-> FALSE, accumulated |-> 0,
             since |-> 0, rendered |-> -1, preempted |-> FALSE]

(* CompetitionOwnsOled, the guard of the monitors and of `oled`. *)
CompetitionOwns == mode \in Racing \/ timer.visible

(* CurrentElapsedMs *)
Elapsed(t) == IF t.running /\ t.since >= LongestTime - t.accumulated THEN LongestTime
              ELSE IF t.running THEN t.accumulated + t.since ELSE t.accumulated

-----------------------------------------------------------------------------
(* App_LargeTimerUpdate: saturate at the end of the range; draw a changed tenth.  *)
Counted(t) == IF Elapsed(t) >= LongestTime
              THEN [t EXCEPT !.accumulated = LongestTime, !.running = FALSE, !.saturated = TRUE]
              ELSE t

Redrawn(t) == [Counted(t) EXCEPT !.preempted = FALSE, !.rendered = Elapsed(t)]
TimerUpdated(t, s) ==
    IF ~t.visible THEN << t, s >>
    ELSE IF mode = "fault" THEN << [t EXCEPT !.preempted = TRUE], s >>
    ELSE IF Elapsed(t) = t.rendered /\ ~t.preempted THEN << Counted(t), s >>
    ELSE << Redrawn(t), Drawn("timer") >>

TimerUpdate ==
    /\ timer' = TimerUpdated(timer, screen)[1]
    /\ screen' = TimerUpdated(timer, screen)[2]
    /\ UNCHANGED << mode, selected, cached, waited, watching, wiped, panelOrders >>

(* Time passes while the timer task keeps up with it. *)
PanelTick ==
    /\ timer.running => timer.since < LongestTime /\ (timer.visible /\ mode # "fault"
                                                  => timer.rendered = Elapsed(timer))
    /\ waited < Refresh \/ timer.running
    /\ waited' = IF waited < Refresh THEN waited + 1 ELSE waited
    /\ timer' = IF timer.running THEN [timer EXCEPT !.since = @ + 1] ELSE timer
    /\ UNCHANGED << mode, selected, screen, cached, watching, wiped, panelOrders >>

-----------------------------------------------------------------------------
(* What of a page is compared with what the last one showed. *)
Outdated(page) == cached # page

(* App_CompetitionOledUpdate: nothing before the refresh period, nor unless the   *)
(* page has changed.                                                              *)
CompetitionPage ==
    LET page == << mode, selected >> IN
    IF mode \in Racing /\ waited = Refresh /\ Outdated(page)
    THEN /\ waited' = 0
         /\ cached' = page
         /\ screen' = Page(mode, selected)
         /\ wiped' = FALSE
    ELSE UNCHANGED << screen, cached, waited, wiped >>

(* App_CompetitionStatusTask, its display part; App_FaultOledUpdate redraws on a  *)
(* new code and then every refresh period.                                        *)
StatusTask ==
    /\ IF mode = "fault"
       THEN screen' \in {screen, Drawn("fault")} /\ UNCHANGED << cached, waited, wiped >>
       ELSE IF timer.visible
       THEN cached' = NoPage /\ wiped' = FALSE /\ UNCHANGED << screen, waited >>
       ELSE CompetitionPage
    /\ UNCHANGED << mode, selected, timer, watching, panelOrders >>

(* ImuOledTask, GrayOledTask: silent under a fault and while they do not own it.  *)
MonitorTask(m) ==
    /\ m \in watching /\ mode # "fault" /\ ~CompetitionOwns
    /\ screen' = Drawn(m)
    /\ UNCHANGED << mode, selected, cached, waited, timer, watching, wiped, panelOrders >>

-----------------------------------------------------------------------------
Order == panelOrders < MaxPanelOrders /\ panelOrders' = panelOrders + 1
Quiet == UNCHANGED << mode, selected, waited >>

(* Whether a clear or a page of the timer hides a page that stays cached. *)
Wiped == wiped \/ (mode # "fault" /\ cached # NoPage)

(* The others are disabled first. *)
OnlyThis(m) == {m}

(* ImuOledSetEnabled, GrayOledSetEnabled: refused while the competition or the    *)
(* timer owns the display; one monitor replaces the others and draws.             *)
PanelMonitorOn(m) ==
    /\ Order /\ Quiet
    /\ IF CompetitionOwns THEN UNCHANGED << screen, watching >>
       ELSE watching' = OnlyThis(m) /\ screen' = Drawn(m)
    /\ UNCHANGED << cached, timer, wiped >>

PanelMonitorOff(m) ==
    /\ Order /\ Quiet
    /\ watching' = watching \ {m}
    /\ UNCHANGED << screen, cached, timer, wiped >>

(* OledCommand: clear, test, text, subject to the same owner; `oled once`. *)
OledCommand ==
    /\ Order /\ Quiet
    /\ ~CompetitionOwns
    /\ screen' \in {Drawn(b) : b \in {"text"} \cup Monitors}
    /\ UNCHANGED << cached, timer, watching, wiped >>

(* App_LargeTimerStart *)
TimerStart ==
    /\ Order /\ Quiet
    /\ mode # "fault"
    /\ LET t == [TimerOff EXCEPT !.visible = TRUE, !.running = TRUE]
       IN timer' = TimerUpdated(t, screen)[1] /\ screen' = TimerUpdated(t, screen)[2]
    /\ wiped' = Wiped
    /\ UNCHANGED << cached, watching >>

(* The running time is folded into g_accumulated_ms, once. *)
Halted(t) == [t EXCEPT !.accumulated = Elapsed(t), !.running = FALSE]

(* App_LargeTimerStop *)
TimerStop ==
    /\ Order /\ Quiet
    /\ timer.visible
    /\ LET t == [Halted(timer) EXCEPT !.rendered = -1]
       IN timer' = TimerUpdated(t, screen)[1] /\ screen' = TimerUpdated(t, screen)[2]
    /\ UNCHANGED << cached, watching, wiped >>

(* App_LargeTimerResume *)
TimerResume ==
    /\ Order /\ Quiet
    /\ timer.visible /\ ~timer.saturated /\ mode # "fault" /\ ~timer.running
    /\ timer' = [timer EXCEPT !.running = TRUE, !.since = 0]
    /\ UNCHANGED << screen, cached, watching, wiped >>

(* App_LargeTimerReset: `since` starts again if it runs. *)
TimerReset ==
    /\ Order /\ Quiet
    /\ LET t == [timer EXCEPT !.accumulated = 0, !.saturated = FALSE, !.rendered = -1,
                              !.since = IF timer.running THEN 0 ELSE @]
       IN timer' = TimerUpdated(t, screen)[1] /\ screen' = TimerUpdated(t, screen)[2]
    /\ UNCHANGED << cached, watching, wiped >>

(* App_LargeTimerHide: the screen is cleared, whoever had drawn on it. *)
TimerHide ==
    /\ Order /\ Quiet
    /\ timer' = [Halted(timer) EXCEPT !.visible = FALSE, !.rendered = -1, !.preempted = FALSE]
    /\ screen' = Drawn("blank")
    /\ wiped' = Wiped
    /\ UNCHANGED << cached, watching >>

-----------------------------------------------------------------------------
(* The display side of the mode changes of AppMode. *)
(* AppShell_DisableOledStreams *)
StreamsDisabled == {}

CompetitionArm ==
    /\ mode = "debug"
    /\ mode' = "armed"
    /\ watching' = StreamsDisabled
    /\ UNCHANGED << screen, cached, wiped >>

DebugModeEnter ==
    /\ mode = "armed"
    /\ mode' = "debug"
    /\ screen' = Drawn("blank") /\ cached' = NoPage /\ wiped' = FALSE
    /\ UNCHANGED watching

Run ==
    /\ << mode, mode' >> \in {<< "armed", "racing" >>, << "racing", "armed" >>}
    /\ UNCHANGED << screen, cached, watching, wiped >>

FaultSet ==
    /\ mode # "fault"
    /\ mode' = "fault"
    /\ UNCHANGED << screen, cached, watching, wiped >>

ModeChange ==
    /\ Order
    /\ mode' \in Racing \cup {"debug", "fault"}
    /\ CompetitionArm \/ DebugModeEnter \/ Run \/ FaultSet
    /\ UNCHANGED << selected, waited, timer >>

(* A slot is chosen, a step or a second of the program passes, a result expires.  *)
SelectPage ==
    /\ Order
    /\ mode \in Racing
    /\ selected' \in Selections
    /\ UNCHANGED << mode, screen, cached, waited, timer, watching, wiped >>

PanelShell ==
    \/ \E m \in Monitors : PanelMonitorOn(m) \/ PanelMonitorOff(m)
    \/ OledCommand \/ TimerStart \/ TimerStop \/ TimerResume \/ TimerReset \/ TimerHide

-----------------------------------------------------------------------------
DisplayInit ==
    /\ mode = "armed"
    /\ selected \in Selections
    /\ screen = Drawn("blank") /\ cached = NoPage /\ waited = Refresh
    /\ timer = TimerOff
    /\ watching = {}
    /\ wiped = FALSE
    /\ panelOrders = 0

DisplayNext ==
    \/ TimerUpdate \/ StatusTask \/ PanelTick \/ ModeChange \/ SelectPage \/ PanelShell
    \/ \E m \in Monitors : MonitorTask(m)

(* The tasks and the clock never stop. *)
DisplayFairness ==
    WF_displayVars(StatusTask) /\ WF_displayVars(TimerUpdate) /\ WF_displayVars(PanelTick)
DisplaySpec == DisplayInit /\ [][DisplayNext]_displayVars /\ DisplayFairness

-----------------------------------------------------------------------------
DisplayTypeOK ==
    /\ mode \in Racing \cup {"debug", "fault"}
    /\ selected \in Selections
    /\ IF screen.by = "comp" THEN screen.page \in Pages
       ELSE screen \in {Drawn(b) : b \in {"blank", "timer", "fault", "text"} \cup Monitors}
    /\ cached = NoPage \/ cached \in Pages
    /\ waited \in 0..Refresh
    /\ timer \in [visible : BOOLEAN, running : BOOLEAN, saturated : BOOLEAN,
                  accumulated : 0..LongestTime, since : 0..LongestTime, rendered : -1..LongestTime,
                  preempted : BOOLEAN]
    /\ timer.running => timer.visible /\ ~timer.saturated
    /\ watching \subseteq Monitors

(* The monitors exclude each other, and none is left enabled in the competition   *)
(* modes, where it would come back the moment they end (ImuOledSetEnabled,        *)
(* GrayOledSetEnabled, AppShell_DisableOledStreams).                              *)
OneMonitor == Cardinality(watching) <= 1 /\ (mode \in Racing => watching = {})

(* The competition page catches up with the mode and the selection, unless a      *)
(* timer wiped it unnoticed (App_CompetitionOledUpdate).                          *)
Competing == mode \in Racing /\ ~timer.visible
PageShows(m, s) == screen = Page(m, s) \/ ~Competing \/ mode # m \/ selected # s
PageFollows == \A m \in Racing, s \in Selections : []<>(PageShows(m, s) \/ wiped)

================================================================================
