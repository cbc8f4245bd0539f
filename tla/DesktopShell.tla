---------------------------- MODULE DesktopShell ----------------------------
(***************************************************************************)
(* The desktop shell, electron/main.js: it starts the server, waits until  *)
(* the port answers, shows windows and a tray icon, reports a server that  *)
(* crashed, and takes the server down when it quits.                       *)
(*                                                                         *)
(* Electron, node and the server are external: windows are closed when a   *)
(* handler does not prevent it, a destroyed request that has no answer yet *)
(* reports an error, SIGKILL ends the server, and SIGTERM may or may not.  *)
(***************************************************************************)
EXTENDS Integers, FiniteSets

CONSTANTS
    Windows,        \* the windows the shell may create
    NoWindow,       \* mainWindow === null
    MaxRetries      \* attempts to reach the port (30 in the code)

ASSUME ShellAssumption ==
    /\ IsFiniteSet(Windows)
    /\ NoWindow \notin Windows
    /\ MaxRetries \in Nat \ {0}

VARIABLES
    isDev,      \* NODE_ENV is development: the servers are not the shell's
    phase,      \* of startServer: starting, resolved or rejected
    attempt,    \* currentAttempt
    probes,     \* requests to the port that are out or waiting for their delay
    serverProcess, \* the server process: none, running, done (0 or a signal) or crashed
    held,       \* serverProcess is not null
    windows,    \* window -> unused, visible, hidden or closed
    main,       \* mainWindow
    tray,       \* the tray icon exists
    dialogs,    \* the message boxes that are open
    quitting,   \* app.isQuitting
    killing,    \* before-quit has asked the server to end and set its timer
    exited,     \* the application has ended
    asked,      \* (history) somebody asked it to quit
    early       \* (history) a window was opened before the server answered

shellVars == <<isDev, phase, attempt, probes, serverProcess, held, windows, main, tray,
          dialogs, quitting, killing, exited, asked, early>>

startup == <<phase, attempt, probes, tray>>
process == <<serverProcess, held>>
display == <<windows, main, early>>
ending  == <<quitting, killing, exited, asked>>

Live == {w \in Windows : windows[w] \in {"visible", "hidden"}}

-----------------------------------------------------------------------------
(* Windows *)

createWindow(first) ==
    \E w \in Windows :
        /\ windows[w] = "unused"
        /\ windows' = [windows EXCEPT ![w] = "visible"]
        /\ main' = w
        /\ early' = (early \/ first)

\* The handlers of close and closed of a window: unless the application is
\* quitting the close is prevented and the main window, whichever was closed,
\* is hidden.
Close(w) ==
    IF quitting
    THEN /\ windows' = [windows EXCEPT ![w] = "closed"]
         /\ main' = NoWindow
    ELSE /\ windows' = IF main \in Live THEN [windows EXCEPT ![main] = "hidden"] ELSE windows
         /\ UNCHANGED main

UserCloses ==
    /\ ~exited
    /\ \E w \in Live : windows[w] = "visible" /\ Close(w)
    /\ UNCHANGED <<isDev, startup, process, dialogs, ending, early>>

\* Show in the tray menu and a click on the icon; the click also hides.
TrayShows ==
    /\ ~exited /\ tray
    /\ \/ main = NoWindow /\ createWindow(FALSE)
       \/ /\ main \in Live
          /\ windows' = [windows EXCEPT ![main] = "visible"]
          /\ UNCHANGED <<main, early>>
    /\ UNCHANGED <<isDev, startup, process, dialogs, ending>>

TrayHides ==
    /\ ~exited /\ tray
    /\ main \in Live /\ windows[main] = "visible"
    /\ windows' = [windows EXCEPT ![main] = "hidden"]
    /\ UNCHANGED <<isDev, startup, process, dialogs, ending, main, early>>

\* macOS: the icon in the dock opens a window when there is none.
Activate ==
    /\ ~exited
    /\ Live = {}
    /\ createWindow(phase = "starting")
    /\ UNCHANGED <<isDev, startup, process, dialogs, ending>>

-----------------------------------------------------------------------------
(* Starting: checkServerAvailability *)

\* A request is sent; its delay, if it had one, is over.
tryConnect ==
    /\ ~exited
    /\ probes.due > 0
    /\ attempt' = attempt + 1
    /\ probes' = [due |-> probes.due - 1, out |-> probes.out + 1]
    /\ UNCHANGED <<isDev, phase, tray, process, display, dialogs, ending>>

\* Somebody answers on the port: the shell's own server, or another program.
\* The first settlement of the promise counts.
Answered ==
    /\ ~exited
    /\ probes.out > 0
    /\ probes' = [probes EXCEPT !.out = @ - 1]
    /\ IF phase = "starting"
       THEN phase' = "resolved" /\ tray' = TRUE /\ createWindow(FALSE)
       ELSE UNCHANGED <<phase, tray, display>>
    /\ UNCHANGED <<isDev, attempt, process, dialogs, ending>>

\* Mutant of Reject: nobody handles the rejection.
RejectUnheard == UNCHANGED <<phase, dialogs>>

Reject ==
    IF phase = "starting"
    THEN phase' = "rejected" /\ dialogs' = dialogs \cup {"startup"}
    ELSE UNCHANGED <<phase, dialogs>>

Failed(again) ==
    /\ ~exited
    /\ probes.out > 0
    /\ IF attempt >= MaxRetries
       THEN probes' = [probes EXCEPT !.out = @ - 1] /\ Reject
       ELSE probes' = [due |-> probes.due + again, out |-> probes.out - 1]
            /\ UNCHANGED <<phase, dialogs>>
    /\ UNCHANGED <<isDev, attempt, tray, process, display, ending>>

Refused == Failed(1)

\* The handler of timeout destroys the request, which then reports an error
\* too: both handlers set a timer.
TimesOut == Failed(2)

SpawnFails ==
    /\ ~exited
    /\ serverProcess = "running" /\ phase = "starting"
    /\ serverProcess' = "crashed"
    /\ phase' = "rejected"
    /\ dialogs' = dialogs \cup {"startup", "crash"}
    /\ UNCHANGED <<isDev, attempt, probes, tray, held, display, ending>>

-----------------------------------------------------------------------------
(* The server ends *)

\* Mutant of ServerCloses: a crash before the port answers is left to the startup error.
ServerClosesQuietly(how) ==
    /\ ~exited
    /\ serverProcess = "running"
    /\ serverProcess' = how
    /\ IF how = "crashed" /\ phase # "starting"
       THEN dialogs' = dialogs \cup {"crash"} /\ UNCHANGED <<windows, main>>
       ELSE /\ IF main \in Live THEN Close(main) ELSE UNCHANGED <<windows, main>>
            /\ UNCHANGED dialogs
    /\ held' = (held /\ ~killing)
    /\ exited' = killing
    /\ UNCHANGED <<isDev, startup, early, quitting, killing, asked>>

\* The handler of close that startServer registered, and, once before-quit has
\* run, the one it registered.
ServerCloses(how) ==
    /\ ~exited
    /\ serverProcess = "running"
    /\ serverProcess' = how
    /\ IF how = "crashed"
       THEN dialogs' = dialogs \cup {"crash"} /\ UNCHANGED <<windows, main>>
       ELSE /\ IF main \in Live THEN Close(main) ELSE UNCHANGED <<windows, main>>
            /\ UNCHANGED dialogs
    /\ held' = (held /\ ~killing)
    /\ exited' = killing
    /\ UNCHANGED <<isDev, startup, early, quitting, killing, asked>>

-----------------------------------------------------------------------------
(* Quitting *)

\* app.quit: before-quit, then, unless that prevented it, every window is
\* asked to close.
quit(flag) ==
    /\ quitting' = flag
    /\ asked' = TRUE
    /\ IF held
       THEN killing' = TRUE /\ UNCHANGED <<exited, windows, main>>
       ELSE /\ UNCHANGED killing
            /\ IF flag \/ Live = {}
               THEN /\ exited' = TRUE
                    /\ windows' = [w \in Windows |->
                                     IF w \in Live THEN "closed" ELSE windows[w]]
                    /\ main' = NoWindow
               ELSE /\ windows' = IF main \in Live
                                  THEN [windows EXCEPT ![main] = "hidden"] ELSE windows
                    /\ UNCHANGED <<exited, main>>

TrayQuits ==
    /\ ~exited /\ tray
    /\ quit(TRUE)
    /\ UNCHANGED <<isDev, startup, process, dialogs, early>>

\* The application menu or the system asks the application to quit.
SystemQuits ==
    /\ ~exited
    /\ quit(quitting)
    /\ UNCHANGED <<isDev, startup, process, dialogs, early>>

\* Both buttons of both message boxes, the full log being shown or not, lead
\* to app.quit; only that of the crash sets isQuitting.
Answers(box) ==
    /\ ~exited
    /\ box \in dialogs
    /\ dialogs' = dialogs \ {box}
    /\ quit(quitting \/ box = "crash")
    /\ UNCHANGED <<isDev, startup, process, early>>

\* Mutant of KillTimer: the shell exits without SIGKILL.
ExitWithoutKill ==
    /\ ~exited /\ killing
    /\ exited' = TRUE
    /\ UNCHANGED <<isDev, startup, process, display, dialogs, quitting, killing, asked>>

\* Mutant of KillTimer: the timer is cleared once the server has ended.
KillTimerIfRunning ==
    /\ ~exited /\ killing
    /\ serverProcess = "running"
    /\ serverProcess' = "done"
    /\ exited' = TRUE
    /\ UNCHANGED <<isDev, startup, held, display, dialogs, quitting, killing, asked>>

\* Five seconds after before-quit.
KillTimer ==
    /\ ~exited /\ killing
    /\ serverProcess' = IF held /\ serverProcess = "running" THEN "done" ELSE serverProcess
    /\ exited' = TRUE
    /\ UNCHANGED <<isDev, startup, held, display, dialogs, quitting, killing, asked>>

-----------------------------------------------------------------------------

ShellInit ==
    /\ isDev \in BOOLEAN
    /\ phase = "starting"
    /\ attempt = 0
    /\ probes = [due |-> 1, out |-> 0]
    /\ serverProcess = IF isDev THEN "none" ELSE "running"
    /\ held = ~isDev
    /\ windows = [w \in Windows |-> "unused"]
    /\ main = NoWindow
    /\ tray = FALSE
    /\ dialogs = {}
    /\ quitting = FALSE
    /\ killing = FALSE
    /\ exited = FALSE
    /\ asked = FALSE
    /\ early = FALSE

Probing == tryConnect \/ Answered \/ Refused \/ TimesOut

ShellNext ==
    \/ UserCloses \/ TrayShows \/ TrayHides \/ Activate
    \/ tryConnect \/ Answered \/ Refused \/ TimesOut \/ SpawnFails
    \/ \E how \in {"done", "crashed"} : ServerCloses(how)
    \/ TrayQuits \/ SystemQuits
    \/ \E box \in {"startup", "crash"} : Answers(box)
    \/ KillTimer

\* Timers fire and requests end, by an answer, an error or their timeout.
ShellSpec == ShellInit /\ [][ShellNext]_shellVars /\ WF_shellVars(KillTimer) /\ WF_shellVars(Probing)

-----------------------------------------------------------------------------

\* The shell's state is well typed; in particular no timer is counted that was
\* not set, and the shell has one main window or none.
ShellTypeOK ==
    /\ phase \in {"starting", "resolved", "rejected"}
    /\ attempt \in Nat
    /\ probes \in [due : Nat, out : Nat]
    /\ serverProcess \in {"none", "running", "done", "crashed"}
    /\ windows \in [Windows -> {"unused", "visible", "hidden", "closed"}]
    /\ main \in Windows \cup {NoWindow}
    /\ dialogs \subseteq {"startup", "crash"}
    /\ isDev \in BOOLEAN /\ held \in BOOLEAN /\ tray \in BOOLEAN /\ early \in BOOLEAN
    /\ quitting \in BOOLEAN /\ killing \in BOOLEAN /\ exited \in BOOLEAN /\ asked \in BOOLEAN

\* The server never outlives the shell that started it, whether it ends by
\* itself, on SIGTERM, or not at all.
NoOrphanServer == exited => serverProcess # "running"

\* The shell ends only because somebody asked it to: neither closing windows
\* nor the end of the server takes it down.
ExitsOnlyIfAsked == exited => asked

\* Although a request that times out starts two new ones, the port is tried
\* fewer than twice MaxRetries times.
ProbesBounded == attempt + probes.due <= 2 * MaxRetries - 1

\* If no window was opened before the server answered, there is at most one
\* window, and it is the one the tray icon shows.
OneWindow == ~early => Live \subseteq {main}

\* The shell in every order of probes, clicks, crashes and signals: it leaves no
\* server behind, does not end by itself, opens one window and stops probing.
ShellInv == ShellTypeOK /\ NoOrphanServer /\ ExitsOnlyIfAsked /\ ProbesBounded /\ OneWindow

\* A crash of the server is never silent: until somebody asks the shell to
\* quit, a message box reports it.
CrashIsReported == serverProcess = "crashed" => asked \/ "crash" \in dialogs

\* Quitting through the tray, or with a server to take down, always comes to
\* an end, whatever the server does.
QuitCompletes == (quitting \/ (asked /\ held)) ~> exited

\* Startup settles: the window opens or the failure is reported.
StartupSettles == (phase = "starting") ~> (phase # "starting" \/ exited)
=============================================================================
