--------------------------- MODULE DesktopUpdate ---------------------------
(***************************************************************************)
(* The self update of the desktop shell: the flow of                       *)
(* apps/desktop/src/update/flow.ts (a check, a download and an             *)
(* installation, each started by a timer, a menu or a click and guarded by *)
(* the promises checking, interacting and acting), the backend bridge of   *)
(* main.ts that stops and restarts the Host, and the shell's own way out.  *)
(* electron-updater, Squirrel, the dialogs and the Host process are the    *)
(* environment. A promise continuation runs before the next timer or       *)
(* click, so what awaits a check goes on in the step that settles it.      *)
(***************************************************************************)
EXTENDS Naturals

CONSTANTS
  Versions,   \* the versions newer than this one that the feed may offer
  NoVersion,  \* no version, no package
  MaxOverdue  \* bound: checks that outlive their timeout of 30 s

ASSUME VersionsAssumption == NoVersion \notin Versions /\ MaxOverdue \in Nat

VARIABLES
  phase,         \* the UpdateStatus the page shows
  pending,       \* pendingVersion: offered, not downloaded
  ready,         \* the downloaded package [label, content], or NoVersion
  checking,      \* a check is in flight
  overdue,       \* "no", "running" (timed out, not answered yet) or "answered"
  overdues,      \* how many checks timed out
  target,        \* the version electron-updater would download
  interacting,   \* a manual check: "none", "checking", "asking", "joined", "telling"
  offered,       \* the version its question names
  waiting,       \* downloadNow awaits the check in flight
  acting,        \* the step of the single action
  version,       \* the version the action works on
  fetching,      \* what electron-updater downloads for it
  fault,         \* what the open error dialog reports
  manual,        \* this build can only be replaced by hand
  owns,          \* ownsBackend: the shell spawned the Host
  backend,       \* the Host: "up", "starting" (late), "signalled", "down"
  intended,      \* stoppingIntentionally
  quitForUpdate, \* the installer may take the application down
  exited         \* the application is gone

offers == <<pending, ready, overdue, overdues, target>>
action == <<acting, version, fetching>>
shell == <<backend, intended, quitForUpdate, exited>>
platform == <<manual, owns>>
updateVars == <<phase, offers, checking, interacting, offered, waiting, action, fault,
                shell, platform>>

Offer == Versions \cup {NoVersion}

Package == [label : Versions, content : Offer]

ASSUME PackageAssumption == NoVersion \notin Package

InstallStep ==
  {"preparing", "preflight", "asking", "stopping", "installing", "restarting"}

(* The steps during which the Host is stopped.                             *)
Interrupting == {"stopping", "installing", "restarting"}

UpdateTypeOK ==
  /\ phase \in {"idle", "checking", "available", "downloading", "ready", "installing"}
  /\ pending \in Offer /\ target \in Offer /\ version \in Offer
  /\ offered \in Offer /\ fetching \in Offer
  /\ ready \in Package \cup {NoVersion}
  /\ checking \in BOOLEAN /\ waiting \in BOOLEAN
  /\ overdue \in {"no", "running", "answered"} /\ overdues \in 0..MaxOverdue
  /\ interacting \in {"none", "checking", "asking", "joined", "telling"}
  /\ acting \in InstallStep \cup {"none", "detecting", "downloading", "opening", "reporting"}
  /\ fault \in {"none", "download", "open", "install", "restart"}
  /\ manual \in BOOLEAN /\ owns \in BOOLEAN
  /\ backend \in {"up", "starting", "signalled", "down"}
  /\ intended \in BOOLEAN /\ quitForUpdate \in BOOLEAN /\ exited \in BOOLEAN

UpdateInit ==
  /\ phase = "idle" /\ pending = NoVersion /\ ready = NoVersion
  /\ checking = FALSE /\ overdue = "no" /\ overdues = 0 /\ target = NoVersion
  /\ interacting = "none" /\ offered = NoVersion /\ waiting = FALSE
  /\ acting = "none" /\ version = NoVersion /\ fetching = NoVersion /\ fault = "none"
  /\ manual \in BOOLEAN /\ owns \in BOOLEAN
  /\ backend = "up" /\ intended = FALSE /\ quitForUpdate = FALSE /\ exited = FALSE

(* restore(): the entry the page shows when nothing is going on.           *)
Resting(r, p) ==
  IF r # NoVersion THEN "ready" ELSE IF p # NoVersion THEN "available" ELSE "idle"

(* installReady() and download(v), entered through singleAction.           *)
Install ==
  /\ version' = ready.label /\ fetching' = NoVersion
  /\ acting' = IF manual THEN "opening" ELSE "preparing"

Download(v) ==
  /\ version' = v /\ fetching' = NoVersion
  /\ acting' = "detecting"

-----------------------------------------------------------------------------
(* Checks.                                                                 *)

(* A timer, the focus of the window or a wake up. *)
AutoCheck ==
  /\ ~checking /\ acting = "none" /\ ready = NoVersion /\ interacting = "none"
  /\ checking' = TRUE
  /\ UNCHANGED <<phase, offers, interacting, offered, waiting, action, fault, shell, platform>>

(* What awaited the check goes on: a manual one tells its result or offers *)
(* the version, a click on the download entry acts on what is there now.   *)
Continue(p, failed) ==
  /\ checking' = FALSE /\ waiting' = FALSE
  /\ IF interacting # "checking" THEN UNCHANGED <<interacting, offered>>
     ELSE IF failed \/ p = NoVersion THEN interacting' = "telling" /\ offered' = NoVersion
     ELSE interacting' = "asking" /\ offered' = p
  /\ IF waiting /\ acting = "none" /\ ready # NoVersion
       THEN Install /\ phase' = IF manual THEN "ready" ELSE "installing"
     ELSE IF waiting /\ acting = "none" /\ p # NoVersion
       THEN Download(p) /\ phase' = "downloading"
     ELSE /\ UNCHANGED action
          /\ phase' = IF acting = "none" THEN Resting(ready, p) ELSE phase
  /\ UNCHANGED <<fault, shell, platform>>

(* electron-updater keeps its target when the feed offers nothing newer.   *)
Targeted(v) == IF v = NoVersion THEN target ELSE v

CheckAnswers(v) ==
  LET p == IF acting # "none" \/ ready # NoVersion THEN pending ELSE v
  IN  /\ checking
      /\ Continue(p, FALSE)
      /\ pending' = p /\ target' = Targeted(v)
      /\ UNCHANGED <<ready, overdue, overdues>>

CheckFails ==
  /\ checking
  /\ Continue(pending, TRUE)
  /\ UNCHANGED offers

(* withTimeout gives up; the request itself goes on, and its answer still  *)
(* reaches electron-updater.                                               *)
CheckTimesOut ==
  /\ checking
  /\ overdue # "running" /\ overdues < MaxOverdue
  /\ Continue(pending, TRUE)
  /\ overdue' = "running" /\ overdues' = overdues + 1
  /\ UNCHANGED <<pending, ready, target>>

OverdueAnswers(v) ==
  /\ overdue = "running" /\ overdue' = "answered"
  /\ target' = Targeted(v)
  /\ UNCHANGED <<phase, pending, ready, overdues, checking, interacting, offered, waiting,
                 action, fault, shell, platform>>

-----------------------------------------------------------------------------
(* The user.                                                               *)

(* The menu entry or the page: a second request joins the first, and a     *)
(* request during a background check joins that check.                     *)
CheckInteractively ==
  /\ interacting = "none"
  /\ IF acting # "none"
       THEN interacting' = "telling" /\ UNCHANGED <<phase, checking, action>>
     ELSE IF ready # NoVersion
       THEN /\ interacting' = "joined" /\ Install
            /\ phase' = IF manual THEN phase ELSE "installing"
            /\ UNCHANGED checking
     ELSE /\ interacting' = "checking" /\ phase' = "checking" /\ checking' = TRUE
          /\ UNCHANGED action
  /\ UNCHANGED <<offers, offered, waiting, fault, shell, platform>>

(* The offer is accepted: it joins the action in flight, if there is one.  *)
AcceptOffer ==
  /\ interacting = "asking"
  /\ interacting' = "joined" /\ offered' = NoVersion
  /\ IF acting = "none" THEN Download(offered) /\ phase' = "downloading"
     ELSE UNCHANGED <<action, phase>>
  /\ UNCHANGED <<offers, checking, waiting, fault, shell, platform>>

CloseDialog ==
  /\ interacting \in {"asking", "telling"}
  /\ interacting' = "none" /\ offered' = NoVersion
  /\ UNCHANGED <<phase, offers, checking, waiting, action, fault, shell, platform>>

(* Variant for mutation: the click does not wait for the check in flight.  *)
DownloadAtOnce ==
  /\ acting = "none"
  /\ IF ready # NoVersion
       THEN Install /\ phase' = IF manual THEN phase ELSE "installing"
       ELSE pending # NoVersion /\ Download(pending) /\ phase' = "downloading"
  /\ UNCHANGED <<offers, checking, waiting, interacting, offered, fault, shell, platform>>

(* The entry of the side bar.                                              *)
DownloadNow ==
  /\ ~waiting
  /\ IF checking THEN waiting' = TRUE /\ UNCHANGED <<phase, action>>
     ELSE /\ acting = "none" /\ UNCHANGED waiting
          /\ IF ready # NoVersion
               THEN Install /\ phase' = IF manual THEN phase ELSE "installing"
               ELSE pending # NoVersion /\ Download(pending) /\ phase' = "downloading"
  /\ UNCHANGED <<offers, checking, interacting, offered, fault, shell, platform>>

-----------------------------------------------------------------------------
(* The action.                                                             *)

(* The action is over, and with it whoever joined it.                      *)
ActionEnds ==
  /\ acting' = "none" /\ version' = NoVersion /\ fetching' = NoVersion /\ fault' = "none"
  /\ interacting' = IF interacting = "joined" THEN "none" ELSE interacting
  /\ UNCHANGED <<checking, offered, waiting>>

Report(f) ==
  /\ acting' = "reporting" /\ fault' = f
  /\ UNCHANGED <<version, fetching, checking, interacting, offered, waiting>>

Proceed(step) ==
  /\ acting' = step
  /\ UNCHANGED <<phase, offers, version, fetching, fault, checking, interacting, offered,
                 waiting, platform>>

(* The signature was looked at; electron-updater downloads its target, and *)
(* after a network failure whatever is its target by then.                 *)
Fetch ==
  /\ acting \in {"detecting", "downloading"}
  /\ acting' = "downloading" /\ fetching' = target
  /\ UNCHANGED <<phase, offers, version, fault, checking, interacting, offered, waiting,
                 shell, platform>>

(* A complete download is offered for installation at once.                *)
Downloaded ==
  /\ acting = "downloading"
  /\ ready' = [label |-> version, content |-> fetching] /\ pending' = NoVersion
  /\ phase' = IF manual THEN "ready" ELSE "installing"
  /\ acting' = IF manual THEN "opening" ELSE "preparing"
  /\ UNCHANGED <<overdue, overdues, target, version, fetching, fault, checking, interacting,
                 offered, waiting, shell, platform>>

DownloadFails ==
  /\ acting = "downloading"
  /\ pending' = version /\ phase' = Resting(ready, version)
  /\ Report("download")
  /\ UNCHANGED <<ready, overdue, overdues, target, shell, platform>>

(* A build without a stable signature: the package is opened by hand, and  *)
(* the Host keeps running.                                                 *)
OpenPackage ==
  /\ acting = "opening"
  /\ \/ ActionEnds
     \/ Report("open")
  /\ UNCHANGED <<phase, offers, shell, platform>>

Prepared ==
  /\ acting = "preparing" /\ Proceed("preflight") /\ UNCHANGED shell

(* listActiveTasks answered: the question names the tasks it would stop.   *)
TasksListed ==
  /\ acting = "preflight" /\ backend # "down"
  /\ Proceed("asking") /\ UNCHANGED shell

PreparationFails ==
  /\ acting \in {"preparing", "preflight"}
  /\ Report("install")
  /\ UNCHANGED <<phase, offers, shell, platform>>

Postpone ==
  /\ acting = "asking"
  /\ phase' = Resting(ready, pending)
  /\ ActionEnds
  /\ UNCHANGED <<offers, shell, platform>>

(* stopBackend(): a Host of somebody else is left alone.                   *)
ConfirmInstall ==
  /\ acting = "asking" /\ Proceed("stopping")
  /\ backend' = IF owns /\ backend # "down" THEN "signalled" ELSE backend
  /\ intended' = (intended \/ backend' = "signalled")
  /\ UNCHANGED <<quitForUpdate, exited>>

Stopped ==
  /\ acting = "stopping" /\ (~owns \/ backend = "down")
  /\ Proceed("installing")
  /\ quitForUpdate' = TRUE
  /\ UNCHANGED <<backend, intended, exited>>

(* Variant for mutation: the wait for the exit has no bound.               *)
StopNeverFails ==
  /\ acting = "stopping" /\ backend = "up" /\ owns
  /\ Report("install")
  /\ UNCHANGED <<phase, offers, shell, platform>>

(* It did not exit within the grace periods.                               *)
StopFails ==
  /\ acting = "stopping" /\ backend = "signalled"
  /\ intended' = FALSE
  /\ Report("install")
  /\ UNCHANGED <<phase, offers, backend, quitForUpdate, exited, platform>>

(* quitAndInstall() reached will-quit: the new version starts.             *)
HandedOver ==
  /\ acting = "installing"
  /\ exited' = TRUE
  /\ UNCHANGED <<phase, offers, checking, interacting, offered, waiting, action, fault,
                 backend, intended, quitForUpdate, platform>>

(* Variant for mutation: the application may still be taken down.          *)
InstallFailsHandedOver ==
  /\ acting = "installing" /\ Proceed("restarting")
  /\ intended' = (intended /\ ~owns)
  /\ UNCHANGED <<backend, quitForUpdate, exited>>

(* It failed or timed out: the Host is started again before anything is    *)
(* said.                                                                   *)
InstallFails ==
  /\ acting = "installing" /\ Proceed("restarting")
  /\ quitForUpdate' = FALSE /\ intended' = (intended /\ ~owns)
  /\ UNCHANGED <<backend, exited>>

Restarted ==
  /\ acting = "restarting"
  /\ backend' = "up"
  /\ Report("install")
  /\ UNCHANGED <<phase, offers, intended, quitForUpdate, exited, platform>>

(* The process died while it started, or was not ready in time.            *)
RestartFails ==
  /\ acting = "restarting" /\ owns
  /\ backend' \in {"down", "starting"}
  /\ Report("restart")
  /\ UNCHANGED <<phase, offers, intended, quitForUpdate, exited, platform>>

CloseReport ==
  /\ acting = "reporting"
  /\ phase' = IF fault \in {"install", "restart"} THEN Resting(ready, pending) ELSE phase
  /\ ActionEnds
  /\ UNCHANGED <<offers, shell, platform>>

-----------------------------------------------------------------------------
(* The shell.                                                              *)

(* The exit event of the Host: an exit nobody asked for ends the           *)
(* application with an error box, once the start had succeeded.            *)
BackendExits ==
  /\ owns /\ backend # "down"
  /\ backend' = "down"
  /\ exited' = (~intended /\ backend # "starting")
  /\ UNCHANGED <<phase, offers, checking, interacting, offered, waiting, action, fault,
                 intended, quitForUpdate, platform>>

(* before-quit: an owned Host is stopped first, unless the update has      *)
(* already stopped it.                                                     *)
Quit ==
  /\ exited' = TRUE
  /\ backend' = IF owns /\ ~quitForUpdate /\ backend # "down" THEN "signalled" ELSE backend
  /\ UNCHANGED <<phase, offers, checking, interacting, offered, waiting, action, fault,
                 intended, quitForUpdate, platform>>

Step ==
  \/ AutoCheck \/ CheckFails \/ CheckTimesOut
  \/ \E v \in Offer : CheckAnswers(v) \/ OverdueAnswers(v)
  \/ CheckInteractively \/ AcceptOffer \/ CloseDialog \/ DownloadNow
  \/ Fetch \/ Downloaded \/ DownloadFails \/ OpenPackage
  \/ Prepared \/ TasksListed \/ PreparationFails \/ Postpone \/ ConfirmInstall
  \/ Stopped \/ StopFails \/ HandedOver \/ InstallFails
  \/ Restarted \/ RestartFails \/ CloseReport
  \/ BackendExits \/ Quit

UpdateNext == ~exited /\ Step

UpdateSpec == UpdateInit /\ [][UpdateNext]_updateVars

(* What the timeouts bound: a stop (10 s and 5 s), a handover (60 s) and a *)
(* start (30 s) settle. No dialog is fair: a user may never answer.        *)
UpdateFairness ==
  /\ WF_updateVars(~exited /\ (Stopped \/ StopFails))
  /\ WF_updateVars(~exited /\ (HandedOver \/ InstallFails))
  /\ WF_updateVars(~exited /\ (Restarted \/ RestartFails))

UpdateFairSpec == UpdateSpec /\ UpdateFairness

-----------------------------------------------------------------------------
(* When nothing is going on, the page shows what there is: a package, an   *)
(* offer or nothing. Every way out of the flow has to restore it.          *)
StatusHonest ==
  acting = "none" /\ ~checking => phase = Resting(ready, pending)

(* electron-updater does one thing at a time: no check is in flight while  *)
(* an update is downloaded or installed, since it may change the target.   *)
OneSourceOperation == ~(checking /\ acting # "none")

(* A package is of the version its entry names, unless a check that had    *)
(* timed out came back later.                                              *)
PackageIsLabelled ==
  ready # NoVersion /\ overdue = "no" => ready.content = ready.label

(* A downloaded package is kept until the application is replaced.         *)
PackageKept == [][ready # NoVersion => ready' # NoVersion]_updateVars

(* flow.ts: first restore the service, then show the error. An attempt     *)
(* that reached the stop of the Host ends with a report, and by then the   *)
(* Host is there again, or the report says that it is not.                 *)
RestoredBeforeError ==
  [][(acting \in Interrupting /\ acting' \notin Interrupting) =>
       acting' = "reporting" /\ (fault' = "restart" \/ backend' # "down")]_updateVars

(* The application never leaves an owned Host running behind.              *)
NoOrphanBackend == exited /\ owns => backend \in {"signalled", "down"}

(* A Host stopped for an update comes back, unless the application went,   *)
(* the stop did not work or the user is told that the start failed.        *)
BackendRestored ==
  (acting \in Interrupting)
    ~> (backend = "up" \/ exited \/ acting = "reporting")
=============================================================================
