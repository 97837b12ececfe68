---------------------------- MODULE UpdaterWindow ----------------------------
(***************************************************************************)
(* The update dialog UpdaterWindow of                                      *)
(* src/src/qt/updater/updaterUI/updatewindow.cpp, as the                   *)
(* UpdateStatusListener of a CAutoUpdaterGithub                            *)
(* (src/src/qt/updater/cautoupdatergithub.cpp).                            *)
(*                                                                         *)
(* Everything runs on the Qt event loop, one slot at a time.  The bodies   *)
(* of checkForUpdates, downloadAndInstallUpdate and                        *)
(* updateCheckRequestFinished are commented out in this build, so the      *)
(* start-up check and the download request do nothing.  The listener       *)
(* callbacks are public slots: the environment may call them in any order, *)
(* and onDownloadProgress may be called with any byte counts, as a         *)
(* QNetworkReply reports them (bytesTotal is -1 while unknown).  Widget    *)
(* texts and layout are left out; a changelog is a sequence of update URLs.*)
(***************************************************************************)
EXTENDS Integers, Sequences

CONSTANTS
  URLs,        \* versionUpdateUrl values of changelog entries
  Received,    \* values of bytesReceived (never negative)
  Totals,      \* values of bytesTotal (-1 while unknown)
  MaxEntries,  \* longest changelog
  MaxClicks,   \* bound on the clicks of the update button
  MaxInstalls  \* bound on the installer launches

ASSUME Received \subseteq Nat /\ Totals \subseteq Int /\ MaxInstalls \in Nat

NoURL == ""    \* latestURL before any changelog (an empty QString)

ChangeLogs == UNION {[1..k -> URLs] : k \in 0..MaxEntries}

VARIABLES
  ui,              \* InitUI has run: the widgets exist and the window is shown
  closed,          \* close() was called
  btnEnabled,      \* btnUpdate->isEnabled()
  progressVisible, \* progressBar->isVisible()
  progress,        \* progressBar->value()
  latestURL,       \* UpdaterWindow::latestURL
  downloads,       \* URLs passed to downloadAndInstallUpdate, in order (history)
  checkStarted,    \* the single-shot timer has fired startUpdateCheck
  installs         \* UpdateInstaller::install calls so far

vars == <<ui, closed, btnEnabled, progressVisible, progress, latestURL, downloads,
          checkStarted, installs>>

\* InitUI: build the widgets with the button disabled and the bar hidden at 0.
InitUIState ==
  [ui |-> TRUE, btnEnabled |-> FALSE, progressVisible |-> FALSE, progress |-> 0]

(***************************************************************************)
(* The constructor: InitUI unless ShowUIIfDownloadAvaible, then a          *)
(* single-shot timer for startUpdateCheck.                                 *)
(***************************************************************************)
Init ==
  /\ \E showUIIfDownloadAvaible \in BOOLEAN :
       IF showUIIfDownloadAvaible
       THEN /\ ui = FALSE /\ btnEnabled = FALSE
            /\ progressVisible = FALSE /\ progress = 0
       ELSE /\ ui = InitUIState.ui /\ btnEnabled = InitUIState.btnEnabled
            /\ progressVisible = InitUIState.progressVisible
            /\ progress = InitUIState.progress
  /\ closed = FALSE
  /\ latestURL = NoURL
  /\ downloads = <<>>
  /\ checkStarted = FALSE
  /\ installs = 0

\* The timer fires startUpdateCheck -> checkForUpdates(), whose body is
\* commented out: nothing else changes.
StartUpdateCheck ==
  /\ ~checkStarted
  /\ checkStarted' = TRUE
  /\ UNCHANGED <<ui, closed, btnEnabled, progressVisible, progress, latestURL, downloads,
                 installs>>

(***************************************************************************)
(* onUpdateAvailable: an empty changelog closes the window; otherwise the  *)
(* widgets are built if they were not (InitUI ends with show(), which      *)
(* opens a window closed before), and each entry in turn sets latestURL    *)
(* and enables the button, so the last entry wins.                         *)
(***************************************************************************)
OnUpdateAvailable(changelog) ==
  \/ /\ changelog = <<>>
     /\ closed' = TRUE
     /\ UNCHANGED <<ui, btnEnabled, progressVisible, progress, latestURL, downloads,
                   checkStarted, installs>>
  \/ /\ changelog /= <<>>
     /\ ui' = TRUE
     /\ progressVisible' = IF ui THEN progressVisible ELSE InitUIState.progressVisible
     /\ progress' = IF ui THEN progress ELSE InitUIState.progress
     /\ latestURL' = changelog[Len(changelog)]
     /\ btnEnabled' = TRUE
     /\ closed' = IF ui THEN closed ELSE FALSE
     /\ UNCHANGED <<downloads, checkStarted, installs>>

\* Mutant of ProgressPercent: the received < total test dropped.
ProgressPercentUnguarded(received, total) ==
  IF total = 0 THEN 100 ELSE (received * 100) \div total

\* onDownloadProgress: received < total ? received * 100 / total : 100,
\* then updateProgressBar's static_cast<int>, which truncates; both
\* operands are non-negative when the division is taken.
ProgressPercent(received, total) ==
  IF received < total THEN (received * 100) \div total ELSE 100

\* CAutoUpdaterGithub::onDownloadProgress -> onUpdateDownloadProgress ->
\* updateProgressBar, which writes the bar only if the widgets exist.
OnDownloadProgress(received, total) ==
  /\ progress' = IF ui THEN ProgressPercent(received, total) ELSE progress
  /\ UNCHANGED <<ui, closed, btnEnabled, progressVisible, latestURL, downloads,
                 checkStarted, installs>>

\* onUpdateDownloadFinished: the button is enabled again.
OnUpdateDownloadFinished ==
  /\ btnEnabled' = ui
  /\ UNCHANGED <<ui, closed, progressVisible, progress, latestURL, downloads,
                 checkStarted, installs>>

\* onUpdateError: the error label is set and the button enabled.
OnUpdateError ==
  /\ btnEnabled' = ui
  /\ UNCHANGED <<ui, closed, progressVisible, progress, latestURL, downloads,
                 checkStarted, installs>>

(***************************************************************************)
(* A click on the enabled button of the open window: disable it, show the *)
(* bar, and call downloadAndInstallUpdate(latestURL) (a no-op body).       *)
(***************************************************************************)
OnbtnUpdateClicked ==
  /\ ui /\ ~closed /\ btnEnabled
  /\ Len(downloads) < MaxClicks
  /\ btnEnabled' = FALSE
  /\ progressVisible' = TRUE
  /\ downloads' = Append(downloads, latestURL)
  /\ UNCHANGED <<ui, closed, progress, latestURL, checkStarted, installs>>

(***************************************************************************)
(* CAutoUpdaterGithub::updateDownloaded for a finished reply: close the    *)
(* file; on a reply error call onUpdateError; otherwise call               *)
(* onUpdateDownloadFinished, launch the installer, and call onUpdateError  *)
(* if it fails.  Every listener call enables the button when it exists, so *)
(* the installer's result (always true on Linux) changes nothing further.  *)
(* _downloadedBinaryFile is never opened in this build (the body of        *)
(* downloadAndInstallUpdate is commented out), so close() changes nothing, *)
(* and a call without a sender returns right after it: a stutter.          *)
(***************************************************************************)
UpdateDownloaded(replyError) ==
  /\ btnEnabled' = ui
  /\ IF replyError THEN UNCHANGED installs
     ELSE /\ installs < MaxInstalls
          /\ installs' = installs + 1
  /\ UNCHANGED <<ui, closed, progressVisible, progress, latestURL, downloads,
                 checkStarted>>

Next ==
  \/ StartUpdateCheck
  \/ \E c \in ChangeLogs : OnUpdateAvailable(c)
  \/ \E r \in Received, t \in Totals : OnDownloadProgress(r, t)
  \/ OnUpdateDownloadFinished
  \/ OnUpdateError
  \/ OnbtnUpdateClicked
  \/ \E e \in BOOLEAN : UpdateDownloaded(e)

Spec == Init /\ [][Next]_vars

-----------------------------------------------------------------------------
TypeOK ==
  /\ ui \in BOOLEAN /\ closed \in BOOLEAN /\ btnEnabled \in BOOLEAN
  /\ progressVisible \in BOOLEAN /\ checkStarted \in BOOLEAN
  /\ latestURL \in URLs \cup {NoURL}
  /\ downloads \in Seq(URLs \cup {NoURL})
  /\ installs \in 0..MaxInstalls

(***************************************************************************)
(* The progress bar, whose range is set to 0..100 by InitUI, is only ever *)
(* given values in that range, whatever byte counts the reply reports and *)
(* in whatever order the callbacks arrive.                                 *)
(***************************************************************************)
ProgressInRange == progress \in 0..100
=============================================================================
