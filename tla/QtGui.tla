-------------------------------- MODULE QtGui --------------------------------
(***************************************************************************)
(* The Qt layer of the client: the update dialog with its GitHub updater   *)
(* (UpdaterWindow) and the platform style (PlatformStyle).  Both live on   *)
(* the GUI thread, whose event loop runs one slot or call at a time, so    *)
(* the composition interleaves their steps; they share no state.           *)
(***************************************************************************)
CONSTANTS URLs, Received, Totals, MaxEntries, MaxClicks, MaxInstalls,
          PlatformIds, Files, FileImage, Icons

VARIABLES ui, closed, btnEnabled, progressVisible, progress, latestURL, downloads,
          checkStarted, installs, style, call, out

UW == INSTANCE UpdaterWindow
PS == INSTANCE PlatformStyle

uwVars == <<ui, closed, btnEnabled, progressVisible, progress, latestURL, downloads,
           checkStarted, installs>>
psVars == <<style, call, out>>
vars == <<uwVars, psVars>>

Init == UW!Init /\ PS!Init

Next ==
  \/ UW!Next /\ UNCHANGED psVars
  \/ PS!Next /\ UNCHANGED uwVars

Spec == Init /\ [][Next]_vars

-----------------------------------------------------------------------------
\* See UpdaterWindow: the progress bar stays in 0..100.
ProgressInRange == UW!ProgressInRange

\* See PlatformStyle: colourised images and icons are exact recolourings.
ColorizedExact == PS!ColorizedExact
=============================================================================
