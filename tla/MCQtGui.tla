------------------------------- MODULE MCQtGui -------------------------------
(***************************************************************************)
(* Updater: two update URLs, changelogs of up to two entries, byte counts *)
(* below, at and above each other with an unknown (-1) and a zero total,   *)
(* two clicks and two installer launches.  Platform style: every id of the*)
(* table and one that is not in it, image files of 2x2, 3x1 and 1x2        *)
(* pixels and one that does not load, and icons with none, one and two    *)
(* sizes.  Pixels differ in alpha, so a skipped or misplaced pixel shows.  *)
(***************************************************************************)
EXTENDS QtGui, Integers, TLC

MCURLs == {"u1", "u2"}
MCReceived == {0, 50, 100}
MCTotals == {-1, 0, 100}
MCMaxEntries == 2
MCMaxClicks == 2
MCMaxInstalls == 2

MCPlatformIds == {"macosx", "windows", "other", "linux"}

WHITE == <<255, 255, 255>>
GREY == <<128, 128, 128>>
Px(rgb, a) == [rgb |-> rgb, a |-> a]
Img(w, h, F(_, _)) ==
  [w |-> w, h |-> h, px |-> [p \in (0..(w - 1)) \X (0..(h - 1)) |-> F(p[1], p[2])]]

I22 == Img(2, 2, LAMBDA x, y : Px(IF x = y THEN WHITE ELSE GREY, 85 * (x + 2 * y)))
I31 == Img(3, 1, LAMBDA x, y : Px(GREY, 100 + x))
I12 == Img(1, 2, LAMBDA x, y : Px(WHITE, 255 - y))

MCFiles == {"a.png", "b.png", "c.png", "missing.png"}
MCFileImage ==
  ("a.png" :> I22) @@ ("b.png" :> I31) @@ ("c.png" :> I12)
    @@ ("missing.png" :> Img(0, 0, LAMBDA x, y : Px(GREY, 0)))

MCIcons == {[sz \in {} |-> I22], (<<2, 2>> :> I22) @@ (<<1, 2>> :> I12), <<3, 1>> :> I31}
=============================================================================
