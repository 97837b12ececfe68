---------------------------- MODULE PlatformStyle ----------------------------
(***************************************************************************)
(* The GUI's PlatformStyle (src/src/qt/platformstyle.cpp): the style       *)
(* object PlatformStyle::instantiate builds from the platform table, and   *)
(* its single-colour image and icon operations.                            *)
(*                                                                         *)
(* An image is a record [w, h, px] with px a function from the pixel       *)
(* coordinates <<x, y>> to the pixel's colour and alpha, as QImage::pixel  *)
(* reports them; a null QImage (a file that does not load) has w = h = 0.  *)
(* convertToFormat(Format_ARGB32) leaves every pixel's colour and alpha as *)
(* pixel() reads them (an opaque format reads alpha 255), so it is left    *)
(* out.  An icon is a function from its availableSizes() to the image      *)
(* ico.pixmap(sz).toImage() gives at that size.  Colours are RGB triples.  *)
(***************************************************************************)
EXTENDS Naturals, SequencesExt

CONSTANTS
  PlatformIds,  \* the platformId strings callers may pass
  Files,        \* image file names
  FileImage,    \* file -> the QImage(filename) it loads (null if it fails)
  Icons         \* QIcon values callers may pass

\* The table platform_styles[]: id -> imagesOnButtons, colorizeIcons,
\* useExtraSpacing.
PlatformStyles ==
  [macosx  |-> [imagesOnButtons |-> FALSE, colorizeIcons |-> FALSE, useExtraSpacing |-> TRUE],
   windows |-> [imagesOnButtons |-> TRUE,  colorizeIcons |-> TRUE,  useExtraSpacing |-> FALSE],
   other   |-> [imagesOnButtons |-> TRUE,  colorizeIcons |-> TRUE,  useExtraSpacing |-> FALSE]]

\* SetPaletteX(): the one colour the style reads from it, WindowText of the
\* Active group (QPalette::color reads the current group, Active).
PaletteXWindowText == <<236, 236, 236>>

BLACK == <<0, 0, 0>>
SINGLE_COLOR == <<228, 221, 255>>

NullStyle == [none |-> TRUE]
NullImage == [w |-> 0, h |-> 0, px |-> [p \in {} |-> BLACK]]

(***************************************************************************)
(* The PlatformStyle constructor.  When colorizeIcons is set it computes a *)
(* colorbase from the palette's Highlight, HighlightedText and WindowText  *)
(* lightness, and then overwrites singleColor with QColor(228,221,255)     *)
(* (line 159), so only that constant remains; textColor is WindowText.     *)
(***************************************************************************)
NewPlatformStyle(id) ==
  [name |-> id, colorizeIcons |-> PlatformStyles[id].colorizeIcons,
   imagesOnButtons |-> PlatformStyles[id].imagesOnButtons,
   useExtraSpacing |-> PlatformStyles[id].useExtraSpacing,
   singleColor |-> IF PlatformStyles[id].colorizeIcons THEN SINGLE_COLOR ELSE BLACK,
   textColor |-> PaletteXWindowText]

\* One pixel of MakeSingleColorImage: the base colour, the pixel's alpha.
Recolor(img, x, y, c) ==
  [img EXCEPT !.px[<<x, y>>] = [rgb |-> c, a |-> img.px[<<x, y>>].a]]

(***************************************************************************)
(* The pixels in the order MakeSingleColorImage visits them:               *)
(*   for (int x = img.width(); x--; ) for (int y = img.height(); y--; )    *)
(* runs its body for x = w-1 down to 0 and, for each, y = h-1 down to 0.   *)
(***************************************************************************)
LoopOrder(w, h) ==
  [k \in 1..(w * h) |-> <<(w - 1) - ((k - 1) \div h), (h - 1) - ((k - 1) % h)>>]

\* Mutant of MakeSingleColorImage: the x loop starts from width() - 1.
MakeSingleColorImageFromLast(img, c) ==
  FoldLeft(LAMBDA i, p : Recolor(i, p[1], p[2], c), img,
           LoopOrder(IF img.w = 0 THEN 0 ELSE img.w - 1, img.h))

\* MakeSingleColorImage(img, colorbase), after the format conversion.
MakeSingleColorImage(img, c) ==
  FoldLeft(LAMBDA i, p : Recolor(i, p[1], p[2], c), img, LoopOrder(img.w, img.h))

\* ColorizeImage(filename, colorbase): load, then recolour.
ColorizeImage(f, c) == MakeSingleColorImage(FileImage[f], c)

\* QIcon(QPixmap::fromImage(img)): one size, or a null icon for a null image.
IconOfImage(img) ==
  IF img.w = 0 THEN [sz \in {} |-> img] ELSE [sz \in {<<img.w, img.h>>} |-> img]

\* ColorizeIcon(ico, colorbase): each available size recoloured into a new icon.
ColorizeIcon(ico, c) == [sz \in DOMAIN ico |-> MakeSingleColorImage(ico[sz], c)]

VARIABLES
  style,   \* the const PlatformStyle* the caller holds, or NullStyle
  call,    \* the last operation called and its argument (history)
  out      \* its result: an image or an icon

psVars == <<style, call, out>>

Init ==
  /\ style = NullStyle
  /\ call = [op |-> "none"]
  /\ out = NullImage

\* PlatformStyle::instantiate(platformId): the first table row with that
\* id, or nullptr.
Instantiate(id) ==
  /\ style' = IF id \in DOMAIN PlatformStyles THEN NewPlatformStyle(id) ELSE NullStyle
  /\ call' = [op |-> "instantiate", arg |-> id]
  /\ out' = NullImage

\* SingleColorImage(filename): the file as it is, or colourised.
SingleColorImage(f) ==
  /\ style /= NullStyle
  /\ out' = IF ~style.colorizeIcons THEN FileImage[f]
            ELSE ColorizeImage(f, style.singleColor)
  /\ call' = [op |-> "image", arg |-> f]
  /\ UNCHANGED style

\* SingleColorIcon(filename): QIcon(filename), or ColorizeIcon(filename, ..).
SingleColorIconFile(f) ==
  /\ style /= NullStyle
  /\ out' = IF ~style.colorizeIcons THEN IconOfImage(FileImage[f])
            ELSE IconOfImage(ColorizeImage(f, style.singleColor))
  /\ call' = [op |-> "iconFile", arg |-> f]
  /\ UNCHANGED style

\* SingleColorIcon(const QIcon&): the icon itself, or colourised.
SingleColorIcon(ico) ==
  /\ style /= NullStyle
  /\ out' = IF ~style.colorizeIcons THEN ico ELSE ColorizeIcon(ico, style.singleColor)
  /\ call' = [op |-> "icon", arg |-> ico]
  /\ UNCHANGED style

\* TextColorIcon(icon): always colourised, with the text colour.
TextColorIcon(ico) ==
  /\ style /= NullStyle
  /\ out' = ColorizeIcon(ico, style.textColor)
  /\ call' = [op |-> "textIcon", arg |-> ico]
  /\ UNCHANGED style

Next ==
  \/ \E id \in PlatformIds : Instantiate(id)
  \/ \E f \in Files : SingleColorImage(f) \/ SingleColorIconFile(f)
  \/ \E ico \in Icons : SingleColorIcon(ico) \/ TextColorIcon(ico)

Spec == Init /\ [][Next]_psVars

-----------------------------------------------------------------------------
\* The image every pixel of which has colour c and the alpha of img's pixel.
Tinted(img, c) ==
  [img EXCEPT !.px = [p \in DOMAIN img.px |-> [rgb |-> c, a |-> img.px[p].a]]]

TintedIcon(ico, c) == [sz \in DOMAIN ico |-> Tinted(ico[sz], c)]

(***************************************************************************)
(* Single-colour and text-colour images and icons keep the shape of their  *)
(* source: the same sizes, and at each size every pixel recoloured with    *)
(* the style's colour and keeping its own alpha, none skipped by the       *)
(* count-down loops; a style that does not colourise returns the source.   *)
(***************************************************************************)
ColorizedExact ==
  LET c == IF call.op = "textIcon" THEN style.textColor ELSE style.singleColor
      tint == call.op = "textIcon" \/ (call.op /= "instantiate" /\ call.op /= "none"
                                        /\ style.colorizeIcons)
  IN  /\ call.op = "image" =>
           out = IF tint THEN Tinted(FileImage[call.arg], c) ELSE FileImage[call.arg]
      /\ call.op = "iconFile" =>
           out = IconOfImage(IF tint THEN Tinted(FileImage[call.arg], c)
                             ELSE FileImage[call.arg])
      /\ call.op \in {"icon", "textIcon"} =>
           out = IF tint THEN TintedIcon(call.arg, c) ELSE call.arg
=============================================================================
