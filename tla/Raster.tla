-------------------------------- MODULE Raster --------------------------------
(***************************************************************************)
(* display.Prepare and display.Status: which pixel of the decoded image is *)
(* shown where on the panel.  A picture has an origin, since a decoded     *)
(* GIF frame need not start at 0, a size, and a pixel at each position.    *)
(* The arithmetic is exact where the code's is floating point; decoding and *)
(* the conversion to grey leave a pixel where it is and are left out.       *)
(***************************************************************************)
EXTENDS Integers

CONSTANTS
  Pixels,
  White, Ink,     \* of the status screen
  Width, Height,  \* display_width and display_height
  Rotation,       \* fbink_rotation, in quarter turns clockwise
  SkipRotation    \* is the image turned instead of the framebuffer?

Size == Nat \ {0}

Area(w, h) == (0 .. w - 1) \X (0 .. h - 1)
Pictures == [x : Int, y : Int, w : Size, h : Size, at : [Int \X Int -> Pixels]]

-----------------------------------------------------------------------------
(* Preparation. *)

\* rotate90CW: the result starts at 0.
Turn(p) ==
  [x |-> 0, y |-> 0, w |-> p.h, h |-> p.w,
   at |-> [q \in Int \X Int |-> p.at[<<p.x + q[2], p.y + p.h - 1 - q[1]>>]]]

Turned(p, n) ==
  CASE n = 1 -> Turn(p)
    [] n = 2 -> Turn(Turn(p))
    [] n = 3 -> Turn(Turn(Turn(p)))
    [] OTHER -> p

Landscape(p) == IF p.w < p.h THEN Turn(p) ELSE p

\* The picture is scaled to cover the panel: by its width when that needs the
\* larger factor, and then rows are cropped, or by its height.
ByWidth(p, w, h) == w * p.h >= h * p.w

SourceX(p, w, h, x) ==
  IF ByWidth(p, w, h)
  THEN (x * p.w) \div w
  ELSE (2 * x * p.h + (p.w * h - w * p.h)) \div (2 * h)

SourceY(p, w, h, y) ==
  IF ByWidth(p, w, h)
  THEN (2 * y * p.w + (p.h * w - h * p.w)) \div (2 * w)
  ELSE (y * p.h) \div h

\* grayscaleAt takes the nearest pixel there is.
Nearest(n, first, size) ==
  IF n < first THEN first ELSE IF n >= first + size THEN first + size - 1 ELSE n

Fit(p, w, h) ==
  [x |-> 0, y |-> 0, w |-> w, h |-> h,
   at |-> [q \in Int \X Int |->
             p.at[<<Nearest(SourceX(p, w, h, q[1]), p.x, p.w),
                    Nearest(SourceY(p, w, h, q[2]), p.y, p.h)>>]]]

\* prepareLandscapeImage, at the panel's size and turned for the framebuffer.
Prepared(p, w, h) == Fit(Landscape(p), w, h)

Prepare(p) ==
  LET landscape == Prepared(p, Width, Height)
  IN  IF SkipRotation THEN Turned(landscape, Rotation % 4) ELSE landscape

-----------------------------------------------------------------------------
(* The status screen: text in the top rows over the cached image, or over   *)
(* white when there is none that decodes.                                   *)

StatusWidth == 1872
StatusHeight == 1404
BannerHeight == 216

Blank ==
  [x |-> 0, y |-> 0, w |-> StatusWidth, h |-> StatusHeight,
   at |-> [q \in Int \X Int |-> White]]

Status(text, canvas) ==
  [canvas EXCEPT !.at =
     [q \in Int \X Int |->
        IF q[2] < BannerHeight
        THEN IF <<q[1] \div 6, q[2] \div 6>> \in text THEN Ink ELSE White
        ELSE canvas.at[q]]]

Canvas(cached) == Prepared(cached, StatusWidth, StatusHeight)
=============================================================================
