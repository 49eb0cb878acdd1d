------------------------------- MODULE Icons -------------------------------
(***************************************************************************)
(* Pixmaps: crates/taskbar-core/src/icon.rs.                               *)
(*                                                                         *)
(* A pixel is <<alpha, colour>>; one colour stands for red, green and blue, *)
(* which are treated alike.  The data of a pixmap is its pixels row by     *)
(* row.  Encoding as PNG keeps the picture and is left out.                *)
(***************************************************************************)
EXTENDS Integers, Sequences

Colours == (0 .. 255) \X (0 .. 255)

Clear == <<0, 0>>

IsValid(p) == p.width > 0 /\ p.height > 0 /\ Len(p.data) = p.width * p.height

Inside(p, x, y) == x \in 0 .. p.width - 1 /\ y \in 0 .. p.height - 1

Pixel(p, x, y) == p.data[y * p.width + x + 1]

(* A picture of this size whose pixel at x, y is At(x, y).                 *)
Picture(width, height, At(_, _)) ==
  [ width |-> width, height |-> height,
    data  |-> [n \in 1 .. width * height |-> At((n - 1) % width, (n - 1) \div width)] ]

-----------------------------------------------------------------------------
SizeBelow(p, q) == p.width < q.width \/ (p.width = q.width /\ p.height < q.height)

(* Mistake: the height does not matter.                                    *)
PickBestByWidth(pixmaps, target) ==
  LET usable == {n \in DOMAIN pixmaps : IsValid(pixmaps[n])}
      enough == {n \in usable : pixmaps[n].width >= target}
  IN  CASE enough # {} ->
             {CHOOSE n \in enough : \A m \in enough : ~SizeBelow(pixmaps[m], pixmaps[n])}
        [] enough = {} /\ usable # {} ->
             {CHOOSE n \in usable : \A m \in usable : ~SizeBelow(pixmaps[n], pixmaps[m])}
        [] OTHER -> {}

(* The place in the list of the pixmap to use, none when no entry is       *)
(* usable: min_by_key takes the first of equals, max_by_key the last.      *)
PickBest(pixmaps, target) ==
  LET usable == {n \in DOMAIN pixmaps : IsValid(pixmaps[n])}
      enough == {n \in usable : pixmaps[n].width >= target /\ pixmaps[n].height >= target}
      Less(n, m) == SizeBelow(pixmaps[n], pixmaps[m])
  IN  IF enough # {}
        THEN {CHOOSE n \in enough : \A m \in enough \ {n} : Less(n, m) \/ (~Less(m, n) /\ n < m)}
        ELSE {n \in usable : \A m \in usable \ {n} : Less(m, n) \/ (~Less(n, m) /\ m < n)}

ScaleNearest(p, width, height) ==
  CASE width <= 0 \/ height <= 0 -> Picture(0, 0, LAMBDA x, y : Clear)
    [] width > 0 /\ height > 0 /\ ~IsValid(p) -> Picture(width, height, LAMBDA x, y : Clear)
    [] OTHER -> Picture(width, height, LAMBDA x, y :
                  Pixel(p, (x * p.width) \div width, (y * p.height) \div height))

(* a / b rounded to the nearest integer, as f32::round does for a, b >= 0. *)
Rounded(a, b) == (2 * a + b) \div (2 * b)

(* Straight alpha: the resulting alpha is divided back out.  The code      *)
(* computes with alphas from 0 to 1 in f32, this one exactly, with alphas  *)
(* from 0 to 255.                                                          *)
BlendOver(dst, src) ==
  LET outA == src[1] * 255 + dst[1] * (255 - src[1])
  IN  IF src[1] = 0 THEN dst
      ELSE << Rounded(outA, 255),
              Rounded(src[2] * src[1] * 255 + dst[2] * dst[1] * (255 - src[1]), outA) >>

(* Mistake: a big overlay is cut off instead of rescaled.                  *)
CompositeCut(base, overlay) ==
  IF ~IsValid(base) THEN overlay
  ELSE Picture(base.width, base.height, LAMBDA x, y :
         IF IsValid(overlay) /\ Inside(overlay, x, y)
           THEN BlendOver(Pixel(base, x, y), Pixel(overlay, x, y)) ELSE Pixel(base, x, y))

(* Centred when it fits, rescaled to the base when it does not.            *)
Composite(base, overlay) ==
  LET fits   == overlay.width <= base.width /\ overlay.height <= base.height
      fitted == IF fits THEN overlay ELSE ScaleNearest(overlay, base.width, base.height)
      left   == IF fits THEN (base.width - overlay.width) \div 2 ELSE 0
      top    == IF fits THEN (base.height - overlay.height) \div 2 ELSE 0
  IN  CASE ~IsValid(base)    -> overlay
        [] IsValid(base) /\ ~IsValid(overlay) -> base
        [] OTHER -> Picture(base.width, base.height, LAMBDA x, y :
                      IF Inside(fitted, x - left, y - top)
                        THEN BlendOver(Pixel(base, x, y), Pixel(fitted, x - left, y - top))
                        ELSE Pixel(base, x, y))

-----------------------------------------------------------------------------
(* What makes a pixmap a good choice for the size wanted.                  *)
Usable(pixmaps) == {n \in DOMAIN pixmaps : IsValid(pixmaps[n])}

Covers(p, target) == p.width >= target /\ p.height >= target

Within(p, q) ==
  /\ p.width <= q.width /\ p.height <= q.height
  /\ p.width # q.width \/ p.height # q.height

(* p suits the size wanted better than q does.                             *)
Fitter(p, q, target) ==
  IF Covers(q, target) THEN Covers(p, target) /\ Within(p, q)
                       ELSE Covers(p, target) \/ Within(q, p)
=============================================================================
