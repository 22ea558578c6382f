----------------------------- MODULE FrameStyle -----------------------------
(***************************************************************************)
(* The picture the engine sees (FrameFormattingContext::Update, a frame    *)
(* scaled and padded) and the way of its boxes back to the frame of the    *)
(* camera (ConvertInferObjectCoordinate).  Widths and heights are treated  *)
(* alike, so sizes, paddings and boxes are functions of the axis.  Numbers *)
(* that are float in the code are exact fractions here.                    *)
(***************************************************************************)
EXTENDS Integers, FiniteSetsExt

Axes == {"x", "y"}

-----------------------------------------------------------------------------
(***************************************************************************)
(* Fractions <<n, d>> with d > 0, in lowest terms.                         *)
(***************************************************************************)
Abs(n) == IF n < 0 THEN -n ELSE n

Gcd[m \in Nat, n \in Nat] == IF n = 0 THEN m ELSE Gcd[n, m % n]

Lowest(n, d) == LET g == Gcd[Abs(n), d] IN <<n \div g, d \div g>>

Frac(n) == <<n, 1>>
Plus(a, b) == Lowest(a[1] * b[2] + b[1] * a[2], a[2] * b[2])
Minus(a, b) == Lowest(a[1] * b[2] - b[1] * a[2], a[2] * b[2])
Times(a, b) == Lowest(a[1] * b[1], a[2] * b[2])
Over(a, b) == Lowest(a[1] * b[2], a[2] * b[1])      \* b > 0
LessEq(a, b) == a[1] * b[2] <= b[1] * a[2]
Lesser(a, b) == IF LessEq(a, b) THEN a ELSE b
Greater(a, b) == IF LessEq(a, b) THEN b ELSE a
Half(a) == Lowest(a[1], 2 * a[2])
Rounded(a) == (2 * a[1] + a[2]) \div (2 * a[2])

-----------------------------------------------------------------------------
(***************************************************************************)
(* Update: the larger reduction of the two, the same for both axes; the    *)
(* rest is padding, of which an odd pixel goes to the right or the bottom. *)
(***************************************************************************)
Unscaled(src, target) == \A a \in Axes : src[a] = target[a]

scale_factor(src, target) ==
    IF Unscaled(src, target) THEN Frac(1)
    ELSE Lesser(<<target["x"], src["x"]>>, <<target["y"], src["y"]>>)

scale_size(src, target) ==
    LET f == scale_factor(src, target) IN [a \in Axes |-> Rounded(<<src[a] * f[1], f[2]>>)]

TotalPad(src, target, a) == target[a] - scale_size(src, target)[a]

PadBefore(src, target) ==   \* left and top: half of it, less a tenth
    [a \in Axes |-> Rounded(<<5 * TotalPad(src, target, a) - 1, 10>>)]

PadAfter(src, target) ==    \* right and bottom: half of it and a tenth
    [a \in Axes |-> Rounded(<<5 * TotalPad(src, target, a) + 1, 10>>)]

Style(size, format, ref) ==
    [size |-> size, format |-> format, ref |-> ref, padded |-> FALSE,
     scale |-> Frac(1), pad |-> [a \in Axes |-> 0], original |-> size]

original_style(src) == Style(src, "pixel_int", "ltx_type")

inference_style(src, target) ==
    [Style(target, "pixel_int", "ltx_type") EXCEPT
       !.padded = TRUE, !.scale = scale_factor(src, target),
       !.pad = PadBefore(src, target), !.original = src]

-----------------------------------------------------------------------------
(***************************************************************************)
(* ConvertInferObjectCoordinate on one axis: a position and a length, to   *)
(* the ratio of the left or upper edge, through the padding, to the format *)
(* of the destination, and into its bounds.                                *)
(***************************************************************************)
ToRatioLtx(span, obj, src, a) ==
    LET unit == IF obj.format = "pixel_int" THEN Frac(src.size[a]) ELSE Frac(1)
        len  == Over(span.len, unit)
        pos  == Over(span.pos, unit)
    IN  [pos |-> IF obj.ref = "cx_type" THEN Minus(pos, Half(len)) ELSE pos, len |-> len]

Unpadded(span, src, dst, a) ==
    LET pixels == [pos |-> Times(span.pos, Frac(src.size[a])),
                   len |-> Times(span.len, Frac(src.size[a]))]
        real   == [pos |-> Over(Minus(pixels.pos, Frac(src.pad[a])), src.scale),
                   len |-> Over(pixels.len, src.scale)]
    IN  [pos |-> Over(real.pos, Frac(dst.size[a])), len |-> Over(real.len, Frac(dst.size[a]))]

Padded(span, src, dst, a) ==
    LET real   == [pos |-> Times(span.pos, Frac(src.size[a])),
                   len |-> Times(span.len, Frac(src.size[a]))]
        pixels == [pos |-> Plus(Times(real.pos, dst.scale), Frac(dst.pad[a])),
                   len |-> Times(real.len, dst.scale)]
    IN  [pos |-> Over(pixels.pos, Frac(dst.size[a])), len |-> Over(pixels.len, Frac(dst.size[a]))]

(***************************************************************************)
(* Sizes that do not belong together leave the ratios as they are.         *)
(***************************************************************************)
ThroughPadding(span, src, dst, a) ==
    CASE src.padded /\ ~dst.padded /\ dst.size = src.original -> Unpadded(span, src, dst, a)
      [] ~src.padded /\ dst.padded /\ src.size = dst.original -> Padded(span, src, dst, a)
      [] OTHER -> span

FromRatioLtx(span, dst, a) ==
    LET unit == IF dst.format = "pixel_int" THEN Frac(dst.size[a]) ELSE Frac(1)
        pos  == IF dst.ref = "cx_type" THEN Plus(span.pos, Half(span.len)) ELSE span.pos
    IN  [pos |-> Times(pos, unit), len |-> Times(span.len, unit)]

Clamped(span, dst, a) ==
    LET max   == IF dst.format = "pixel_int" THEN Frac(dst.size[a]) ELSE Frac(1)
        first == IF dst.ref = "cx_type" THEN Minus(span.pos, Half(span.len)) ELSE span.pos
        x1    == Greater(Frac(0), Lesser(first, max))
        x2    == Greater(x1, Lesser(Plus(first, span.len), max))
        len   == Minus(x2, x1)
    IN  [pos |-> IF dst.ref = "cx_type" THEN Plus(x1, Half(len)) ELSE x1, len |-> len]

StylesIdentical(obj, src, dst) ==
    /\ obj.format = dst.format /\ obj.ref = dst.ref
    /\ src.size = dst.size /\ src.padded = dst.padded
    /\ src.padded => src.scale = dst.scale /\ src.pad = dst.pad /\ src.original = dst.original

ConvertInferObjectCoordinate(obj, src, dst) ==
    IF StylesIdentical(obj, src, dst) THEN obj
    ELSE [format |-> dst.format, ref |-> dst.ref,
          span |-> [a \in Axes |->
            LET ratio == ThroughPadding(ToRatioLtx(obj.span[a], obj, src, a), src, dst, a)
            IN  Clamped(FromRatioLtx(ratio, dst, a), dst, a)]]

-----------------------------------------------------------------------------
(***************************************************************************)
(* The scaled frame and its paddings fill the picture exactly, so that the *)
(* part of the picture that is written is inside it and all of it is       *)
(* written.                                                                *)
(***************************************************************************)
LetterboxFills(src, target) ==
    \A a \in Axes :
      /\ PadBefore(src, target)[a] >= 0 /\ PadAfter(src, target)[a] >= 0
      /\ PadBefore(src, target)[a] + scale_size(src, target)[a] + PadAfter(src, target)[a]
           = target[a]

(***************************************************************************)
(* A box of the frame, where the scaled frame shows it, comes back to its  *)
(* place up to half a pixel of the picture, and inside the frame.          *)
(***************************************************************************)
Box(lo, hi) ==
    [format |-> "pixel_int", ref |-> "ltx_type",
     span |-> [a \in Axes |-> [pos |-> lo[a], len |-> Minus(hi[a], lo[a])]]]

Shown(src, target, p) ==
    [a \in Axes |-> Plus(Frac(PadBefore(src, target)[a]),
                         <<p[a] * scale_size(src, target)[a], src[a]>>)]

Near(p, q, tolerance) == LessEq(Minus(p, q), tolerance) /\ LessEq(Minus(q, p), tolerance)

BoxComesBack(src, target, lo, hi) ==
    LET seen == Box(Shown(src, target, lo), Shown(src, target, hi))
        back == ConvertInferObjectCoordinate(seen, inference_style(src, target),
                                             original_style(src))
        half == Half(Over(Frac(1), scale_factor(src, target)))
    IN  \A a \in Axes :
          LET x1 == back.span[a].pos
              x2 == Plus(x1, back.span[a].len)
          IN  /\ Near(x1, Frac(lo[a]), half) /\ Near(x2, Frac(hi[a]), half)
              /\ LessEq(Frac(0), x1) /\ LessEq(x2, Frac(src[a]))

(***************************************************************************)
(* Any two styles: there and back again is the same box, for boxes inside  *)
(* the frame.                                                              *)
(***************************************************************************)
RoundTrip(box, src, dst) ==
    LET back == ConvertInferObjectCoordinate(ConvertInferObjectCoordinate(box, src, dst), dst, src)
    IN  back = box
=============================================================================
