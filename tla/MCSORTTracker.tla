--------------------------- MODULE MCSORTTracker ---------------------------
(***************************************************************************)
(* The tracker with the Hungarian algorithm, at most three tracks and      *)
(* objects, for five calls.  The second call, the first one with a         *)
(* matrix, meets every matrix up to 3 x 3 over three costs, of which one   *)
(* is above the threshold; later calls have at most two objects that match *)
(* or do not.  Four objects exceed the size.  Track numbers start again    *)
(* after four, a track goes after two missed calls, and is steady after    *)
(* two hits.                                                               *)
(***************************************************************************)
EXTENDS SORTTracker, MgenHungarian, NpuPostProcess

MCDetections(n) == IF n <= 2 THEN 1..4 ELSE {1, 2}

MCMaxGone(n) == IF n = 3 THEN 1 ELSE 0

MCCosts(n) == IF n = 2 THEN {0, 1, 3} ELSE {0, 3}

-----------------------------------------------------------------------------
(***************************************************************************)
(* What is computed of a frame before the tracker sees it, against its     *)
(* reference definition.  Three candidates of two classes with equal and   *)
(* different scores, on boxes in a row of which neighbours overlap: one    *)
(* that is suppressed would itself have suppressed the next.               *)
(***************************************************************************)
MCZeroPoint == -128

MCBox(x) == [x |-> x, y |-> 0, w |-> 3, h |-> 1]

MCFound == [class: {1, 2}, score: {1, 2}, box: {MCBox(0), MCBox(1), MCBox(2)}]

ASSUME ThresholdHolds == ThresholdAgrees

ASSUME NmsHolds == \A n \in 1..3 : \A found \in [1..n -> MCFound] : NmsAgrees(found)

(***************************************************************************)
(* Frames and pictures of up to 7 by 7, and every box of the frame with    *)
(* whole coordinates; for the change between all kinds of styles, smaller. *)
(***************************************************************************)
FS == INSTANCE FrameStyle

MCSizes(n) == [FS!Axes -> 1..n]

ASSUME LetterboxHolds ==
    \A src, target \in MCSizes(7) : FS!LetterboxFills(src, target)

Points(src) == {p \in [FS!Axes -> 0..4] : \A a \in FS!Axes : p[a] <= src[a]}

ASSUME BoxesComeBack ==
    \A src, target \in MCSizes(4) : \A lo, hi \in Points(src) :
      (\A a \in FS!Axes : lo[a] <= hi[a]) => FS!BoxComesBack(src, target, lo, hi)

MCStyles(src) ==
    {FS!Style(src, f, r) : f \in {"pixel_int", "ratio_float"}, r \in {"ltx_type", "cx_type"}}
      \cup {[FS!inference_style(src, t) EXCEPT !.format = f, !.ref = r] :
              t \in MCSizes(3), f \in {"pixel_int", "ratio_float"}, r \in {"ltx_type", "cx_type"}}

ASSUME StylesRoundTrip ==
    \A src \in MCSizes(3) : \A lo, hi \in Points(src) : \A dst \in MCStyles(src) :
      (\A a \in FS!Axes : lo[a] <= hi[a]) =>
        FS!RoundTrip(FS!Box([a \in FS!Axes |-> FS!Frac(lo[a])], [a \in FS!Axes |-> FS!Frac(hi[a])]),
                     FS!original_style(src), dst)
=============================================================================
