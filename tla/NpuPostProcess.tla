--------------------------- MODULE NpuPostProcess ---------------------------
(***************************************************************************)
(* The post-processing of the NPU engine: from the quantised output of the *)
(* network to the detections of a frame.  A cell of the output has a       *)
(* confidence and a probability for each class, which are int8 values, and *)
(* a box, whose decoding is arithmetic on one cell and left out.           *)
(***************************************************************************)
EXTENDS SequencesExt

CONSTANTS ZeroPoint,            \* zp of the output tensor
          ThresholdNum,         \* confidence_threshold_ / scale, numerator
          ThresholdDen,         \* and denominator
          NmsNum, NmsDen        \* nms_threshold_

ASSUME OutputAssumption == /\ ZeroPoint \in -128..127
                           /\ ThresholdNum \in Nat /\ ThresholdDen \in Nat \ {0}
                           /\ NmsNum \in Nat /\ NmsDen \in Nat \ {0}

(***************************************************************************)
(* qnt_f32_to_affine of the fraction n / d: clip to int8, and the cast     *)
(* drops the fraction towards zero.                                        *)
(***************************************************************************)
Truncated(n, d) == IF n >= 0 THEN n \div d ELSE -((-n) \div d)

clip_value(n, d) == CASE n <= -128 * d -> -128
                      [] n >= 127 * d  -> 127
                      [] OTHER         -> Truncated(n, d)

qnt_f32_to_affine(n, d) == clip_value(n + ZeroPoint * d, d)

thres_i8 == qnt_f32_to_affine(ThresholdNum, ThresholdDen)

(***************************************************************************)
(* rknn_process_impl: the cells that pass, each with its first best class. *)
(* The probability of the class has to exceed the threshold, the           *)
(* confidence may equal it.                                                *)
(***************************************************************************)
maxClassId(cell) == Min({k \in DOMAIN cell.classes :
                           \A l \in DOMAIN cell.classes : cell.classes[l] <= cell.classes[k]})

Passes(cell) == /\ cell.confidence >= thres_i8
                /\ cell.classes[maxClassId(cell)] > thres_i8

Candidate(cell) ==
    [class |-> maxClassId(cell), box |-> cell.box,
     score |-> (cell.classes[maxClassId(cell)] - ZeroPoint) * (cell.confidence - ZeroPoint)]

rknn_process_impl(cells) ==
    LET passed == SelectSeq(cells, Passes) IN [i \in DOMAIN passed |-> Candidate(passed[i])]

(***************************************************************************)
(* CalculateOverlap exceeds the threshold, with the pixel that the code    *)
(* adds to each side.                                                      *)
(***************************************************************************)
Side(lo, hi) == Max({0, hi - lo + 1})

Overlapping(p, q) ==
    LET i == Side(Max({p.x, q.x}), Min({p.x + p.w, q.x + q.w}))
               * Side(Max({p.y, q.y}), Min({p.y + p.h, q.y + q.h}))
        u == (p.w + 1) * (p.h + 1) + (q.w + 1) * (q.h + 1) - i
    IN  u > 0 /\ i * NmsDen > NmsNum * u

(***************************************************************************)
(* sort_by_confidence_desc: std::sort may leave equal scores in any order, *)
(* so this is the set of its outcomes.                                     *)
(***************************************************************************)
SortedOrders(found) ==
    {order \in SetToSeqs(DOMAIN found) :
       \A i, j \in DOMAIN order : i < j => found[order[i]].score >= found[order[j]].score}

(***************************************************************************)
(* nms for one class, on an order in which 0 marks a removed candidate.    *)
(***************************************************************************)
OfClass(found, order, i, c) == order[i] # 0 /\ found[order[i]].class = c

nms(found, order, c) ==
    FoldLeft(LAMBDA o, i :
               IF ~OfClass(found, o, i, c) THEN o
               ELSE [j \in DOMAIN o |->
                       IF /\ j > i /\ OfClass(found, o, j, c)
                          /\ Overlapping(found[o[i]].box, found[o[j]].box)
                       THEN 0 ELSE o[j]],
             order, [i \in DOMAIN order |-> i])

(***************************************************************************)
(* PostProcessImplRKNN from the order on, and Postprocess, which gives     *)
(* every input of the batch the same detections.                           *)
(***************************************************************************)
AfterNms(found, order) ==
    FoldLeft(LAMBDA o, c : nms(found, o, c), order,
             SetToSortSeq({found[i].class : i \in DOMAIN found}, <))

PostProcessImplRKNN(found, order) ==
    LET kept == SelectSeq(AfterNms(found, order), LAMBDA n : n # 0)
    IN  [i \in DOMAIN kept |-> found[kept[i]]]

Postprocess(batch, found, order) ==
    [i \in DOMAIN batch |-> [input |-> batch[i], objects |-> PostProcessImplRKNN(found, order)]]

-----------------------------------------------------------------------------
(***************************************************************************)
(* The quantised threshold loses no confidence that reaches the real one,  *)
(* and admits none that is a whole quantum below it.                       *)
(***************************************************************************)
ThresholdAgrees ==
    (ThresholdNum + ZeroPoint * ThresholdDen) \in (-128 * ThresholdDen)..(127 * ThresholdDen) =>
      \A q \in -128..127 :
        /\ (q - ZeroPoint) * ThresholdDen >= ThresholdNum => q >= thres_i8
        /\ q >= thres_i8 => (q - ZeroPoint + 1) * ThresholdDen > ThresholdNum

(***************************************************************************)
(* What non-maximum suppression promises: the detections that stay do not  *)
(* overlap another of their class, and each that goes overlaps one that    *)
(* stays, of its class and with no lower score.                            *)
(***************************************************************************)
NmsAgrees(found) ==
    \A order \in SortedOrders(found) :
      LET kept == {AfterNms(found, order)[i] : i \in DOMAIN found} \ {0}
          Rivals(n, m) == /\ n # m /\ found[n].class = found[m].class
                          /\ Overlapping(found[n].box, found[m].box)
      IN  /\ \A n, m \in kept : ~Rivals(n, m)
          /\ \A n \in DOMAIN found \ kept :
               \E m \in kept : Rivals(n, m) /\ found[m].score >= found[n].score
=============================================================================
