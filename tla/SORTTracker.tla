---------------------------- MODULE SORTTracker ----------------------------
(***************************************************************************)
(* SORTTracker of one class of objects, as the response thread of a unit   *)
(* calls it: TrackObjects is called for every frame that has at least one  *)
(* object of the class, with a number that counts the calls.  Frames       *)
(* without such an object do not reach the tracker, so they age no track.  *)
(*                                                                         *)
(* Boxes are abstract: what Kalman prediction and overlap contribute is    *)
(* the set of tracks whose prediction leaves the picture on the top or the *)
(* left, and the matrix of the costs 1 - IOU, in units in which            *)
(* iou_threshold_ is Threshold.                                            *)
(***************************************************************************)
EXTENDS Matching

CONSTANTS MaxTrackSize,   \* max_track_size_
          MaxAge,         \* max_age_
          MinHits,        \* min_hits_
          Threshold,      \* iou_threshold_
          CycleThreshold, \* TRACK_ID_CYCLE_THRESHOLD
          MaxCalls,       \* bound: calls of TrackObjects
          MaxGone(_),     \* bound: tracks that leave the picture in a call
          Detections(_),  \* bound: numbers of objects in a call
          Costs(_),       \* bound: costs that occur in a call
          Assign(_)       \* MgenHungarianAlgorithm::Solve

ASSUME SizesAssumption == /\ MaxTrackSize \in Nat \ {0} /\ MaxAge \in Nat
                          /\ MinHits \in Nat /\ CycleThreshold \in Nat
                          /\ MaxCalls \in Nat /\ Threshold \in Nat
ASSUME InputsAssumption == \A n \in 1..MaxCalls : /\ Detections(n) \subseteq Nat \ {0}
                                                  /\ Costs(n) \subseteq Nat
ASSUME AssignAssumption ==
    \A trk, det \in 1..MaxTrackSize :
      \A cost \in [1..trk -> [1..det -> UNION {Costs(n) : n \in 1..MaxCalls}]] :
        Assign(cost) \in [1..trk -> 0..det] /\ IsComplete(cost, Assign(cost))

VARIABLES kalmans,      \* the tracks: id, time_since_update and hit_streak of each, and its birth
          create_count, \* kalman_tracker_create_count_
          request_seq,  \* number of the next call
          tracked,      \* results: the tracks the last call returned
          births,       \* history: tracks created so far; a track's birth is its number
          recent,       \* history: the births of the tracks updated by the last MinHits calls
          fed,          \* history: for each object of the last call, the tracks it went to
          excess        \* history: cost of the last assignment above the least cost

trackerVars == <<kalmans, create_count, request_seq, tracked, births, recent, fed, excess>>

TrackerInit == /\ kalmans = <<>> /\ create_count = 1 /\ request_seq = 1 /\ tracked = <<>>
               /\ births = 0 /\ recent = [n \in 1..MinHits |-> {}] /\ fed = <<>> /\ excess = 0

-----------------------------------------------------------------------------
(***************************************************************************)
(* A new track: the constructor of MgenKalmanTracker.  n-th of a call.     *)
(***************************************************************************)
NewTrack(n) == [id |-> create_count + n - 1, birth |-> births + n,
                time_since_update |-> 0, hit_streak |-> 0]

NewTracks(n) == [i \in 1..n |-> NewTrack(i)]

KeepStreakPredict(k) == [k EXCEPT !.time_since_update = @ + 1]

predict(k) == [k EXCEPT !.time_since_update = @ + 1,
                        !.hit_streak = IF k.time_since_update > 0 THEN 0 ELSE @]

update(k) == [k EXCEPT !.time_since_update = 0, !.hit_streak = @ + 1]

is_over_age(k) == k.time_since_update > MaxAge

is_detected_track_object(k) == /\ k.time_since_update < 1
                               /\ k.hit_streak >= MinHits \/ request_seq <= MinHits

(***************************************************************************)
(* The tracks at the given positions, in their order: the loops that erase *)
(* or collect tracks.  Written out, because no prover knows SelectSeq.     *)
(***************************************************************************)
Nth(S, n) == CHOOSE x \in S : Cardinality({y \in S : y <= x}) = n

Only(ks, S) == [n \in 1..Cardinality(S) |-> ks[Nth(S, n)]]

WithoutOverAge(ks) == Only(ks, {i \in DOMAIN ks : ~is_over_age(ks[i])})

Detected(ks) == Only(ks, {i \in DOMAIN ks : is_detected_track_object(ks[i])})

(***************************************************************************)
(* The tracks after prediction, without those that leave the picture.      *)
(***************************************************************************)
Predicted(gone) ==
    LET stay == Only(kalmans, DOMAIN kalmans \ gone)
    IN  [i \in DOMAIN stay |-> predict(stay[i])]

Called(updated) == /\ request_seq' = request_seq + 1
                   /\ recent' = [n \in 1..MinHits |-> IF n = 1 THEN updated ELSE recent[n - 1]]

(***************************************************************************)
(* The first objects, or the first after all tracks are gone.              *)
(***************************************************************************)
FirstObjects(det) ==
    /\ kalmans = <<>>
    /\ kalmans' = NewTracks(det)
    /\ create_count' = create_count + det /\ births' = births + det
    /\ tracked' = <<>>
    /\ Called({})
    /\ fed' = [j \in 1..det |-> 1]
    /\ UNCHANGED excess

(***************************************************************************)
(* More tracks or objects than the Hungarian algorithm has memory for: the *)
(* objects are dropped, and tracks age.                                    *)
(***************************************************************************)
OverTrackingSize(det, gone) ==
    /\ kalmans # <<>>
    /\ Len(Predicted(gone)) > MaxTrackSize \/ det > MaxTrackSize
    /\ kalmans' = WithoutOverAge(Predicted(gone))
    /\ tracked' = <<>>
    /\ Called({})
    /\ fed' = <<>>
    /\ UNCHANGED <<create_count, births, excess>>

(***************************************************************************)
(* Every track has left the picture: the objects wait for the next call.   *)
(***************************************************************************)
NoTracksLeft(det, gone) ==
    /\ kalmans # <<>>
    /\ Predicted(gone) = <<>> /\ det <= MaxTrackSize
    /\ kalmans' = <<>>
    /\ tracked' = <<>>
    /\ Called({})
    /\ fed' = <<>>
    /\ UNCHANGED <<create_count, births, excess>>

-----------------------------------------------------------------------------
(***************************************************************************)
(* The assigned pairs that overlap enough, and the objects that need a new *)
(* track: those no track was assigned to, which there are only when there  *)
(* are more objects than tracks, and those whose track is too far away.    *)
(***************************************************************************)
MatchedPairs(cost, a) == {<<i, a[i]>> : i \in {r \in Assigned(a) : cost[r][a[r]] <= Threshold}}

ForgetfulUnmatched(cost, a) == {a[i] : i \in {r \in Assigned(a) : cost[r][a[r]] > Threshold}}

UnmatchedObjects(cost, a) ==
    (IF Len(cost[1]) > Len(cost) THEN Cols(cost) \ {a[r] : r \in Rows(cost)} ELSE {})
      \cup {a[i] : i \in {r \in Assigned(a) : cost[r][a[r]] > Threshold}}

(***************************************************************************)
(* At the end of a call the number for the next track starts again at 0    *)
(* when it is near the limit of int.                                       *)
(***************************************************************************)
Cycled(count) == IF count > CycleThreshold THEN 0 ELSE count

Track(cost, gone) ==
    /\ kalmans # <<>>
    /\ LET before    == Predicted(gone)
           a         == Assign(cost)
           matched   == MatchedPairs(cost, a)
           unmatched == UnmatchedObjects(cost, a)
           created   == Cardinality(unmatched)
           updated   == [i \in DOMAIN before |-> IF \E m \in matched : m[1] = i
                                                 THEN update(before[i]) ELSE before[i]]
           after     == updated \o NewTracks(created)
       IN  /\ kalmans' = WithoutOverAge(after)
           /\ tracked' = Detected(after)
           /\ create_count' = Cycled(create_count + created)
           /\ births' = births + created
           /\ Called({before[m[1]].birth : m \in matched})
           /\ fed' = [j \in Cols(cost) |-> Cardinality({m \in matched : m[2] = j})
                                             + Cardinality(unmatched \cap {j})]
           /\ excess' = AssignmentCost(cost, a) - LeastCost(cost)

TrackObjects ==
    /\ request_seq <= MaxCalls
    /\ \E det \in Detections(request_seq) :
         \/ FirstObjects(det)
         \/ \E gone \in {g \in SUBSET DOMAIN kalmans : Cardinality(g) <= MaxGone(request_seq)} :
              \/ OverTrackingSize(det, gone)
              \/ NoTracksLeft(det, gone)
              \/ LET trk == Len(Predicted(gone)) IN
                 /\ trk \in 1..MaxTrackSize /\ det <= MaxTrackSize
                 /\ \E cost \in [1..trk -> [1..det -> Costs(request_seq)]] : Track(cost, gone)

TrackerDone == request_seq > MaxCalls /\ UNCHANGED trackerVars

TrackerNext == TrackObjects \/ TrackerDone

TrackerSpec == TrackerInit /\ [][TrackerNext]_trackerVars

-----------------------------------------------------------------------------
(***************************************************************************)
(* MgenHungarianAlgorithm returns an assignment of least total cost.       *)
(***************************************************************************)
AssignmentIsOptimal == excess = 0

(***************************************************************************)
(* Every object of a tracked call goes to exactly one track, a matched one *)
(* or a new one: the sets that TrackObjects builds from the assignment     *)
(* neither miss an object nor hold it twice.  And the id of the track      *)
(* tells it apart: two tracks share one only if one of them outlived a     *)
(* whole cycle of the ids.                                                 *)
(***************************************************************************)
OneTrackPerObject ==
    /\ \A j \in DOMAIN fed : fed[j] = 1
    /\ \A i, j \in DOMAIN kalmans :
         (kalmans[i].birth < kalmans[j].birth /\ kalmans[i].id = kalmans[j].id)
           => kalmans[j].birth - kalmans[i].birth > CycleThreshold

(***************************************************************************)
(* After the first min_hits_ calls, a track is reported only if each of    *)
(* the last min_hits_ calls updated it, with no gap and whatever happened  *)
(* before: a track that was missed has to earn its place again.            *)
(***************************************************************************)
ReportedIsSteady ==
    request_seq > MinHits + 1 =>
      \A i \in DOMAIN tracked : \A n \in 1..MinHits : tracked[i].birth \in recent[n]
=============================================================================
