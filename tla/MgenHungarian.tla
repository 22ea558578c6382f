--------------------------- MODULE MgenHungarian ---------------------------
(***************************************************************************)
(* MgenHungarianAlgorithm: the assignment of least total cost, after       *)
(* Munkres.  The steps are the functions of the code, which call each      *)
(* other; s holds what memory_unit holds (the working copy dist of the     *)
(* matrix, the covered rows and columns, the starred and primed zeros).    *)
(* Searches find what the loops of the code find first.  The costs are     *)
(* integers here, so the test against DBL_EPSILON is a test for zero.      *)
(***************************************************************************)
EXTENDS Matching, SequencesExt

RECURSIVE Step3(_, _, _), Step4Path(_, _, _)

Zeros(s, c) == IF c \in s.cols THEN {} ELSE {r \in Rows(s.dist) \ s.rows : s.dist[r][c] = 0}

(***************************************************************************)
(* The preliminary steps: the shorter dimension is reduced by its minima,  *)
(* and each of its lines in turn stars its first zero in a line of the     *)
(* other dimension that has no star yet.                                   *)
(***************************************************************************)
Wide(cost) == Len(cost) <= Len(cost[1])

RowReduced(cost) ==
    [r \in Rows(cost) |-> [c \in Cols(cost) |->
       cost[r][c] - Min({cost[r][d] : d \in Cols(cost)})]]

Reduced(cost) ==
    [r \in Rows(cost) |-> [c \in Cols(cost) |->
       cost[r][c] - IF Wide(cost)
                    THEN Min({cost[r][d] : d \in Cols(cost)})
                    ELSE Min({cost[q][c] : q \in Rows(cost)})]]

InitialStars(dist) ==
    IF Wide(dist)
    THEN FoldLeft(LAMBDA stars, r :
                    LET free == {c \in Cols(dist) : /\ dist[r][c] = 0
                                                    /\ \A x \in stars : x[2] # c}
                    IN  IF free = {} THEN stars ELSE stars \cup {<<r, Min(free)>>},
                  {}, [r \in Rows(dist) |-> r])
    ELSE FoldLeft(LAMBDA stars, c :
                    LET free == {r \in Rows(dist) : /\ dist[r][c] = 0
                                                    /\ \A x \in stars : x[1] # r}
                    IN  IF free = {} THEN stars ELSE stars \cup {<<Min(free), c>>},
                  {}, [c \in Cols(dist) |-> c])

(***************************************************************************)
(* Step 2: when enough columns hold a star the stars are the assignment.   *)
(***************************************************************************)
Step2b(s) == IF Cardinality(s.cols) = Min({Len(s.dist), Len(s.dist[1])})
             THEN s.stars
             ELSE Step3(s, 1, FALSE)

Step2a(s) == Step2b([s EXCEPT !.cols = @ \cup {x[2] : x \in s.stars}])

(***************************************************************************)
(* Step 4: the new zero is starred, and along the path of stars and primes *)
(* that begins in its column the stars and the primes are exchanged.       *)
(***************************************************************************)
Step4Path(s, stars, c) ==
    LET above == {x \in s.stars : x[2] = c}
    IN  IF above = {} THEN stars
        ELSE LET r == Min({x[1] : x \in above})
                 p == Min({x[2] : x \in {y \in s.primes : y[1] = r}})
             IN  Step4Path(s, (stars \ {<<r, c>>}) \cup {<<r, p>>}, p)

Step4(s, r, c) == Step2a([s EXCEPT !.stars = Step4Path(s, @ \cup {<<r, c>>}, c),
                                   !.primes = {}, !.rows = {}])

(***************************************************************************)
(* Step 5: the least uncovered element becomes zero.                       *)
(***************************************************************************)
Step5(s) ==
    LET h == Min({s.dist[r][c] : r \in Rows(s.dist) \ s.rows, c \in Cols(s.dist) \ s.cols})
    IN  Step3([s EXCEPT !.dist = [r \in Rows(@) |-> [c \in Cols(@) |->
                 @[r][c] + (IF r \in s.rows THEN h ELSE 0)
                         - (IF c \in s.cols THEN 0 ELSE h)]]], 1, FALSE)

(***************************************************************************)
(* Step 3: the columns are scanned, again and again while that uncovers a  *)
(* column, for an uncovered zero; a zero whose row has no star ends it.    *)
(***************************************************************************)
Step3(s, c, zerosFound) ==
    IF c > Len(s.dist[1])
    THEN IF zerosFound THEN Step3(s, 1, FALSE) ELSE Step5(s)
    ELSE IF Zeros(s, c) = {} THEN Step3(s, c + 1, zerosFound)
    ELSE LET r       == Min(Zeros(s, c))
             starred == {x \in s.stars : x[1] = r}
             primed  == [s EXCEPT !.primes = @ \cup {<<r, c>>}]
         IN  IF starred = {} THEN Step4(primed, r, c)
             ELSE Step3([primed EXCEPT !.rows = @ \cup {r},
                                       !.cols = @ \ {x[2] : x \in starred}], c + 1, TRUE)

(***************************************************************************)
(* Solve, AssignmentOptimal and BuildAssignmentVector.                     *)
(***************************************************************************)
Solve(cost) ==
    LET dist  == Reduced(cost)
        start == InitialStars(dist)
        stars == Step2b([dist |-> dist, rows |-> {}, cols |-> {x[2] : x \in start},
                         stars |-> start, primes |-> {}])
    IN  [r \in Rows(cost) |-> IF \E x \in stars : x[1] = r
                              THEN Min({x[2] : x \in {y \in stars : y[1] = r}})
                              ELSE 0]
=============================================================================
