----------------------------- MODULE FaceAction -----------------------------
(***************************************************************************)
(* The window behind the interaction events of a face                      *)
(* (FaceActionPredictor, common/face_info/face_action_data.h): the latest  *)
(* records of the face, analysed once there are enough of them.            *)
(*                                                                         *)
(* Abstractions: of a record the eyes matter and whether the head faces    *)
(* the camera, as a blink starts the window again; the events that change  *)
(* nothing (shaking, raising the head, the open jaw) are left out.         *)
(***************************************************************************)
EXTENDS Integers, FiniteSets

CONSTANTS
    RecordSize,   \* record_size: 10 in FaceObjectInternal
    MinOpen       \* records with an open eye that a blink takes: more than 2

ASSUME WindowAssumption == RecordSize \in Nat \ {0} /\ MinOpen \in Nat

\* What a record tells of the eyes: a wink is open and closed, and in "away" they
\* are open while the head is turned.
Eyes == {"open", "closed", "wink", "away"}

\* A record: the face it was taken of, its eyes, and, for the properties, how
\* many blinks had been reported before it.
Record(id, eyes, blinks) == [id |-> id, eyes |-> eyes, blinks |-> blinks]
NoRecord == Record(0, "open", 0)

\* record_list and index; blinks is history: the blinks reported so far.
NewPredictor ==
    [list |-> [i \in 1..RecordSize |-> NoRecord], index |-> 0, blinks |-> 0]

Least(m, n) == IF m < n THEN m ELSE n

\* MoveRecordList: what is behind the valid records stays where it is.
MoveRecordList(p) ==
    [i \in 1..RecordSize |->
        IF i \in 2..(Least(p.index, RecordSize - 1) + 1) THEN p.list[i - 1] ELSE p.list[i]]

RecordActionFrame(p, id, eyes) ==
    [p EXCEPT !.list = [MoveRecordList(p) EXCEPT ![1] = Record(id, eyes, p.blinks)],
              !.index = Least(@ + 1, RecordSize)]

WindowIsFull(p) == p.index = RecordSize

\* A closed eye among enough open ones, the head now facing the camera.
BlinkDetected(p) ==
    LET Those(kinds) == {i \in 1..RecordSize : p.list[i].eyes \in kinds}
    IN  /\ Those({"closed", "wink"}) # {}
        /\ Cardinality(Those({"open", "wink", "away"})) >= MinOpen
        /\ p.list[1].eyes # "away"

\* AnalysisFaceAction: whether it reports a blink, the records it looked at, and
\* the predictor after it: a blink starts the window again.
AnalysisFaceAction(p) ==
    IF ~WindowIsFull(p) THEN [blink |-> FALSE, window |-> {}, next |-> p]
    ELSE [blink  |-> BlinkDetected(p),
          window |-> {p.list[i] : i \in 1..RecordSize},
          next   |-> IF BlinkDetected(p) THEN [p EXCEPT !.index = 0, !.blinks = @ + 1] ELSE p]
=============================================================================
