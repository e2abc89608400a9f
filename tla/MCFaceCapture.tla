--------------------------- MODULE MCFaceCapture ---------------------------
(***************************************************************************)
(* Instances of FaceCapture and of the modules that extend it, for TLC.    *)
(***************************************************************************)
EXTENDS FaceCapture

Config(stability, pixels, outputCount, stable, collect, maxCollect, grace, interval) ==
    [ranges |-> TRUE, needs |-> {}, faceCount |-> TRUE, stability |-> stability,
     pixels |-> pixels, outputCount |-> outputCount, stable |-> stable, collect |-> collect,
     maxCollect |-> maxCollect, grace |-> grace, interval |-> interval]

Face(track, place, area, ok, score) ==
    [track |-> track, place |-> place, area |-> area, ok |-> ok, score |-> score]

\* Two results of different tracks at least two ticks apart; a pose filter
\* whose model is off or on; and two configurations that are refused.
RankingConfigs ==
    {Config(FALSE, FALSE, 2, 0, 1, 4, 1, 2),
     [Config(FALSE, TRUE, 1, 0, 0, 2, 1, 0) EXCEPT !.needs = {"pose"}],
     Config(FALSE, FALSE, 0, 0, 1, 4, 1, 2),
     Config(FALSE, FALSE, 2, 0, 5, 4, 1, 2)}
RankingFrames ==
    {{}, {Face(1, 1, 0, TRUE, 1)}, {Face(1, 1, 2, FALSE, 1)},
     {Face(1, 1, 1, TRUE, 3), Face(2, 1, 2, TRUE, 3)}}
      \cup {{Face(track, 1, 1, TRUE, score)} : track \in {1, 2}, score \in 1..3}

\* One stable face out of two tracks, with a short grace period; the first
\* track may drift from place 1 to place 3 by way of place 2, or jump.
StableConfigs ==
    {Config(TRUE, FALSE, 2, stable, 2, 9, 1, 0) : stable \in {2, 3}}
StableFrames ==
    {{}, {Face(1, 1, 0, TRUE, 1)}, {Face(1, 1, 1, FALSE, 1)}, {Face(2, 1, 1, TRUE, 1)}}
      \cup {{Face(1, place, 1, TRUE, 1)} : place \in 1..3}
FartherThanOne(c, from, to) == Distance(from, to) > 1

AllConfigs == RankingConfigs \cup StableConfigs
AllFeatures == {{}, {"pose", "quality"}}
FramesOf(c) == IF c.stability THEN StableFrames ELSE RankingFrames

\* Always-detect mode: every face has track id -1.
UntrackedFrames(c) == {{Face(-1, place, 1, TRUE, 1)} : place \in {1, 3}}
NoFeatures == {{}}
=============================================================================
