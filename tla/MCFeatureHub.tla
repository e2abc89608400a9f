---------------------------- MODULE MCFeatureHub ----------------------------
(***************************************************************************)
(* An instance of FeatureHub for TLC.                                      *)
(***************************************************************************)
EXTENDS FeatureHub, TLC

CONSTANTS f1, f2

\* f1 and f2 resemble each other a little.
Levels == f1 :> (f1 :> 2 @@ f2 :> 1) @@ f2 :> (f1 :> 1 @@ f2 :> 2)

Config(valid, onFile, byHand, least) ==
    [valid |-> valid, file |-> onFile, manual |-> byHand, threshold |-> least]
HubConfigs ==
    {Config(TRUE, TRUE, TRUE, 1), Config(TRUE, FALSE, FALSE, 2), Config(FALSE, TRUE, TRUE, 1)}

\* Nothing, or a record whose id later versions reserve.
Tables == {NoRows, (-1 :> f1)}
RowIds == {-1, 1}

Symmetry == Permutations(Threads)
=============================================================================
