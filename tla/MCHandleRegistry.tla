-------------------------- MODULE MCHandleRegistry --------------------------
(***************************************************************************)
(* Instances of HandleRegistry for TLC.                                    *)
(***************************************************************************)
EXTENDS HandleRegistry, TLC

\* Interchangeable identities.
Symmetry == Permutations(Threads) \cup Permutations(Addresses)

\* A session, its stream, the capture session that pins it, and owned results:
\* the call that validates its two handles twice.
SessionCalls ==
    {"CreateSession", "CreateStream", "ExecuteTrackSnapshot", "SnapshotData",
     "CreateCapture", "UpdateCapture",
     "ReleaseSession", "ReleaseStream", "ReleaseSnapshot", "ReleaseCapture"}

\* Sessions and captures that come and go.
PinningCalls ==
    {"CreateSession", "SessionCall", "CreateCapture", "ReleaseSession", "ReleaseCapture"}
=============================================================================
