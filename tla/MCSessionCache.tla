--------------------------- MODULE MCSessionCache ---------------------------
(***************************************************************************)
(* Instances of SessionCache for TLC.                                      *)
(***************************************************************************)
EXTENDS SessionCache, TLC

CONSTANTS t1, t2, s1, c1, c2, f1, f2

\* Face 2 stays, at another index, when face 1 leaves.
Shown == f1 :> <<1, 2>> @@ f2 :> <<2>>
PinnedSession == c1 :> s1 @@ c2 :> s1

On(target, names) == {<<name, target>> : name \in names}
Calls(n, operations) == [calls |-> n, operations |-> operations]
Nothing == Calls(0, {})

\* Two threads share one capture session.
Captors ==
    LET all == On(c1, {"update", "results", "finish", "reset"})
    IN t1 :> Calls(3, all) @@ t2 :> Calls(2, all)

\* One thread does everything else a session and its captures allow.
Processor ==
    LET all == On(s1, {"snapshot", "process", "clear"}) \cup On(c1, {"update", "assess"})
    IN t1 :> Calls(5, all) @@ t2 :> Nothing

\* One thread tracks while another extracts the features of the faces.
Extractor ==
    t1 :> Calls(2, On(s1, {"snapshot"})) @@ t2 :> Calls(3, On(s1, {"extract", "align"}))

ApartPlans == {Captors, Processor, Extractor}

\* Two capture sessions pin the same face session.
SharedPlans ==
    {t1 :> Calls(1, On(c1, {"update"})) @@ t2 :> Calls(1, On(c2, {"update"}))}

TwoLooks == {"open", "closed"}
=============================================================================
