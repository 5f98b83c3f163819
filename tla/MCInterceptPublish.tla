------------------------- MODULE MCInterceptPublish -------------------------
(* Instances of InterceptPublish for TLC.                                  *)
EXTENDS InterceptPublish, TLC

CONSTANTS i1, i2, p1, p2

MCItems == {i1, i2}
MCDir   == (i1 :> "request") @@ (i2 :> "response")

\* Publications may overlap.
TwoPublishers == {p1, p2}
=============================================================================
