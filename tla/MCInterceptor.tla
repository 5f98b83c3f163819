--------------------------- MODULE MCInterceptor ---------------------------
(* Instances of Interceptor for TLC.                                       *)
EXTENDS Interceptor, TLC

CONSTANTS i1, i3, o1, o2

\* A request and a response, which the two toggles tell apart.
MCItems == {i1, i3}
MCDir   == (i1 :> "request") @@ (i3 :> "response")

MCOperators == {o1, o2}
=============================================================================
