-------------------------- MODULE MCProxyPipeline --------------------------
(* Instances of ProxyPipeline for TLC.                                     *)
EXTENDS ProxyPipeline, TLC

\* Two exchanges, so that the second may be pipelined behind a held one.
MCItems  == (1..2) \X {"request", "response"}
MCDir    == [i \in MCItems |-> i[2]]
MCHosts  == {"tunnel", "outside"}
MCScoped == {"tunnel"}
=============================================================================
