-------------------------- MODULE InterceptPublish --------------------------
(***************************************************************************)
(* How the browser learns about the hold queue                             *)
(* (internal/api/handlers/intercept.go, Hub.BroadcastIntercept).           *)
(*                                                                         *)
(* Every goroutine that changed the queue publishes it afterwards: it      *)
(* reads the queue and the two toggles in three critical sections of their *)
(* own (interceptState) and then hands the frame to the hub.  Two          *)
(* publications may overlap.  The queue itself is the gate of HoldGate,    *)
(* which Interceptor is shown to implement.  The page keeps the last state *)
(* it receives (web/src/store/proxyStore.ts), be it a frame of the stream, *)
(* which the hub delivers in the order of the broadcasts, or the answer to *)
(* a request of its own, which is read in the same three steps.            *)
(***************************************************************************)
EXTENDS HoldGate, Naturals

CONSTANT Publishers  \* goroutines: proxy connections and API handlers

VARIABLES
  pub,     \* what the publisher does next
  rounds,  \* publications and answers it still owes for its last change
  frame,   \* the InterceptState it is building
  view,    \* the last state the page received
  crossed, \* history: two publishers were at work at once since the last time none was
  told     \* history: the page has been shown the state the last change made

gateVars == <<enabled, interceptResponses, arrived, held, verdict, result>>
pubVars  == <<pub, rounds, frame, view, crossed, told>>
allVars  == <<gateVars, pubVars>>

Frame == [queue : SUBSET Items, enabled : BOOLEAN, interceptResponses : BOOLEAN]
NoFrame == [queue |-> {}, enabled |-> FALSE, interceptResponses |-> FALSE]

\* What an atomic interceptState would return.
Current == [queue |-> held, enabled |-> enabled, interceptResponses |-> interceptResponses]

PublishTypeOK ==
  /\ TypeOK
  /\ pub \in [Publishers -> {"idle", "queue", "enabled", "responses", "broadcast"}]
  /\ rounds \in [Publishers -> 0..3]
  /\ frame \in [Publishers -> Frame]
  /\ view \in Frame
  /\ crossed \in BOOLEAN /\ told \in BOOLEAN

PublishInit ==
  /\ Init
  /\ pub = [p \in Publishers |-> "idle"]
  /\ rounds = [p \in Publishers |-> 0]
  /\ frame = [p \in Publishers |-> NoFrame]
  /\ view = Current
  /\ crossed = FALSE /\ told = TRUE

-----------------------------------------------------------------------------

\* p owes the page n states.
Owe(p, n) ==
  /\ pub[p] = "idle"
  /\ pub' = [pub EXCEPT ![p] = "queue"]
  /\ rounds' = [rounds EXCEPT ![p] = n]
  /\ crossed' = \E q \in Publishers \ {p} : pub[q] # "idle"
  /\ UNCHANGED <<frame, view>>

\* The queue or a toggle has been set, and p owes the page n states.
Announce(p, n) == Owe(p, n) /\ told' = (view = Current')

-----------------------------------------------------------------------------
(* Seeded faults.  Each changes one of the definitions that follow the way *)
(* a slip in the code would; none is part of the specification.            *)

\* Interceptor.remove does not notify.
ProxyChangeSilent(p) ==
  \/ /\ \E i \in Items : Enter(i)
     /\ Announce(p, 1)
  \/ /\ pub[p] = "idle"
     /\ \E i \in Items : Abandon(i)
     /\ told' = (view = Current')
     /\ UNCHANGED <<pub, rounds, frame, view, crossed>>

\* One publication too many.
BroadcastInterceptAgain(p) ==
  /\ pub[p] = "broadcast"
  /\ view' = frame[p]
  /\ rounds' = [rounds EXCEPT ![p] = @ - 1]
  /\ pub' = [pub EXCEPT ![p] = IF rounds[p] = 0 THEN "idle" ELSE "queue"]
  /\ told' = (told \/ frame[p] = Current)
  /\ frame' = [frame EXCEPT ![p] = NoFrame]
  /\ UNCHANGED <<gateVars, crossed>>

\* A handler answers with a state it read before it made the change.
HandlerChangeEarly(p) ==
  /\ \E on \in BOOLEAN : SetEnabled(on)
  /\ pub[p] = "idle"
  /\ pub' = [pub EXCEPT ![p] = "broadcast"] /\ rounds' = [rounds EXCEPT ![p] = 1]
  /\ frame' = [frame EXCEPT ![p] = Current]
  /\ crossed' = \E q \in Publishers \ {p} : pub[q] # "idle"
  /\ told' = (view = Current')
  /\ UNCHANGED view

-----------------------------------------------------------------------------
(* The goroutines that change the queue and those that read it.            *)

\* Hold enqueues, or removes after its context ended, and notifies once.
ProxyChange(p) ==
  /\ \E i \in Items : Enter(i) \/ Abandon(i)
  /\ Announce(p, 1)

\* A handler publishes twice, the interceptor's notifier and then the handler
\* itself, and answers.  Toggling responses notifies only when it let something
\* go.  The page sets one toggle in a request.
HandlerChange(p) ==
  \/ /\ \/ \E on \in BOOLEAN : SetEnabled(on)
        \/ \E i \in Items, a \in Action : Resolve(i, a)
        \/ \E a \in Action : DrainAll(a)
     /\ Announce(p, 3)
  \/ /\ \E on \in BOOLEAN : SetInterceptResponses(on)
     /\ Announce(p, IF held' = held THEN 2 ELSE 3)

\* The page asks for the state, when it opens and when a request was refused.
FetchIntercept(p) == Owe(p, 1) /\ UNCHANGED <<gateVars, told>>

\* A Hold that returns without touching the queue publishes nothing.
Unpublished == (\E i \in Items : Pass(i) \/ Return(i)) /\ UNCHANGED pubVars

\* interceptState, one read per critical section.
ReadQueue(p) ==
  /\ pub[p] = "queue"
  /\ frame' = [frame EXCEPT ![p].queue = held]
  /\ pub' = [pub EXCEPT ![p] = "enabled"]
  /\ UNCHANGED <<gateVars, rounds, view, crossed, told>>

ReadEnabled(p) ==
  /\ pub[p] = "enabled"
  /\ frame' = [frame EXCEPT ![p].enabled = enabled]
  /\ pub' = [pub EXCEPT ![p] = "responses"]
  /\ UNCHANGED <<gateVars, rounds, view, crossed, told>>

ReadResponses(p) ==
  /\ pub[p] = "responses"
  /\ frame' = [frame EXCEPT ![p].interceptResponses = interceptResponses]
  /\ pub' = [pub EXCEPT ![p] = "broadcast"]
  /\ UNCHANGED <<gateVars, rounds, view, crossed, told>>

\* The state reaches the page, through the hub or as the answer, and p goes on
\* with the next if it owes one.
BroadcastIntercept(p) ==
  /\ pub[p] = "broadcast"
  /\ view' = frame[p]
  /\ rounds' = [rounds EXCEPT ![p] = @ - 1]
  /\ pub' = [pub EXCEPT ![p] = IF rounds[p] = 1 THEN "idle" ELSE "queue"]
  /\ told' = (told \/ frame[p] = Current)
  /\ frame' = [frame EXCEPT ![p] = NoFrame]
  /\ UNCHANGED <<gateVars, crossed>>

PublishStep(p) ==
  ReadQueue(p) \/ ReadEnabled(p) \/ ReadResponses(p) \/ BroadcastIntercept(p)

PublishNext ==
  \/ Unpublished
  \/ \E p \in Publishers :
       ProxyChange(p) \/ HandlerChange(p) \/ FetchIntercept(p) \/ PublishStep(p)

PublishSpec == PublishInit /\ [][PublishNext]_allVars /\ \A p \in Publishers : WF_allVars(PublishStep(p))

-----------------------------------------------------------------------------

AllDelivered == \A p \in Publishers : pub[p] = "idle"

\* Once every publication and every answer has been delivered, the page shows the
\* queue and the toggles as they are.
QuietViewIsCurrent == AllDelivered => view = Current

\* However publications overlap, none of the changes is missed: once all have been
\* delivered, the page has been shown the state the last change made, whole.  It can be
\* wrong only because an older state came after it.
LastChangeIsShown == AllDelivered => told

\* A publication that no other overlapped leaves the page right, whatever those before
\* it left: the three reads belong to one moment, and all it changed is in them.
LonePublicationIsRight == AllDelivered /\ ~crossed => view = Current

\* What holds of the page without a lock across the reads and the broadcast: it was
\* told the last change, and is right unless publications overlapped.
PageIsTold == LastChangeIsShown /\ LonePublicationIsRight

\* The page shows an item that is no longer held, or misses one that is.
Outdated(i) == (i \in view.queue) # (i \in held)

\* A change always reaches the page: no item is outdated for ever, unless publications
\* overlap and the older state comes last.
ViewCatchesUp == \A i \in Items : Outdated(i) ~> ~Outdated(i) \/ crossed
=============================================================================
