------------------------ MODULE ProxyPipeline_proofs ------------------------
(***************************************************************************)
(* That the loop of a connection never reads while its watcher does, and   *)
(* that what is recorded is what was exchanged, for any number of requests *)
(* and any hosts.                                                          *)
(***************************************************************************)
EXTENDS ProxyPipeline, TLAPS

\* While the watcher is there the request it was started for is not over.
Watched == watch # "none" =>
  pc \in {"rules", "hold", "wait", "decided", "send", "stop", "stopping"}

\* The deadline is set by stop, which clears it before it returns.
Interrupted == deadline => pc = "stopping"

WInv == Watched /\ Interrupted

LEMMA InitWatch == PipeInit => WInv
  BY DEF PipeInit, WInv, Watched, Interrupted

\* Each step keeps the watcher within its request.
LEMMA NextWatch == WInv /\ [PipeNext]_allVars => WInv'
<1> SUFFICES ASSUME WInv, [PipeNext]_allVars PROVE WInv'
  OBVIOUS
<1> USE DEF WInv, Watched, Interrupted
<1>1. CASE ClientSend \/ ClientClose \/ Shutdown \/ Operator \/ \E k \in Exchanges : Store(k)
  BY <1>1 DEF ClientSend, ClientClose, Shutdown, Operator, Store, pipeVars, ctxVars
<1>2. CASE \E w \in Way : RelayEnds(w)
  BY <1>2 DEF RelayEnds, ctxVars
<1>3. CASE WatchStep
  BY <1>3 DEF WatchStep, WatchBytes, WatchFails, ServerNotices
<1>4. CASE ReadRequest \/ ReadFails \/ Check \/ ApplyRules
  BY <1>4 DEF ReadRequest, ReadFails, Check, ApplyRules, Goto, ctxVars
<1>5. CASE Hold \/ Wait \/ Drop \/ ForwardRequest \/ ForwardResponse
  BY <1>5 DEF Hold, Wait, Drop, ForwardRequest, ForwardResponse, Goto, ctxVars
<1>6. CASE UpstreamError \/ RoundTripUnheld \/ RoundTrip
  BY <1>6 DEF UpstreamError, RoundTripUnheld, RoundTrip, Goto, ctxVars
<1>7. CASE Stop \/ Stopped \/ NothingToStop
  BY <1>7 DEF Stop, Stopped, NothingToStop, Goto, ctxVars
<1>8. CASE WriteResponse \/ DialFails \/ Dial \/ Relayed
  BY <1>8 DEF WriteResponse, DialFails, Dial, Relayed, Goto, ctxVars
<1>9. CASE UNCHANGED allVars
  BY <1>9 DEF allVars, pipeVars, ctxVars
<1> QED
  BY <1>1, <1>2, <1>3, <1>4, <1>5, <1>6, <1>7, <1>8, <1>9 DEF PipeNext, ConnStep

\* "stop must be called before the read loop touches br again": when the loop of a
\* connection reads, no watcher does, and no deadline is left to refuse the read.
THEOREM ReaderAlone == PipeSpec => []ReaderIsAlone
<1>1. WInv => ReaderIsAlone
  BY DEF WInv, Watched, Interrupted, ReaderIsAlone
<1> QED
  BY InitWatch, NextWatch, <1>1, PTL DEF PipeSpec

-----------------------------------------------------------------------------
(* What is recorded.                                                       *)

Results == [Items -> Action \cup {None}]

\* The types the argument needs, and the bound that keeps n an exchange.
CTypes ==
  /\ n \in Nat /\ inbox \in Nat /\ n + inbox <= MaxRequests
  /\ dir \in Direction /\ target \in Hosts
  /\ contacted \in [Exchanges -> SUBSET Hosts]
  /\ capture \in [Exchanges -> {"none", "storing", "failed", "announced"}]
  /\ answer \in [Exchanges -> {"none", "synthetic", "whole", "cut"}]
  /\ result \in Results /\ verdict \in Results

\* Exchange k has left no trace behind the gate.
Unsent(k) == contacted[k] = {} /\ capture[k] = "none" /\ answer[k] = "none"
Untouched(k) == Unsent(k) /\ \A d \in Direction : result[<<k, d>>] = None

\* Exchange k is with the origin or back from it, not refused and not recorded.
Open(k) == capture[k] = "none" /\ answer[k] = "none" /\ result[<<k, "request">>] # "drop"
Answered(k) == Open(k) /\ contacted[k] # {}

Future == \A k \in Exchanges : k > n => Untouched(k)

\* What is known of exchange n at each place of the goroutine.
Phases ==
  /\ pc \notin {"read", "closed", "leaked"} => n \in Exchanges
  /\ pc \in {"read", "check", "rules", "dial", "send"} => dir = "request"
  /\ pc \in {"check", "rules", "dial"} => Untouched(n)
  /\ pc \in {"hold", "wait"} /\ dir = "request" => Untouched(n)
  /\ pc = "decided" /\ dir = "request" => Unsent(n) /\ result[<<n, "response">>] = None
  /\ pc = "send" => Open(n) /\ result[<<n, "response">>] = None
  /\ pc \in {"hold", "wait"} /\ dir = "response" =>
       Answered(n) /\ result[<<n, "response">>] = None
  /\ pc = "decided" /\ dir = "response" => Answered(n)
  /\ pc \in {"stop", "stopping", "write"} => reply = "synthetic" \/ capture[n] # "none"

CInv == CTypes /\ Future /\ Phases /\ CapturesAreExchanges

LEMMA InitCaptures == PipeInit => CInv
<1> SUFFICES ASSUME PipeInit PROVE CInv
  OBVIOUS
<1>1. \A k \in Exchanges : Untouched(k)
  BY PipelineAssumption DEF PipeInit, Init, Untouched, Unsent, Exchanges, Direction, None
<1>2. CTypes
  BY PipelineAssumption DEF PipeInit, Init, CTypes, Exchanges, Direction, Results
<1>3. Future /\ Phases
  BY <1>1 DEF Future, Phases, PipeInit
<1>4. CapturesAreExchanges
  BY <1>1 DEF CapturesAreExchanges, Untouched, Unsent, Direction, None
<1> QED
  BY <1>2, <1>3, <1>4 DEF CInv

\* The gate changes nothing but the result of the message that is at it.
LEMMA GateStep ==
  ASSUME CTypes, n \in Exchanges,
         \/ Pass(<<n, dir>>) \/ Enter(<<n, dir>>)
         \/ Return(<<n, dir>>) \/ Abandon(<<n, dir>>)
  PROVE  /\ result' \in Results /\ verdict' \in Results
         /\ \A k \in Exchanges, d \in Direction :
              k # n \/ d # dir => result'[<<k, d>>] = result[<<k, d>>]
<1> DEFINE i == <<n, dir>>
<1>1. i \in Items
  BY PipelineAssumption DEF CTypes, Exchanges
<1>2. \A k \in Exchanges, d \in Direction : <<k, d>> \in Items
  BY PipelineAssumption DEF Exchanges
<1>3. \A k \in Exchanges, d \in Direction : k # n \/ d # dir => <<k, d>> # i
  OBVIOUS
<1> HIDE DEF i
<1>4. CASE Pass(i)
  BY <1>1, <1>2, <1>3, <1>4 DEF Pass, Results, CTypes, Action
<1>5. CASE Enter(i)
  BY <1>5 DEF Enter, CTypes
<1>6. CASE Return(i)
  BY <1>1, <1>2, <1>3, <1>6 DEF Return, Results, CTypes
<1>7. CASE Abandon(i)
  BY <1>1, <1>2, <1>3, <1>7 DEF Abandon, Results, CTypes, Action
<1> QED
  BY <1>4, <1>5, <1>6, <1>7 DEF i

\* What the steps that touch neither the exchanges nor the results leave as it is.
LEMMA Quietly ==
  ASSUME CInv, CTypes', UNCHANGED <<n, outVars, result>>, Phases'
  PROVE  CInv'
  BY DEF CInv, Future, CapturesAreExchanges, Untouched, Unsent, outVars

\* A step at the gate of the n-th exchange keeps the rest of what is known.
LEMMA AtTheGate ==
  ASSUME CInv, n \in Exchanges, CTypes', UNCHANGED <<n, outVars>>, Phases',
         capture[n] = "none",
         result'[<<n, "request">>] = "drop" => contacted[n] = {},
         \A k \in Exchanges, d \in Direction : k # n => result'[<<k, d>>] = result[<<k, d>>]
  PROVE  CInv'
<1>1. Future'
  BY DEF CInv, CTypes, Future, Untouched, Unsent, outVars, Exchanges
<1>2. ASSUME NEW k \in Exchanges
      PROVE  /\ answer'[k] = "whole" => capture'[k] # "none"
             /\ capture'[k] # "none" =>
                  contacted'[k] # {} /\ \A d \in Direction : result'[<<k, d>>] # "drop"
             /\ result'[<<k, "request">>] = "drop" => contacted'[k] = {}
  BY <1>2 DEF CInv, CapturesAreExchanges, outVars, Direction
<1> QED
  BY <1>1, <1>2 DEF CInv, CapturesAreExchanges

\* A step of the n-th exchange keeps what is known of the others.
LEMMA OfThisExchange ==
  ASSUME CInv, n \in Exchanges, CTypes', UNCHANGED <<n, result>>, Phases',
         \A k \in Exchanges \ {n} :
           contacted'[k] = contacted[k] /\ capture'[k] = capture[k] /\ answer'[k] = answer[k],
         answer'[n] = "whole" => capture'[n] # "none",
         capture'[n] # "none" =>
           contacted'[n] # {} /\ \A d \in Direction : result[<<n, d>>] # "drop",
         result[<<n, "request">>] = "drop" => contacted'[n] = {}
  PROVE  CInv'
<1>1. Future'
  BY DEF CInv, CTypes, Future, Untouched, Unsent, Exchanges
<1>2. CapturesAreExchanges'
  BY DEF CInv, CapturesAreExchanges
<1> QED
  BY <1>1, <1>2 DEF CInv

\* Each step keeps the invariant.
LEMMA NextCaptures == CInv /\ [PipeNext]_allVars => CInv'
<1> SUFFICES ASSUME CInv, [PipeNext]_allVars PROVE CInv'
  OBVIOUS
<1> USE PipelineAssumption
<1>1. CASE ClientSend \/ ClientClose \/ Shutdown
  <2>1. CTypes'
    BY <1>1 DEF CInv, CTypes, ClientSend, ClientClose, Shutdown, gateVars, dataVars, outVars, ctxVars, wireVars
  <2>2. UNCHANGED <<n, outVars, result>> /\ Phases'
    BY <1>1 DEF CInv, Phases, Untouched, Unsent, Open, Answered, ClientSend, ClientClose, Shutdown,
         gateVars, dataVars, outVars, ctxVars, wireVars
  <2> QED
    BY <2>1, <2>2, Quietly DEF CInv
<1>2. CASE Operator
  <2>1. result' = result /\ verdict' \in Results /\ UNCHANGED pipeVars
    BY <1>2 DEF CInv, CTypes, Operator, SetEnabled, SetInterceptResponses, DrainAll, Resolve, Decide,
         Results, Action
  <2>2. CTypes' /\ UNCHANGED <<n, outVars, result>> /\ Phases'
    BY <2>1 DEF CInv, CTypes, Phases, Untouched, Unsent, Open, Answered, pipeVars, wireVars, dataVars, outVars
  <2> QED
    BY <2>2, Quietly DEF CInv
<1>3. ASSUME NEW w \in Way, RelayEnds(w) PROVE CInv'
  <2>1. CTypes' /\ UNCHANGED <<n, outVars, result>> /\ Phases'
    BY <1>3 DEF RelayEnds, CInv, CTypes, Phases, Untouched, Unsent, Open, Answered, gateVars,
         wireVars, dataVars, outVars
  <2> QED
    BY <2>1, Quietly DEF CInv
<1>4. CASE WatchStep
  <2>1. CTypes' /\ UNCHANGED <<n, outVars, result>> /\ Phases'
    BY <1>4 DEF WatchStep, WatchBytes, WatchFails, ServerNotices, CInv, CTypes, Phases, Untouched,
         Unsent, Open, Answered, gateVars, wireVars, dataVars, outVars
  <2> QED
    BY <2>1, Quietly DEF CInv
<1>5. ASSUME NEW k \in Exchanges, Store(k) PROVE CInv'
  <2>1. CTypes'
    BY <1>5 DEF Store, CInv, CTypes, gateVars, wireVars, dataVars
  <2>2. \A j \in Exchanges : capture'[j] = "none" <=> capture[j] = "none"
    BY <1>5 DEF Store, CInv, CTypes
  <2>3. UNCHANGED <<n, pc, dir, reply, contacted, answer, result>>
    BY <1>5 DEF Store, gateVars, dataVars
  <2>4. Future' /\ CapturesAreExchanges'
    BY <2>2, <2>3 DEF CInv, Future, CapturesAreExchanges, Untouched, Unsent
  <2>5. Phases'
    BY <2>2, <2>3 DEF CInv, Phases, Untouched, Unsent, Open, Answered
  <2> QED
    BY <2>1, <2>4, <2>5 DEF CInv
<1>6. CASE ReadRequest
  <2>1. n + 1 \in Exchanges /\ n' = n + 1 /\ CTypes'
    BY <1>6 DEF ReadRequest, CInv, CTypes, Exchanges, gateVars, dataVars, outVars
  <2>2. UNCHANGED <<outVars, result, dir>> /\ pc' \in {"check", "dial"} /\ dir = "request"
    BY <1>6 DEF ReadRequest, CInv, Phases, gateVars
  <2>3. \A k \in Exchanges : Untouched(k)' <=> Untouched(k)
    BY <2>2 DEF Untouched, Unsent, outVars
  <2>4. Untouched(n + 1)
    BY <2>1 DEF CInv, CTypes, Future
  <2>5. Future'
    BY <2>1, <2>3 DEF CInv, CTypes, Future, Exchanges
  <2>6. Phases'
    BY <2>1, <2>2, <2>3, <2>4 DEF Phases
  <2>7. CapturesAreExchanges'
    BY <2>2 DEF CInv, CapturesAreExchanges, outVars
  <2> QED
    BY <2>1, <2>5, <2>6, <2>7 DEF CInv
<1>7. CASE ReadFails \/ Check \/ ApplyRules
  <2>1. CTypes'
    BY <1>7 DEF ReadFails, Check, ApplyRules, Goto, CInv, CTypes, gateVars, wireVars, dataVars, outVars, Direction
  <2>2. UNCHANGED <<n, outVars, result>>
    BY <1>7 DEF ReadFails, Check, ApplyRules, Goto, gateVars
  <2>3. Phases'
    BY <1>7, <2>2 DEF ReadFails, Check, ApplyRules, Goto, CInv, Phases, Untouched, Unsent, Open,
         Answered, outVars, Direction, None
  <2> QED
    BY <2>1, <2>2, <2>3, Quietly DEF CInv
<1>8. CASE Hold \/ Wait
  <2>1. n \in Exchanges /\ pc \in {"hold", "wait"} /\ n' = n /\ dir' = dir /\ pc' \in {"wait", "decided"}
    BY <1>8 DEF Hold, Wait, Goto, CInv, Phases
  <2>2. /\ result' \in Results /\ verdict' \in Results
        /\ \A k \in Exchanges, d \in Direction :
             k # n \/ d # dir => result'[<<k, d>>] = result[<<k, d>>]
    BY <1>8, <2>1, GateStep DEF Hold, Wait, CInv
  <2>3. UNCHANGED <<wireVars, dataVars, outVars>>
    BY <1>8 DEF Hold, Wait
  <2>4. CTypes'
    BY <2>1, <2>2, <2>3 DEF CInv, CTypes, wireVars, dataVars, outVars
  <2>5. capture[n] = "none"
    BY <2>1 DEF CInv, CTypes, Direction, Phases, Untouched, Unsent, Open, Answered
  <2>6. result'[<<n, "request">>] = "drop" => contacted[n] = {}
    BY <2>1, <2>2 DEF CInv, CTypes, Direction, Phases, Untouched, Unsent, Open, Answered
  <2>7. pc' = "wait" => pc = "hold" /\ result' = result
    BY <1>8, <2>1 DEF Hold, Wait, Pass, Enter, Goto
  <2>8. Phases'
    BY <2>1, <2>2, <2>3, <2>7 DEF CInv, CTypes, Direction, Phases, Untouched, Unsent, Open, Answered,
         outVars, dataVars
  <2> QED
    BY <2>1, <2>2, <2>3, <2>4, <2>5, <2>6, <2>8, AtTheGate DEF CTypes, CInv
<1>9. CASE Drop \/ ForwardRequest
  <2>1. CTypes'
    BY <1>9 DEF Drop, ForwardRequest, Synthesize, Goto, CInv, CTypes, gateVars, wireVars, dataVars, outVars
  <2>2. UNCHANGED <<n, outVars, result>> /\ n \in Exchanges
    BY <1>9 DEF Drop, ForwardRequest, Goto, gateVars, CInv, Phases
  <2>3. Phases'
    BY <1>9, <2>2 DEF Drop, ForwardRequest, Synthesize, Goto, CInv, Phases, Unsent, Open, Answered, outVars
  <2> QED
    BY <2>1, <2>2, <2>3, Quietly DEF CInv
<1>10. CASE ForwardResponse
  <2>1. /\ n \in Exchanges /\ Answered(n) /\ result[<<n, "response">>] = "forward"
        /\ UNCHANGED <<n, result, contacted, answer>> /\ pc' = "stop"
    BY <1>10 DEF ForwardResponse, Goto, gateVars, CInv, Phases
  <2>2. capture' = [capture EXCEPT ![n] = "storing"]
    BY <1>10 DEF ForwardResponse, Persist
  <2>3. CTypes'
    BY <1>10, <2>2 DEF ForwardResponse, Goto, CInv, CTypes, gateVars, wireVars, dataVars
  <2>4. Phases'
    BY <2>1, <2>2 DEF CInv, CTypes, Phases
  <2> QED
    BY <2>1, <2>2, <2>3, <2>4, OfThisExchange DEF CInv, CTypes, Answered, Open, Direction
<1>11. CASE UpstreamError \/ RoundTripUnheld \/ RoundTrip
  <2>1. /\ n \in Exchanges /\ Open(n) /\ result[<<n, "response">>] = None
        /\ UNCHANGED <<n, result, answer>> /\ target \in Hosts
    BY <1>11 DEF UpstreamError, RoundTripUnheld, RoundTrip, Goto, gateVars, CInv, CTypes, Phases
  <2>2. contacted' = [contacted EXCEPT ![n] = @ \cup {target}] /\ contacted'[n] # {}
    BY <1>11, <2>1 DEF UpstreamError, RoundTripUnheld, RoundTrip, CInv, CTypes
  <2>3. capture' \in {capture, [capture EXCEPT ![n] = "storing"]}
    BY <1>11 DEF UpstreamError, RoundTripUnheld, RoundTrip, Persist
  <2>4. CTypes'
    BY <1>11, <2>1, <2>2, <2>3 DEF UpstreamError, RoundTripUnheld, RoundTrip, Synthesize, Goto, CInv,
         CTypes, gateVars, wireVars, dataVars, Direction
  <2>5. Phases'
    BY <1>11, <2>1, <2>2 DEF UpstreamError, RoundTripUnheld, RoundTrip, Synthesize, Persist, Goto,
         CInv, CTypes, Phases, Open, Answered
  <2>6. \A d \in Direction : result[<<n, d>>] # "drop"
    BY <2>1 DEF Open, Direction, None
  <2> QED
    BY <2>1, <2>2, <2>3, <2>4, <2>5, <2>6, OfThisExchange DEF CInv, CTypes, Open
<1>12. CASE Stop \/ Stopped \/ NothingToStop
  <2>1. CTypes' /\ UNCHANGED <<n, outVars, result>>
    BY <1>12 DEF Stop, Stopped, NothingToStop, Goto, CInv, CTypes, gateVars, wireVars, dataVars, outVars
  <2>2. Phases'
    BY <1>12 DEF Stop, Stopped, NothingToStop, Goto, CInv, Phases, dataVars, outVars
  <2> QED
    BY <2>1, <2>2, Quietly DEF CInv
<1>13. CASE WriteResponse
  <2>1. /\ n \in Exchanges /\ UNCHANGED <<n, result, contacted, capture>>
        /\ reply = "synthetic" \/ capture[n] # "none"
    BY <1>13 DEF WriteResponse, Goto, gateVars, CInv, Phases
  <2>2. pc' \in {"read", "closed"} /\ dir' = "request"
    BY <1>13 DEF WriteResponse, Goto
  <2>3. PICK a \in {"cut", "synthetic", "whole"} :
          answer' = [answer EXCEPT ![n] = a] /\ (a = "whole" => reply # "synthetic")
    BY <1>13 DEF WriteResponse
  <2>4. CTypes'
    BY <1>13, <2>1, <2>2, <2>3 DEF WriteResponse, CInv, CTypes, gateVars, wireVars, Direction
  <2>5. Phases'
    BY <2>2 DEF Phases
  <2> QED
    BY <2>1, <2>3, <2>4, <2>5, OfThisExchange DEF CInv, CTypes, CapturesAreExchanges
<1>14. CASE DialFails \/ Relayed
  <2>1. CTypes' /\ UNCHANGED <<n, outVars, result>>
    BY <1>14 DEF DialFails, Relayed, Goto, CInv, CTypes, gateVars, wireVars, dataVars, outVars, Direction
  <2>2. Phases'
    BY <1>14 DEF DialFails, Relayed, Goto, Phases
  <2> QED
    BY <2>1, <2>2, Quietly DEF CInv
<1>15. CASE Dial
  <2>1. /\ n \in Exchanges /\ Untouched(n) /\ UNCHANGED <<n, result, answer, capture>> /\ pc' = "relay"
        /\ contacted' = [contacted EXCEPT ![n] = @ \cup {Authority}]
    BY <1>15 DEF Dial, Goto, gateVars, CInv, Phases
  <2>2. CTypes'
    BY <1>15, <2>1 DEF Dial, Goto, CInv, CTypes, gateVars, wireVars, dataVars
  <2>3. Phases'
    BY <2>1 DEF Phases
  <2> QED
    BY <2>1, <2>2, <2>3, OfThisExchange DEF CInv, CTypes, Untouched, Unsent, Direction, None
<1>16. CASE UNCHANGED allVars
  <2>1. CTypes' /\ UNCHANGED <<n, outVars, result>> /\ Phases'
    BY <1>16 DEF allVars, pipeVars, CInv, CTypes, Phases, Untouched, Unsent, Open, Answered, gateVars,
         wireVars, dataVars, outVars
  <2> QED
    BY <2>1, Quietly DEF CInv
<1> QED
  BY <1>1, <1>2, <1>3, <1>4, <1>5, <1>6, <1>7, <1>8, <1>9, <1>10, <1>11, <1>12, <1>13, <1>14, <1>15,
     <1>16 DEF PipeNext, ConnStep

\* What a client got from an origin is recorded, and nothing that was dropped or never
\* sent is; a request dropped at the gate reaches no origin (handle, persist).
THEOREM CapturesCorrect == PipeSpec => []CapturesAreExchanges
<1>1. CInv => CapturesAreExchanges
  BY DEF CInv
<1> QED
  BY InitCaptures, NextCaptures, <1>1, PTL DEF PipeSpec

-----------------------------------------------------------------------------
(* Types.                                                                  *)

\* The gate keeps its types, whatever happens at it.
LEMMA GateTypes ==
  ASSUME TypeOK,
         \/ Operator
         \/ \E i \in Items : Pass(i) \/ Enter(i) \/ Return(i) \/ Abandon(i)
  PROVE  TypeOK'
<1> USE DEF TypeOK, Action
<1>1. CASE Operator
  <2>1. ASSUME NEW S \in SUBSET Items, NEW a \in Action, Decide(S, a)
        PROVE  held' \in SUBSET Items /\ verdict' \in [Items -> Action \cup {None}]
    BY <2>1 DEF Decide
  <2>2. ASSUME NEW on \in BOOLEAN, SetEnabled(on) \/ SetInterceptResponses(on) PROVE TypeOK'
    BY <2>1, <2>2 DEF SetEnabled, SetInterceptResponses
  <2>3. ASSUME NEW a \in Action, NEW i \in Items, DrainAll(a) \/ Resolve(i, a) PROVE TypeOK'
    BY <2>1, <2>3 DEF DrainAll, Resolve
  <2>4. ASSUME NEW a \in Action, DrainAll(a) PROVE TypeOK'
    BY <2>1, <2>4 DEF DrainAll
  <2> QED
    BY <1>1, <2>2, <2>3, <2>4 DEF Operator
<1>2. ASSUME NEW i \in Items, Pass(i) \/ Enter(i) \/ Return(i) \/ Abandon(i) PROVE TypeOK'
  <2>1. CASE Pass(i)   BY <2>1 DEF Pass
  <2>2. CASE Enter(i)  BY <2>2 DEF Enter
  <2>3. CASE Return(i) BY <2>3 DEF Return
  <2>4. CASE Abandon(i) BY <2>4 DEF Abandon
  <2> QED
    BY <1>2, <2>1, <2>2, <2>3, <2>4
<1> QED
  BY <1>1, <1>2

\* Each step keeps the types; CInv bounds the number of the exchange.
LEMMA NextTypes == PipeTypeOK /\ CInv /\ [PipeNext]_allVars => PipeTypeOK'
<1> SUFFICES ASSUME PipeTypeOK, CInv, [PipeNext]_allVars PROVE PipeTypeOK'
  OBVIOUS
<1> USE PipelineAssumption DEF PipeTypeOK, gateVars, wireVars, dataVars, ctxVars, outVars, Goto
<1>1. n \in 0..MaxRequests /\ (pc \notin {"read", "closed", "leaked"} => n \in Exchanges)
  BY DEF CInv, CTypes, Phases
<1>2. UNCHANGED <<enabled, interceptResponses, arrived, held, verdict, result>> => TypeOK'
  BY DEF TypeOK
<1>3. CASE ClientSend \/ ClientClose \/ Shutdown
  <2>1. CASE ClientSend
    BY <1>2, <2>1 DEF ClientSend, CInv, CTypes
  <2>2. CASE ClientClose
    BY <1>2, <2>2 DEF ClientClose
  <2>3. CASE Shutdown
    BY <1>2, <2>3 DEF Shutdown
  <2> QED
    BY <1>3, <2>1, <2>2, <2>3
<1>4. CASE Operator
  BY <1>4, GateTypes DEF Operator, pipeVars
<1>5. ASSUME NEW w \in Way, RelayEnds(w) PROVE PipeTypeOK'
  BY <1>2, <1>5 DEF RelayEnds
<1>6. CASE WatchStep
  <2>1. CASE WatchBytes
    BY <1>2, <2>1 DEF WatchBytes
  <2>2. CASE WatchFails
    BY <1>2, <2>2 DEF WatchFails
  <2>3. CASE ServerNotices
    BY <1>2, <2>3 DEF ServerNotices
  <2> QED
    BY <1>6, <2>1, <2>2, <2>3 DEF WatchStep
<1>7. ASSUME NEW k \in Exchanges, Store(k) PROVE PipeTypeOK'
  BY <1>2, <1>7 DEF Store
<1>8. CASE ReadRequest \/ ReadFails
  <2>1. CASE ReadRequest
    <3>1. inbox' \in 0..MaxRequests /\ n' \in 0..MaxRequests
      BY <2>1 DEF ReadRequest, CInv, CTypes
    <3> QED
      BY <1>2, <2>1, <3>1 DEF ReadRequest
  <2>2. CASE ReadFails
    BY <1>2, <2>2 DEF ReadFails, Direction
  <2> QED
    BY <1>8, <2>1, <2>2
<1>9. CASE Check \/ ApplyRules
  BY <1>2, <1>9 DEF Check, ApplyRules, Direction
<1>10. CASE Hold \/ Wait
  <2>1. <<n, dir>> \in Items
    BY <1>1, <1>10 DEF Hold, Wait, Exchanges
  <2>2. TypeOK'
    BY <1>10, <2>1, GateTypes DEF Hold, Wait
  <2> QED
    BY <1>10, <2>2 DEF Hold, Wait
<1>11. CASE Drop \/ ForwardRequest \/ ForwardResponse
  BY <1>1, <1>2, <1>11 DEF Drop, ForwardRequest, ForwardResponse, Synthesize, Persist
<1>12. CASE UpstreamError \/ RoundTripUnheld \/ RoundTrip
  <2>1. CASE UpstreamError
    BY <1>1, <1>2, <2>1 DEF UpstreamError, Synthesize, Persist, Direction
  <2>2. CASE RoundTripUnheld
    BY <1>1, <1>2, <2>2 DEF RoundTripUnheld, Synthesize, Persist, Direction
  <2>3. CASE RoundTrip
    BY <1>1, <1>2, <2>3 DEF RoundTrip, Synthesize, Persist, Direction
  <2> QED
    BY <1>12, <2>1, <2>2, <2>3
<1>13. CASE Stop \/ Stopped \/ NothingToStop
  <2>1. CASE Stop
    BY <1>2, <2>1 DEF Stop
  <2>2. CASE Stopped
    BY <1>2, <2>2 DEF Stopped
  <2>3. CASE NothingToStop
    BY <1>2, <2>3 DEF NothingToStop
  <2> QED
    BY <1>13, <2>1, <2>2, <2>3
<1>14. CASE WriteResponse
  BY <1>2, <1>14 DEF WriteResponse, Direction
<1>15. CASE DialFails \/ Dial \/ Relayed
  BY <1>2, <1>15 DEF DialFails, Dial, Relayed, Direction, Way
<1>16. CASE UNCHANGED allVars
  BY <1>2, <1>16 DEF allVars, pipeVars
<1> QED
  BY <1>3, <1>4, <1>5, <1>6, <1>7, <1>8, <1>9, <1>10, <1>11, <1>12, <1>13, <1>14, <1>15, <1>16
     DEF PipeNext, ConnStep

\* Every variable of a connection keeps to its type; in particular the number of an
\* exchange never passes the requests the client sent.
THEOREM PipeTypes == PipeSpec => []PipeTypeOK
<1>1. ASSUME PipeInit PROVE PipeTypeOK
  <2>1. TypeOK
    BY <1>1 DEF PipeInit, Init, TypeOK
  <2>2. MaxRequests \in Nat /\ Authority \in Hosts
    BY PipelineAssumption
  <2>3. inbox \in 0..MaxRequests /\ n \in 0..MaxRequests /\ target \in Hosts /\ meta \in Hosts
    BY <1>1, <2>2 DEF PipeInit
  <2>4. deadline \in BOOLEAN /\ cancelled \in BOOLEAN /\ base \in BOOLEAN
    BY <1>1 DEF PipeInit
  <2>5. /\ contacted \in [Exchanges -> SUBSET Hosts]
        /\ answer \in [Exchanges -> {"none", "synthetic", "whole", "cut"}]
        /\ capture \in [Exchanges -> {"none", "storing", "failed", "announced"}]
        /\ record \in [Exchanges -> Hosts]
        /\ relay \in [Way -> {"off", "copying", "done"}]
    BY <1>1, <2>2 DEF PipeInit
  <2> QED
    BY <1>1, <2>1, <2>3, <2>4, <2>5 DEF PipeInit, PipeTypeOK, Direction
<1> QED
  BY <1>1, InitCaptures, NextCaptures, NextTypes, PTL DEF PipeSpec
=============================================================================
