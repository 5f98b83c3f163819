--------------------------- MODULE ProxyPipeline ---------------------------
(***************************************************************************)
(* One client connection of the proxy (internal/proxy/proxy.go): a CONNECT *)
(* tunnel (serveTunnel) or plain proxy requests served by net/http, with   *)
(* the goroutine that watches for a disconnect while a message may be      *)
(* held, the pipeline of handle, the goroutine that records the exchange,  *)
(* and the relay of an upgraded connection.                                *)
(*                                                                         *)
(* The hold queue is the gate of HoldGate: the request and the response of *)
(* exchange n are the items <<n, "request">> and <<n, "response">>.  What  *)
(* a message says is reduced to the host it is for.                        *)
(***************************************************************************)
EXTENDS HoldGate, Naturals

CONSTANTS
  MaxRequests,  \* bound of the model: requests the client sends
  Hosts,        \* origins
  Authority,    \* the one the tunnel was opened to
  Scoped        \* those in scope

ASSUME PipelineAssumption ==
  /\ MaxRequests \in Nat
  /\ Authority \in Hosts /\ Scoped \subseteq Hosts
  /\ Items = (1..MaxRequests) \X Direction
  /\ Dir = [i \in Items |-> i[2]]

VARIABLES
  scheme,     \* "https" for a tunnel, "http" for net/http
  client,     \* the client: "open" or "gone"
  inbox,      \* requests it has sent that have not been read
  pc,         \* where the goroutine of the connection stands
  n,          \* the exchange it is at
  dir,        \* the message of it that is at the gate
  target,     \* the host it goes to
  meta,       \* the host it is recorded under
  reply,      \* the response in hand
  watch,      \* the watcher
  deadline,   \* the read deadline has been set to now
  cancelled,  \* the context of the exchange
  base,       \* the context of the proxy: it is shutting down
  contacted,  \* hosts each exchange was sent to
  answer,     \* what the client got for it
  capture,    \* where the goroutine that records it stands
  record,     \* the host it was recorded under
  relay       \* the two directions of an upgraded connection

gateVars == <<enabled, interceptResponses, arrived, held, verdict, result>>
wireVars == <<client, inbox>>
ctxVars  == <<watch, deadline, cancelled, base>>
dataVars == <<target, meta, reply>>
outVars  == <<contacted, answer, capture, record>>
pipeVars == <<scheme, wireVars, pc, n, dir, dataVars, ctxVars, outVars, relay>>
allVars  == <<gateVars, pipeVars>>

Exchanges == 1..MaxRequests
Way == {"up", "down"}

PipeTypeOK ==
  /\ TypeOK
  /\ scheme \in {"https", "http"} /\ client \in {"open", "gone"}
  /\ inbox \in 0..MaxRequests /\ n \in 0..MaxRequests
  /\ pc \in {"read", "check", "rules", "hold", "wait", "decided", "send", "stop", "stopping",
             "write", "dial", "relay", "closed", "leaked"}
  /\ dir \in Direction
  /\ target \in Hosts /\ meta \in Hosts
  /\ reply \in {"none", "synthetic", "bodyless", "buffered", "stream"}
  /\ watch \in {"none", "peeking", "done"}
  /\ deadline \in BOOLEAN /\ cancelled \in BOOLEAN /\ base \in BOOLEAN
  /\ contacted \in [Exchanges -> SUBSET Hosts]
  /\ answer \in [Exchanges -> {"none", "synthetic", "whole", "cut"}]
  /\ capture \in [Exchanges -> {"none", "storing", "failed", "announced"}]
  /\ record \in [Exchanges -> Hosts]
  /\ relay \in [Way -> {"off", "copying", "done"}]

PipeInit ==
  /\ Init
  /\ scheme \in {"https", "http"}
  /\ client = "open" /\ inbox = 0
  /\ pc = "read" /\ n = 0 /\ dir = "request"
  /\ target = Authority /\ meta = Authority /\ reply = "none"
  /\ watch = "none" /\ deadline = FALSE /\ cancelled = FALSE /\ base = FALSE
  /\ contacted = [k \in Exchanges |-> {}]
  /\ answer = [k \in Exchanges |-> "none"]
  /\ capture = [k \in Exchanges |-> "none"]
  /\ record = [k \in Exchanges |-> Authority]
  /\ relay = [w \in Way |-> "off"]

\* Seeded fault: the context of a tunnel is not a child of the proxy's.
EndedAlone == cancelled

\* The context a Hold of this connection waits on has ended.  Only a tunnel's is
\* a child of the proxy's.
Ended == cancelled \/ (scheme = "https" /\ base)

Goto(l) ==
  /\ pc' = l
  /\ dir' = IF l \in {"read", "closed"} THEN "request" ELSE dir
  /\ UNCHANGED <<scheme, n>>

\* The response is a synthetic one, and the connection will be closed.
Synthesize == reply' = "synthetic" /\ UNCHANGED <<target, meta>>

\* The exchange is handed to a goroutine of its own.
Persist ==
  /\ capture' = [capture EXCEPT ![n] = "storing"]
  /\ record' = [record EXCEPT ![n] = meta]

-----------------------------------------------------------------------------
(* Seeded faults.  Each changes one of the definitions that follow the way *)
(* a slip in the code would; none is part of the specification.            *)

\* The loop goes on although nothing could be read.
ReadRequestAnyway ==
  /\ pc = "read"
  /\ inbox' = inbox - 1
  /\ n' = n + 1 /\ UNCHANGED dir
  /\ pc' \in {"check", "dial"}
  /\ cancelled' = FALSE
  /\ UNCHANGED <<gateVars, scheme, client, dataVars, watch, deadline, base, outVars, relay>>

\* stop sets the deadline and does not wait for the watcher.
StopNoWait ==
  /\ pc = "stop" /\ watch = "peeking"
  /\ deadline' = FALSE
  /\ Goto("write")
  /\ UNCHANGED <<gateVars, wireVars, dataVars, watch, cancelled, base, outVars, relay>>

\* A dropped response is recorded all the same.
DropRecording ==
  /\ pc = "decided" /\ result[<<n, dir>>] = "drop"
  /\ Synthesize
  /\ Persist
  /\ Goto("stop")
  /\ UNCHANGED <<gateVars, wireVars, ctxVars, contacted, answer, relay>>

-----------------------------------------------------------------------------
(* The client, and the end of the program.                                 *)

ClientSend ==
  /\ client = "open" /\ n + inbox < MaxRequests
  /\ inbox' = inbox + 1
  /\ UNCHANGED <<gateVars, scheme, client, pc, n, dir, dataVars, ctxVars, outVars, relay>>

ClientClose ==
  /\ client = "open"
  /\ client' = "gone"
  /\ UNCHANGED <<gateVars, scheme, inbox, pc, n, dir, dataVars, ctxVars, outVars, relay>>

Shutdown ==
  /\ ~base
  /\ base' = TRUE
  /\ UNCHANGED <<gateVars, scheme, wireVars, pc, n, dir, dataVars, watch, deadline, cancelled,
                 outVars, relay>>

-----------------------------------------------------------------------------
(* The loop of serveTunnel, or of net/http.                                *)

\* http.ReadRequest on what the client has sent; the exchange has a new context.
ReadRequest ==
  /\ pc = "read" /\ inbox > 0
  /\ inbox' = inbox - 1
  /\ n' = n + 1 /\ UNCHANGED dir
  /\ pc' \in {"check", "dial"}
  /\ cancelled' = FALSE
  /\ UNCHANGED <<gateVars, scheme, client, dataVars, watch, deadline, base, outVars, relay>>

\* Nothing more will come.
ReadFails ==
  /\ pc = "read" /\ client = "gone" /\ inbox = 0
  /\ Goto("closed")
  /\ UNCHANGED <<gateVars, wireVars, dataVars, ctxVars, outVars, relay>>

\* A tunnel watches its client if interception is enabled by now.
Check ==
  /\ pc = "check"
  /\ watch' = IF scheme = "https" /\ enabled THEN "peeking" ELSE "none"
  /\ Goto("rules")
  /\ UNCHANGED <<gateVars, wireVars, dataVars, deadline, cancelled, base, outVars, relay>>

\* The watcher's Peek: bytes of the next request, the end of the connection, or
\* the deadline set by stop.  It takes nothing out of the reader.
WatchBytes ==
  /\ watch = "peeking" /\ inbox > 0
  /\ watch' = "done"
  /\ UNCHANGED <<gateVars, scheme, wireVars, pc, n, dir, dataVars, deadline, cancelled, base,
                 outVars, relay>>

WatchFails ==
  /\ watch = "peeking" /\ ((client = "gone" /\ inbox = 0) \/ deadline)
  /\ watch' = "done"
  /\ cancelled' = TRUE
  /\ UNCHANGED <<gateVars, scheme, wireVars, pc, n, dir, dataVars, deadline, base, outVars, relay>>

\* net/http reads ahead by itself and cancels the context of its request.
ServerNotices ==
  /\ scheme = "http" /\ client = "gone" /\ inbox = 0
  /\ pc \notin {"read", "dial", "relay", "closed", "leaked"} /\ ~cancelled
  /\ cancelled' = TRUE
  /\ UNCHANGED <<gateVars, scheme, wireVars, pc, n, dir, dataVars, watch, deadline, base,
                 outVars, relay>>

\* stop: a deadline in the past, ...
Stop ==
  /\ pc = "stop" /\ watch # "none"
  /\ deadline' = TRUE
  /\ Goto("stopping")
  /\ UNCHANGED <<gateVars, wireVars, dataVars, watch, cancelled, base, outVars, relay>>

\* ... the end of the watcher, and no deadline.
Stopped ==
  /\ pc = "stopping" /\ watch = "done"
  /\ deadline' = FALSE /\ watch' = "none"
  /\ Goto("write")
  /\ UNCHANGED <<gateVars, wireVars, dataVars, cancelled, base, outVars, relay>>

NothingToStop ==
  /\ pc = "stop" /\ watch = "none"
  /\ Goto("write")
  /\ UNCHANGED <<gateVars, wireVars, dataVars, ctxVars, outVars, relay>>

\* The response goes to the client.  The body of a stream is read from the origin
\* under the context of the exchange; when that has ended, no more than what had
\* been buffered is left of it.  The write of a whole one may fail with the client.
WriteResponse ==
  /\ pc = "write"
  /\ \E whole \in BOOLEAN :
       /\ ~whole => client = "gone" \/ (reply = "stream" /\ Ended)
       /\ answer' = [answer EXCEPT ![n] = IF ~whole THEN "cut"
                                          ELSE IF reply = "synthetic" THEN "synthetic" ELSE "whole"]
       /\ \/ whole /\ reply \in {"bodyless", "buffered"} /\ Goto("read")
          \/ Goto("closed")
  /\ reply' = "none" /\ target' = Authority /\ meta' = Authority
  /\ cancelled' = TRUE
  /\ UNCHANGED <<gateVars, wireVars, watch, deadline, base, contacted, capture,
                 record, relay>>

-----------------------------------------------------------------------------
(* handle.                                                                 *)

\* Match and replace may send the request elsewhere; scope and record follow.
ApplyRules ==
  /\ pc = "rules"
  /\ target' \in Hosts
  /\ meta' = target'
  /\ Goto(IF target' \in Scoped THEN "hold" ELSE "send")
  /\ UNCHANGED <<gateVars, wireVars, reply, ctxVars, outVars, relay>>

\* Hold, as the gate has it: passed at once, or held until ...
Hold ==
  /\ pc = "hold"
  /\ \/ Pass(<<n, dir>>) /\ Goto("decided")
     \/ Enter(<<n, dir>>) /\ Goto("wait")
  /\ UNCHANGED <<wireVars, dataVars, ctxVars, outVars, relay>>

\* ... a decision arrives or the context ends.
Wait ==
  /\ pc = "wait"
  /\ Return(<<n, dir>>) \/ (Ended /\ Abandon(<<n, dir>>))
  /\ Goto("decided")
  /\ UNCHANGED <<wireVars, dataVars, ctxVars, outVars, relay>>

Drop ==
  /\ pc = "decided" /\ result[<<n, dir>>] = "drop"
  /\ Synthesize
  /\ Goto("stop")
  /\ UNCHANGED <<gateVars, wireVars, ctxVars, outVars, relay>>

\* The request is forwarded: as it was, or as the operator edited it.  Then it goes
\* to the host its first line names, or else to that of the tunnel.
ForwardRequest ==
  /\ pc = "decided" /\ dir = "request" /\ result[<<n, dir>>] = "forward"
  /\ \/ UNCHANGED target
     \/ <<n, dir>> \in arrived /\ target' \in Hosts
  /\ Goto("send")
  /\ UNCHANGED <<gateVars, wireVars, meta, reply, ctxVars, outVars, relay>>

ForwardResponse ==
  /\ pc = "decided" /\ dir = "response" /\ result[<<n, dir>>] = "forward"
  /\ Persist
  /\ Goto("stop")
  /\ UNCHANGED <<gateVars, wireVars, dataVars, ctxVars, contacted, answer, relay>>

\* RoundTrip fails, at the latest by its timeouts; the origin may have been reached.
UpstreamError ==
  /\ pc = "send"
  /\ contacted' = [contacted EXCEPT ![n] = @ \cup {target}]
  /\ Synthesize
  /\ Goto("stop")
  /\ UNCHANGED <<gateVars, wireVars, ctxVars, answer, capture, record, relay>>

\* A response without a body, or with one too large to be buffered: recorded and
\* passed on without asking.
RoundTripUnheld ==
  /\ pc = "send" /\ ~Ended
  /\ contacted' = [contacted EXCEPT ![n] = @ \cup {target}]
  /\ reply' \in {"bodyless", "stream"}
  /\ Persist
  /\ Goto("stop")
  /\ UNCHANGED <<gateVars, wireVars, target, meta, ctxVars, answer, relay>>

\* A response that fits: held if in scope, otherwise recorded.
RoundTrip ==
  /\ pc = "send" /\ ~Ended
  /\ contacted' = [contacted EXCEPT ![n] = @ \cup {target}]
  /\ reply' = "buffered" /\ UNCHANGED <<target, meta>>
  /\ \/ /\ meta \in Scoped
        /\ pc' = "hold" /\ dir' = "response"
        /\ UNCHANGED <<scheme, n, capture, record>>
     \/ /\ meta \notin Scoped
        /\ Persist
        /\ Goto("stop")
  /\ UNCHANGED <<gateVars, wireVars, ctxVars, answer, relay>>

\* The goroutine of persist: stored and then announced, to the pages and to the
\* passive scanner, or neither.
Store(k) ==
  /\ capture[k] = "storing"
  /\ capture' \in {[capture EXCEPT ![k] = "announced"], [capture EXCEPT ![k] = "failed"]}
  /\ UNCHANGED <<gateVars, scheme, wireVars, pc, n, dir, dataVars, ctxVars, contacted, answer,
                 record, relay>>

-----------------------------------------------------------------------------
(* tunnelUpgrade and Tunnel.                                               *)

\* The origin cannot be reached.  serveTunnel closes the connection; one taken
\* over from net/http stays as it is.
DialFails ==
  /\ pc = "dial"
  /\ Goto(IF scheme = "https" THEN "closed" ELSE "leaked")
  /\ UNCHANGED <<gateVars, wireVars, dataVars, ctxVars, outVars, relay>>

Dial ==
  /\ pc = "dial"
  /\ contacted' = [contacted EXCEPT ![n] = @ \cup {Authority}]
  /\ relay' = [w \in Way |-> "copying"]
  /\ Goto("relay")
  /\ UNCHANGED <<gateVars, wireVars, dataVars, ctxVars, answer, capture, record>>

\* A direction ends because its source has, or because the other direction has
\* ended and Tunnel has closed both connections.  The origin may close any time.
RelayEnds(w) ==
  /\ pc = "relay" /\ relay[w] = "copying"
  /\ w = "up" => client = "gone" \/ relay["down"] = "done"
  /\ relay' = [relay EXCEPT ![w] = "done"]
  /\ UNCHANGED <<gateVars, scheme, wireVars, pc, n, dir, dataVars, ctxVars, outVars>>

Relayed ==
  /\ pc = "relay" /\ \A w \in Way : relay[w] = "done"
  /\ Goto("closed")
  /\ UNCHANGED <<gateVars, wireVars, dataVars, ctxVars, outVars, relay>>

-----------------------------------------------------------------------------

ConnStep ==
  \/ ReadRequest \/ ReadFails \/ Check \/ ApplyRules \/ Hold \/ Wait \/ Drop
  \/ ForwardRequest \/ ForwardResponse \/ UpstreamError \/ RoundTripUnheld \/ RoundTrip
  \/ Stop \/ Stopped \/ NothingToStop \/ WriteResponse \/ DialFails \/ Dial \/ Relayed

WatchStep == WatchBytes \/ WatchFails \/ ServerNotices

Operator ==
  /\ \/ \E on \in BOOLEAN : SetEnabled(on) \/ SetInterceptResponses(on)
     \/ \E a \in Action : DrainAll(a) \/ \E i \in Items : Resolve(i, a)
  /\ UNCHANGED pipeVars

PipeNext ==
  \/ ClientSend \/ ClientClose \/ Shutdown \/ Operator
  \/ ConnStep \/ WatchStep
  \/ \E k \in Exchanges : Store(k)
  \/ \E w \in Way : RelayEnds(w)

\* Goroutines run, origins answer or time out, writes end.  Clients, operators and
\* the origin of a relayed connection owe nothing.
PipeFairness ==
  /\ WF_allVars(ConnStep) /\ WF_allVars(WatchStep)
  /\ \A k \in Exchanges : WF_allVars(Store(k))
  /\ WF_allVars(RelayEnds("up"))
  /\ WF_allVars(relay["up"] = "done" /\ RelayEnds("down"))

PipeSpec == PipeInit /\ [][PipeNext]_allVars /\ PipeFairness

-----------------------------------------------------------------------------
(* Properties.                                                             *)

\* "stop must be called before the read loop touches br again" (watchClientClose):
\* when the loop reads, the watcher no longer uses the reader and the deadline that
\* ended it is gone, or the next request would be refused.
ReaderIsAlone == pc = "read" => watch # "peeking" /\ ~deadline

\* What the client got from an origin is being recorded; nothing else is: neither a
\* request dropped at the gate nor a response dropped there, and no exchange that
\* was never sent.  A dropped request is not sent at all.
CapturesAreExchanges ==
  \A k \in Exchanges :
    /\ answer[k] = "whole" => capture[k] # "none"
    /\ capture[k] # "none" =>
         contacted[k] # {} /\ \A d \in Direction : result[<<k, d>>] # "drop"
    /\ result[<<k, "request">>] = "drop" => contacted[k] = {}

\* "So held items are released on shutdown instead of blocking their goroutines"
\* (serveTunnel), and a relayed connection ends with its client.
TunnelLetsGo ==
  /\ scheme = "https" /\ base /\ pc = "wait" ~> pc # "wait"
  /\ pc = "relay" /\ client = "gone" ~> pc = "closed"

\* "A held item is released (dropped) if the client disconnects mid-hold instead of
\* blocking forever" (serveTunnel).
DisconnectLetsGo == scheme = "https" /\ client = "gone" /\ pc = "wait" ~> pc # "wait"

\* "A stop-induced read deadline only triggers a now-moot cancel, so it is
\* harmless" (watchClientClose): a client that stays gets the whole response.
StopIsHarmless ==
  \A k \in Exchanges : answer[k] = "cut" => client = "gone" \/ base
=============================================================================
