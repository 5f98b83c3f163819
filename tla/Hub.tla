-------------------------------- MODULE Hub --------------------------------
(***************************************************************************)
(* The fan-out of live events to the open pages: Hub of internal/api/      *)
(* handlers/hub.go, with the two goroutines of every connection, readPump  *)
(* and writePump.                                                          *)
(*                                                                         *)
(* A critical section of the hub's mutex is one step.  A frame is its      *)
(* number in the order of the broadcasts.  A page that comes back gets a   *)
(* new connection, which the model gives the place of the old one.         *)
(***************************************************************************)
EXTENDS Naturals, Sequences

CONSTANTS
  Clients,    \* pages, one WebSocket connection each
  Buffer,     \* frames a client's channel holds, clientSendBuf
  MaxFrames   \* bound of the model: broadcasts

ASSUME HubAssumption == Buffer \in Nat \ {0} /\ MaxFrames \in Nat

VARIABLES
  log,      \* frames broadcast so far
  clients,  \* Hub.clients
  closed,   \* the clients whose send channel has been closed
  buffer,   \* what the send channel holds
  writing,  \* the frame writePump is writing, 0 for none
  reader,   \* where readPump stands
  writer,   \* where writePump stands
  conn,     \* the server's end of the connection
  peer,     \* the page is there to receive
  joined,   \* history: log when the client was registered
  got,      \* history: the frames the page received
  dropped   \* history: the frames its full buffer has refused

hubVars  == <<log, clients, closed>>
pumpVars == <<writing, reader, writer>>
linkVars == <<conn, peer>>
pageHistory  == <<joined, got, dropped>>
allHubVars     == <<hubVars, buffer, pumpVars, linkVars, pageHistory>>

Frames == 1..MaxFrames

HubTypeOK ==
  /\ log \in 0..MaxFrames
  /\ clients \subseteq Clients /\ closed \subseteq Clients
  /\ buffer \in [Clients -> Seq(Frames)]
  /\ \A c \in Clients : Len(buffer[c]) <= Buffer
  /\ writing \in [Clients -> 0..MaxFrames]
  /\ reader \in [Clients -> {"off", "reading", "removed", "done"}]
  /\ writer \in [Clients -> {"off", "select", "writing", "done"}]
  /\ conn \in [Clients -> {"none", "open", "closed"}]
  /\ peer \in [Clients -> BOOLEAN]
  /\ joined \in [Clients -> 0..MaxFrames]
  /\ got \in [Clients -> Seq(Frames)]
  /\ dropped \in [Clients -> SUBSET Frames]

HubInit ==
  /\ log = 0
  /\ clients = {} /\ closed = {}
  /\ buffer = [c \in Clients |-> <<>>]
  /\ writing = [c \in Clients |-> 0]
  /\ reader = [c \in Clients |-> "off"]
  /\ writer = [c \in Clients |-> "off"]
  /\ conn = [c \in Clients |-> "none"]
  /\ peer = [c \in Clients |-> FALSE]
  /\ joined = [c \in Clients |-> 0]
  /\ got = [c \in Clients |-> <<>>]
  /\ dropped = [c \in Clients |-> {}]

\* The client's channel has no room.
Full(c) == Len(buffer[c]) = Buffer

-----------------------------------------------------------------------------
(* Seeded faults.  Each changes one of the definitions that follow the way *)
(* a slip in the code would; none is part of the specification.            *)

\* remove closes the channel and leaves the client in the map.
ReadFailsKeeping(c) ==
  /\ reader[c] = "reading"
  /\ reader' = [reader EXCEPT ![c] = "removed"]
  /\ closed' = closed \cup {c}
  /\ UNCHANGED <<log, clients, buffer, writing, writer, linkVars, pageHistory>>

\* writePump skips to the newest frame.
WriterTakeLatest(c) ==
  /\ writer[c] = "select"
  /\ buffer[c] # <<>>
  /\ writer' = [writer EXCEPT ![c] = "writing"]
  /\ writing' = [writing EXCEPT ![c] = buffer[c][Len(buffer[c])]]
  /\ buffer' = [buffer EXCEPT ![c] = <<>>]
  /\ UNCHANGED <<hubVars, reader, linkVars, pageHistory>>

-----------------------------------------------------------------------------
(* The hub.                                                                *)

\* ServeWS makes the channel, registers the connection and starts its pumps.
ServeWS(c) ==
  /\ reader[c] \in {"off", "done"} /\ writer[c] \in {"off", "done"}
  /\ buffer' = [buffer EXCEPT ![c] = <<>>]
  /\ closed' = closed \ {c}
  /\ clients' = clients \cup {c}
  /\ reader' = [reader EXCEPT ![c] = "reading"]
  /\ writer' = [writer EXCEPT ![c] = "select"]
  /\ conn' = [conn EXCEPT ![c] = "open"]
  /\ peer' = [peer EXCEPT ![c] = TRUE]
  /\ joined' = [joined EXCEPT ![c] = log]
  /\ got' = [got EXCEPT ![c] = <<>>]
  /\ dropped' = [dropped EXCEPT ![c] = {}]
  /\ UNCHANGED <<log, writing>>

\* One pass over the map under the mutex; a client whose buffer is full misses
\* the frame.
Broadcast ==
  /\ log < MaxFrames
  /\ log' = log + 1
  /\ buffer' = [c \in Clients |->
       IF c \in clients /\ ~Full(c) THEN Append(buffer[c], log') ELSE buffer[c]]
  /\ dropped' = [c \in Clients |->
       IF c \in clients /\ Full(c) THEN dropped[c] \cup {log'} ELSE dropped[c]]
  /\ UNCHANGED <<clients, closed, pumpVars, linkVars, joined, got>>

-----------------------------------------------------------------------------
(* The pumps of a connection.                                              *)

\* The page goes away: closed, crashed or cut off.
Leave(c) ==
  /\ peer[c]
  /\ peer' = [peer EXCEPT ![c] = FALSE]
  /\ UNCHANGED <<hubVars, buffer, pumpVars, conn, pageHistory>>

\* ReadMessage returns an error: the page left, or no pong came before the
\* deadline.  The deferred remove closes the channel.
ReadFails(c) ==
  /\ reader[c] = "reading"
  /\ reader' = [reader EXCEPT ![c] = "removed"]
  /\ clients' = clients \ {c}
  /\ closed' = closed \cup {c}
  /\ UNCHANGED <<log, buffer, writing, writer, linkVars, pageHistory>>

\* ... and then the connection is closed.
CloseConn(c) ==
  /\ reader[c] = "removed"
  /\ reader' = [reader EXCEPT ![c] = "done"]
  /\ conn' = [conn EXCEPT ![c] = "closed"]
  /\ UNCHANGED <<hubVars, buffer, writing, writer, peer, pageHistory>>

\* A closed channel still gives what it holds.
WriterTake(c) ==
  /\ writer[c] = "select"
  /\ buffer[c] # <<>>
  /\ writer' = [writer EXCEPT ![c] = "writing"]
  /\ writing' = [writing EXCEPT ![c] = Head(buffer[c])]
  /\ buffer' = [buffer EXCEPT ![c] = Tail(@)]
  /\ UNCHANGED <<hubVars, reader, linkVars, pageHistory>>

\* The channel is closed and empty: a close message, and the end.
WriterClosed(c) ==
  /\ writer[c] = "select"
  /\ buffer[c] = <<>>
  /\ c \in closed
  /\ writer' = [writer EXCEPT ![c] = "done"]
  /\ UNCHANGED <<hubVars, buffer, writing, reader, linkVars, pageHistory>>

\* WriteMessage returns nil.  What is written to a page that has gone is lost.
WriterSend(c) ==
  /\ writer[c] = "writing"
  /\ conn[c] = "open"
  /\ writer' = [writer EXCEPT ![c] = "select"]
  /\ writing' = [writing EXCEPT ![c] = 0]
  /\ got' = [got EXCEPT ![c] = IF peer[c] THEN Append(@, writing[c]) ELSE @]
  /\ UNCHANGED <<hubVars, buffer, reader, linkVars, joined, dropped>>

\* WriteMessage fails: the connection is closed or broken, or the page is too
\* slow for the write deadline.  The client stays registered.
WriterFail(c) ==
  /\ writer[c] = "writing"
  /\ writer' = [writer EXCEPT ![c] = "done"]
  /\ writing' = [writing EXCEPT ![c] = 0]
  /\ UNCHANGED <<hubVars, buffer, reader, linkVars, pageHistory>>

\* The same for a ping.
PingFails(c) ==
  /\ writer[c] = "select"
  /\ writer' = [writer EXCEPT ![c] = "done"]
  /\ UNCHANGED <<hubVars, buffer, writing, reader, linkVars, pageHistory>>

-----------------------------------------------------------------------------

ClientStep(c) ==
  \/ ServeWS(c) \/ Leave(c) \/ ReadFails(c) \/ CloseConn(c)
  \/ WriterTake(c) \/ WriterClosed(c) \/ WriterSend(c) \/ WriterFail(c) \/ PingFails(c)

HubNext == Broadcast \/ \E c \in Clients : ClientStep(c)

\* A page that has left, or that is no longer pinged and so sends no pong, makes
\* the read fail.
ReaderMoves(c) == ((~peer[c] \/ writer[c] = "done") /\ ReadFails(c)) \/ CloseConn(c)

\* A write ends by its deadline, and a ping on a closed connection fails.
WriterMoves(c) ==
  \/ WriterTake(c) \/ WriterClosed(c) \/ WriterSend(c) \/ WriterFail(c)
  \/ conn[c] = "closed" /\ PingFails(c)

\* Both pumps of a connection run.
HubFairness == \A c \in Clients : WF_allHubVars(ReaderMoves(c)) /\ WF_allHubVars(WriterMoves(c))

HubSpec == HubInit /\ [][HubNext]_allHubVars /\ HubFairness

-----------------------------------------------------------------------------
(* Properties.                                                             *)

\* Broadcast never sends on a closed channel, which would bring the whole
\* program down: a client leaves the map in the step that closes its channel.
NoSendOnClosed == clients \cap closed = {}

\* The frames on their way to a page, oldest first.
Pipe(c) == got[c] \o (IF writing[c] = 0 THEN <<>> ELSE <<writing[c]>>) \o buffer[c]

\* A page receives the frames in the order of the broadcasts and none twice,
\* whatever is dropped in between and however the pumps end.
DeliveredInOrder ==
  \A c \in Clients : \A i, j \in 1..Len(Pipe(c)) : i < j => Pipe(c)[i] < Pipe(c)[j]

\* While a page is connected and served, every frame since its registration has
\* been received, is on its way, or was refused by a full buffer.
NothingElseIsLost ==
  \A c \in clients : peer[c] /\ writer[c] # "done" =>
    (joined[c] + 1)..log = dropped[c] \cup {Pipe(c)[i] : i \in 1..Len(Pipe(c))}

\* Both, as one promise to a page: what it gets is the stream of events, in
\* order, less what its full buffer refused.
StreamIsWhole == DeliveredInOrder /\ NothingElseIsLost

\* Pages come, go and hang, and the hub neither brings the program down by that nor
\* cheats those that stay: no send on a closed channel, no frame lost but from a full
\* buffer (hub.go, Broadcast, readPump, writePump).
PagesAreServed == NoSendOnClosed /\ StreamIsWhole

\* A client whose page has gone, whose writePump gave up or whose reader ended,
\* and of which something is left.
Lingers(c) ==
  /\ (~peer[c] /\ reader[c] = "reading") \/ writer[c] = "done" \/ reader[c] \in {"removed", "done"}
  /\ c \in clients \/ reader[c] # "done" \/ writer[c] # "done"

\* It is unregistered and both of its goroutines end.
ClientsLeave == \A c \in Clients : Lingers(c) ~> ~Lingers(c)

\* Frame f is in the pipe of a page that is there and served.
OnItsWay(c, f) ==
  /\ peer[c] /\ writer[c] # "done"
  /\ \E i \in (Len(got[c]) + 1)..Len(Pipe(c)) : Pipe(c)[i] = f

\* It is received, unless the page leaves or the writing fails.
BufferedIsDelivered == \A c \in Clients, f \in Frames : OnItsWay(c, f) ~> ~OnItsWay(c, f)
=============================================================================
