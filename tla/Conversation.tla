---------------------------- MODULE Conversation ----------------------------
(* The AI assistant's conversations: handlers/ai.go and storage/ai.go on the *)
(* server, aiStore.ts in the page. A reply is streamed by one handler per    *)
(* conversation at a time; the page shows at most one stream and aborts it   *)
(* when the user moves on, while the calls it awaits answer in any order.    *)
EXTENDS Naturals, Sequences, SequencesExt, FiniteSets

CONSTANTS Convs,      \* identifiers of conversations
          Stored,     \* those the database already holds
          Streams,    \* identifiers of POST .../messages requests (bounds them)
          MaxCalls,   \* bound on the other calls the page makes
          NoConv, NoStream

ASSUME ConvAssumption ==
    /\ NoConv \notin Convs /\ NoStream \notin Streams /\ Stored \subseteq Convs
    /\ MaxCalls \in Nat

VARIABLES
    conv,     \* ai_conversations and ai_messages: [made, title, msgs]
    aiStreams,\* API.aiStreams: conversations with a handler streaming
    stream,   \* per request: the handler's locals, and the frames on the wire
    calls,    \* the page's other calls in flight
    page,     \* aiStore: [active, shown, list, streaming, draft, controller]
    raced,    \* a stream was started while a create or a clear was pending
    made      \* calls made so far

convVars == <<conv, aiStreams, stream, calls, page, raced, made>>

Turn(c) == [role |-> "user", conv |-> c, read |-> 0]
Reply(c, n) == [role |-> "assistant", conv |-> c, read |-> n]
Msgs == [role : {"user", "assistant"}, conv : Convs, read : Nat]
Ops == {"open", "chat", "context", "delete", "clear", "list"}
Finished == {"unused", "done"}

ConvInit ==
    /\ conv = [c \in Convs |-> [made |-> IF c \in Stored THEN "yes" ELSE "no",
                                title |-> "", msgs |-> <<>>]]
    /\ aiStreams = {}
    /\ stream = [s \in Streams |->
           [pc |-> "unused", conv |-> NoConv, text |-> FALSE, untitled |-> FALSE,
            read |-> 0, said |-> FALSE, aborted |-> FALSE, final |-> FALSE, wire |-> <<>>]]
    /\ calls = {}
    /\ page = [active |-> NoConv, shown |-> <<>>, streaming |-> FALSE, draft |-> <<>>,
               controller |-> NoStream, list |-> Stored]
    /\ raced = FALSE
    /\ made = 0

Exists(c) == conv[c].made = "yes"

(* AppendAIMessage: the foreign key refuses a conversation that is gone; a   *)
(* title is applied only where there is none.                                *)
Appended(c, m, title) ==
    [conv EXCEPT ![c].msgs = Append(@, m),
                 ![c].title = IF @ = "" THEN title ELSE @]

(* Frames for a page that left go nowhere.                                   *)
Send(s, f) == IF stream[s].aborted THEN <<>> ELSE Append(stream[s].wire, f)

-----------------------------------------------------------------------------
(* Seeded faults: slips the code could make, no part of the specification.   *)

(* A conversation whose lock is held is not refused.                         *)
StreamLocksAnyway(s) ==
    /\ stream[s].pc = "lock"
    /\ aiStreams' = aiStreams \cup {stream[s].conv}
    /\ stream' = [stream EXCEPT ![s].pc = "append"]
    /\ UNCHANGED <<conv, calls, page, raced, made>>

(* The early return for an empty conversation leaves the lock.               *)
StreamListsLocked(s) ==
    LET thread == conv[stream[s].conv].msgs IN
    /\ stream[s].pc = "list"
    /\ stream' = [stream EXCEPT
           ![s].pc = IF thread # <<>> THEN "stream" ELSE "done", ![s].read = Len(thread),
           ![s].wire = Append(@, IF thread # <<>> THEN "ok" ELSE "refused")]
    /\ UNCHANGED <<conv, aiStreams, calls, page, raced, made>>

(* The answer of openConversation is shown, whatever is open by now.         *)
OpenAnsweredLate(call) ==
    /\ call.op = "open" /\ call.at \in {"answered", "failed"}
    /\ calls' = calls \ {call}
    /\ page' = IF call.at = "answered" THEN [page EXCEPT !.shown = call.got] ELSE page
    /\ UNCHANGED <<conv, aiStreams, stream, raced, made>>

-----------------------------------------------------------------------------
(* The handler of POST /api/ai/conversations/{id}/messages.                  *)

(* StreamAIMessage up to the lock: the row is read, then LoadOrStore. The    *)
(* two are separate steps: conv.Title may be stale once the lock is held.    *)
StreamReads(s) ==
    /\ stream[s].pc = "sent"
    /\ stream' = [stream EXCEPT
           ![s].pc = IF Exists(stream[s].conv) THEN "lock" ELSE "done",
           ![s].untitled = conv[stream[s].conv].title = "",
           ![s].wire = IF Exists(stream[s].conv) THEN @ ELSE Send(s, "refused")]
    /\ UNCHANGED <<conv, aiStreams, calls, page, raced, made>>

StreamLocks(s) ==
    LET busy == stream[s].conv \in aiStreams IN
    /\ stream[s].pc = "lock"
    /\ aiStreams' = aiStreams \cup {stream[s].conv}
    /\ stream' = [stream EXCEPT
           ![s].pc = IF busy THEN "done" ELSE "append",
           ![s].wire = IF busy THEN Send(s, "refused") ELSE @]
    /\ UNCHANGED <<conv, calls, page, raced, made>>

Unlocked(s) == aiStreams' = aiStreams \ {stream[s].conv}

(* The user turn, stored when the body has one. The request context ends     *)
(* with the connection, which may or may not be noticed before the insert.   *)
StreamAppends(s) ==
    LET c == stream[s].conv IN
    /\ stream[s].pc = "append"
    /\ \/ /\ ~stream[s].text
          /\ stream' = [stream EXCEPT ![s].pc = "list"]
          /\ UNCHANGED <<conv, aiStreams>>
       \/ /\ stream[s].text /\ Exists(c)
          /\ conv' = Appended(c, Turn(c),
                              IF stream[s].untitled THEN s ELSE "")
          /\ stream' = [stream EXCEPT ![s].pc = "list"]
          /\ UNCHANGED aiStreams
       \/ /\ stream[s].text /\ (~Exists(c) \/ stream[s].aborted)
          /\ stream' = [stream EXCEPT ![s].pc = "done", ![s].wire = Send(s, "refused")]
          /\ Unlocked(s) /\ UNCHANGED conv
    /\ UNCHANGED <<calls, page, raced, made>>

(* ListAIMessages; an empty conversation has nothing to reply to.            *)
StreamLists(s) ==
    LET thread == conv[stream[s].conv].msgs IN
    /\ stream[s].pc = "list"
    /\ \/ /\ thread # <<>>
          /\ stream' = [stream EXCEPT ![s].pc = "stream", ![s].read = Len(thread),
                                      ![s].wire = Send(s, "ok")]
          /\ UNCHANGED aiStreams
       \/ /\ thread = <<>> \/ stream[s].aborted
          /\ stream' = [stream EXCEPT ![s].pc = "done", ![s].wire = Send(s, "refused")]
          /\ Unlocked(s)
    /\ UNCHANGED <<conv, calls, page, raced, made>>

(* The provider sends text; a write to a connection that is gone fails and   *)
(* ends the generation, what was generated is kept.                          *)
Delta(s) ==
    /\ stream[s].pc = "stream" /\ ~stream[s].said
    /\ stream' = [stream EXCEPT ![s].said = TRUE, ![s].wire = Send(s, "delta")]
    /\ UNCHANGED <<conv, aiStreams, calls, page, raced, made>>

(* Stream returns (finished, failed, stalled past idleTimeout, or aborted),  *)
(* persistAssistant stores what there is, and the terminal frame is sent. A  *)
(* reply that could not be stored is reported as an error, not as done.      *)
Persist(s) ==
    LET c == stream[s].conv
        Endings(saved) == {"error"} \cup (IF stream[s].said /\ ~saved THEN {}
                                         ELSE {IF saved THEN "done" ELSE "nothing"})
    IN
    /\ stream[s].pc = "stream"
    /\ \E saved \in {stream[s].said /\ Exists(c), stream[s].said /\ Exists(c) /\ ~stream[s].aborted} :
       \E last \in Endings(saved) :
         /\ conv' = IF saved THEN Appended(c, Reply(c, stream[s].read), "") ELSE conv
         /\ stream' = [stream EXCEPT ![s].pc = "unlock", ![s].wire = Send(s, last)]
    /\ UNCHANGED <<aiStreams, calls, page, raced, made>>

Unlock(s) ==
    /\ stream[s].pc = "unlock"
    /\ Unlocked(s)
    /\ stream' = [stream EXCEPT ![s].pc = "done", ![s].wire = Send(s, "eof")]
    /\ UNCHANGED <<conv, calls, page, raced, made>>

HandlerStep(s) ==
    \/ StreamReads(s) \/ StreamLocks(s) \/ StreamAppends(s) \/ StreamLists(s)
    \/ Delta(s) \/ Persist(s) \/ Unlock(s)

-----------------------------------------------------------------------------
(* The other handlers: each takes a call from "sent" to "answered".          *)

Call(op, c) == [op |-> op, conv |-> c, at |-> "sent", got |-> <<>>, list |-> {}]
Become(call, new) == calls' = (calls \ {call}) \cup {new}
Answer(call, msgs, list) ==
    Become(call, [call EXCEPT !.at = "answered", !.got = msgs, !.list = list])

(* CreateAIConversation inserts the row, then appends the context.           *)
ServeCreate(call) ==
    /\ call.op \in {"chat", "context"}
    /\ \/ /\ call.at = "sent"
          /\ \E c \in Convs :
               /\ conv[c].made = "no"
               /\ conv' = [conv EXCEPT ![c].made = "yes",
                                       ![c].title = IF call.op = "context" THEN "context" ELSE ""]
               /\ Become(call, [call EXCEPT !.conv = c,
                                            !.at = IF call.op = "chat" THEN "answered" ELSE "seed"])
       \/ /\ call.at = "seed" /\ Exists(call.conv)
          /\ LET m == Turn(call.conv) IN
             /\ conv' = Appended(call.conv, m, "context")
             /\ Answer(call, <<m>>, {})
       \/ /\ call.at = "sent" \/ (call.at = "seed" /\ ~Exists(call.conv))
          /\ Become(call, [call EXCEPT !.at = "failed"])
          /\ UNCHANGED conv
    /\ UNCHANGED <<aiStreams, stream, page, raced, made>>

(* GetAIConversation, DeleteAIConversation, ClearAIConversations and         *)
(* ListAIConversations.                                                      *)
Gone(conversation) == [conversation EXCEPT !.made = "gone", !.msgs = <<>>]

ServeOther(call) ==
    /\ call.at = "sent"
    /\ CASE call.op = "open" ->
              /\ IF Exists(call.conv) THEN Answer(call, conv[call.conv].msgs, {})
                 ELSE Become(call, [call EXCEPT !.at = "failed"])
              /\ UNCHANGED conv
         [] call.op = "delete" ->
              /\ conv' = IF Exists(call.conv) THEN [conv EXCEPT ![call.conv] = Gone(@)] ELSE conv
              /\ Answer(call, <<>>, {})
         [] call.op = "clear" ->
              /\ conv' = [c \in Convs |-> IF Exists(c) THEN Gone(conv[c]) ELSE conv[c]]
              /\ Answer(call, <<>>, {})
         [] call.op = "list" ->
              /\ Answer(call, <<>>, {c \in Convs : Exists(c)})
              /\ UNCHANGED conv
         [] OTHER -> FALSE
    /\ UNCHANGED <<aiStreams, stream, page, raced, made>>

-----------------------------------------------------------------------------
(* The page. An action runs up to its next await.                            *)

(* abortActiveStream: no callback of that stream runs any more.              *)
Aborted == IF page.controller = NoStream THEN stream
           ELSE [stream EXCEPT ![page.controller].aborted = TRUE,
                               ![page.controller].wire = <<>>]

Ask(op, c) == /\ made < MaxCalls /\ made' = made + 1
              /\ calls' = calls \cup {Call(op, c)}

Blank(c) == [page EXCEPT !.active = c, !.shown = <<>>, !.streaming = FALSE,
                         !.draft = <<>>, !.controller = NoStream]

Open(c) ==
    /\ c \in page.list
    /\ Ask("open", c)
    /\ stream' = Aborted /\ page' = Blank(c)
    /\ UNCHANGED <<conv, aiStreams, raced>>

(* A pending startFromContext will need one of the bounded request names.    *)
StreamsLeft == Cardinality({s \in Streams : stream[s].pc = "unused"})
                   - Cardinality({k \in calls : k.op = "context"})

(* newChat and startFromContext abort the stream, then wait for the row.     *)
NewConversation(op) ==
    /\ op = "context" => StreamsLeft > 0
    /\ Ask(op, NoConv)
    /\ stream' = Aborted /\ page' = [page EXCEPT !.controller = NoStream]
    /\ UNCHANGED <<conv, aiStreams, raced>>

Clear ==
    /\ page.list # {} /\ Ask("clear", NoConv)
    /\ stream' = Aborted /\ page' = [page EXCEPT !.controller = NoStream]
    /\ UNCHANGED <<conv, aiStreams, raced>>

Delete(c) ==
    /\ c \in page.list /\ Ask("delete", c)
    /\ UNCHANGED <<conv, aiStreams, stream, page, raced>>

FetchConversations ==
    /\ Ask("list", NoConv)
    /\ UNCHANGED <<conv, aiStreams, stream, page, raced>>

(* Requests are alike, so it does not matter which name the next one gets.   *)
NextStream == CHOOSE s \in Streams : stream[s].pc = "unused"

(* generate on page p: a new controller replaces the old one.                *)
Generating(p, s, text) ==
    /\ s = NextStream /\ stream[s].pc = "unused"
    /\ stream' = [Aborted EXCEPT ![s].pc = "sent", ![s].conv = p.active, ![s].text = text]
    /\ page' = [p EXCEPT !.streaming = TRUE, !.draft = <<>>, !.controller = s]

(* sendMessage: the composer is disabled while a reply streams.              *)
SendMessage(s) ==
    /\ page.active # NoConv /\ ~page.streaming /\ StreamsLeft > 0
    /\ Generating([page EXCEPT !.shown = Append(@, Turn(page.active))], s, TRUE)
    /\ raced' = (raced \/ \E k \in calls : k.op \in {"chat", "context", "clear"})
    /\ UNCHANGED <<conv, aiStreams, calls, made>>

(* A stream's frames reach its callbacks, unless it was aborted.             *)
Receive(s) ==
    LET f == Head(stream[s].wire)
        mine == page.controller = s
        Partial == IF page.draft = <<>> \/ stream[s].final THEN <<>>
                   ELSE <<Reply(Head(page.draft), stream[s].read)>>
        Ends(shown) == [page EXCEPT !.shown = shown, !.streaming = FALSE, !.draft = <<>>,
                                    !.controller = IF mine THEN NoStream ELSE @]
    IN
    /\ stream[s].wire # <<>> /\ ~stream[s].aborted
    /\ stream' = [stream EXCEPT ![s].wire = Tail(@), ![s].final = @ \/ f = "done"]
    /\ CASE f = "delta" -> page' = [page EXCEPT !.draft = Append(@, stream[s].conv)]
         [] f = "done" -> page' = [page EXCEPT !.shown = Append(@, Reply(stream[s].conv, stream[s].read))]
         [] f \in {"eof", "refused"} -> page' = Ends(page.shown \o Partial)
         [] OTHER -> UNCHANGED page
    /\ IF f = "eof" /\ made < MaxCalls
       THEN calls' = calls \cup {Call("list", NoConv)} /\ made' = made + 1
       ELSE UNCHANGED <<calls, made>>
    /\ UNCHANGED <<conv, aiStreams, raced>>

(* The answers: what the awaiting action does with the page as it is now.    *)
OpenAnswered(call) ==
    /\ call.op = "open" /\ call.at \in {"answered", "failed"}
    /\ calls' = calls \ {call}
    /\ page' = IF call.at = "answered" /\ page.active = call.conv
               THEN [page EXCEPT !.shown = call.got] ELSE page
    /\ UNCHANGED <<conv, aiStreams, stream, raced, made>>

Created(call) ==
    [page EXCEPT !.active = call.conv, !.shown = call.got, !.streaming = FALSE,
                 !.draft = <<>>, !.list = @ \cup {call.conv}]

CreateAnswered(call) ==
    /\ call.op \in {"chat", "context"} /\ call.at \in {"answered", "failed"}
    /\ calls' = calls \ {call}
    /\ \/ /\ call.op = "chat" /\ call.at = "answered"
          /\ page' = Created(call) /\ UNCHANGED <<stream, raced>>
       \/ /\ call.op = "context" /\ call.at = "answered"
          /\ \E s \in Streams : Generating(Created(call), s, FALSE)
          /\ raced' = (raced \/ \E k \in calls \ {call} : k.op \in {"chat", "context", "clear"})
       \/ /\ call.at = "failed" /\ UNCHANGED <<stream, page, raced>>
    /\ UNCHANGED <<conv, aiStreams, made>>

(* deleteConversation and clearConversations; a failed call drops it too.    *)
RemoveAnswered(call) ==
    /\ call.op \in {"delete", "clear"} /\ call.at = "answered"
    /\ calls' = calls \ {call}
    /\ LET mine == page.active = call.conv IN
       /\ stream' = IF call.op = "delete" /\ mine THEN Aborted ELSE stream
       /\ page' = IF call.op = "clear"
                  THEN [Blank(NoConv) EXCEPT !.list = {}, !.controller = page.controller]
                  ELSE [IF mine THEN Blank(NoConv) ELSE page EXCEPT !.list = @ \ {call.conv}]
    /\ UNCHANGED <<conv, aiStreams, raced, made>>

(* fetchConversations keeps the active conversation the snapshot may miss.   *)
Merged(fetched) == fetched \cup (page.list \cap {page.active})

ListAnswered(call) ==
    /\ call.op = "list" /\ call.at = "answered"
    /\ calls' = calls \ {call}
    /\ page' = [page EXCEPT !.list = Merged(call.list)]
    /\ UNCHANGED <<conv, aiStreams, stream, raced, made>>

-----------------------------------------------------------------------------
Quiet == calls = {} /\ \A s \in Streams : /\ stream[s].pc \in Finished
                                          /\ stream[s].aborted \/ stream[s].wire = <<>>

(* The bounds are reached: nothing more is asked.                            *)
ConvIdle == Quiet /\ UNCHANGED convVars

Answers(call) ==
    \/ ServeCreate(call) \/ ServeOther(call)
    \/ OpenAnswered(call) \/ CreateAnswered(call) \/ RemoveAnswered(call) \/ ListAnswered(call)

ConvNext ==
    \/ \E s \in Streams : HandlerStep(s) \/ SendMessage(s) \/ Receive(s)
    \/ \E c \in Convs : Open(c) \/ Delete(c)
    \/ \E op \in {"chat", "context"} : NewConversation(op)
    \/ Clear \/ FetchConversations
    \/ \E call \in calls : Answers(call)
    \/ ConvIdle

(* Handlers run; the provider answers, fails or is cut off by the watchdog.  *)
ConvFairness == \A s \in Streams : WF_convVars(HandlerStep(s))
ConvSpec == ConvInit /\ [][ConvNext]_convVars /\ ConvFairness

-----------------------------------------------------------------------------
ConvTypeOK ==
    /\ \A c \in Convs : /\ conv[c].made \in {"no", "yes", "gone"}
                        /\ conv[c].msgs \in Seq(Msgs)
                        /\ conv[c].title \in Streams \cup {"", "context"}
    /\ aiStreams \subseteq Convs
    /\ \A s \in Streams : stream[s].conv \in Convs \cup {NoConv}
    /\ \A k \in calls : k.op \in Ops /\ k.conv \in Convs \cup {NoConv}
    /\ page.active \in Convs \cup {NoConv} /\ page.list \subseteq Convs
    /\ page.shown \in Seq(Msgs) /\ page.draft \in Seq(Convs)
    /\ page.controller \in Streams \cup {NoStream}
    /\ raced \in BOOLEAN /\ made \in 0..MaxCalls

(* Two replies never answer the same history: the per-conversation lock is   *)
(* held until the reply is stored (handlers/ai.go, StreamAIMessage).         *)
OneReplyPerTurn ==
    \A c \in Convs : \A i, j \in DOMAIN conv[c].msgs :
        LET a == conv[c].msgs[i]
            b == conv[c].msgs[j]
        IN (i # j /\ a.role = "assistant" /\ b.role = "assistant")
               => a.read # b.read

(* A title, once a conversation has one, is never replaced, although the     *)
(* handlers decide to set it on a row they read before taking the lock.      *)
TitleIsKept ==
    [][\A c \in Convs : conv[c].title # "" => conv'[c].title = conv[c].title]_convVars

(* What the page shows, the streamed draft included, is of the conversation  *)
(* it has open: stale answers are ignored and left streams are cut.          *)
ThreadIsActive ==
    /\ \A i \in DOMAIN page.shown : page.shown[i].conv = page.active
    /\ \A i \in DOMAIN page.draft : page.draft[i] = page.active
ThreadBelongs == raced \/ ThreadIsActive

(* The open conversation is in the page's list, whatever list answers late.  *)
ActiveIsListed == page.active # NoConv => page.active \in page.list

(* Both: the page shows one conversation, whatever it awaits.                *)
PageIsOfOne == ThreadBelongs /\ ActiveIsListed

(* A conversation's stream lock is always released.                          *)
LockIsReleased == \A c \in Convs : (c \in aiStreams) ~> (c \notin aiStreams)
=============================================================================
