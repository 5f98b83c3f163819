----------------------------- MODULE Callbacks ------------------------------
(* The out-of-band server (oob/server.go, storage/oob.go, handlers/oob.go)   *)
(* and the page that lists what it caught (oobStore.ts). A callback is       *)
(* stored, then broadcast; the page merges broadcasts with snapshots that    *)
(* were taken before, during or after them.                                  *)
EXTENDS Naturals, Sequences, SequencesExt, FiniteSets

CONSTANTS Caught,     \* numbers of the callbacks that arrive, in order (bounds them)
          Domain,     \* the configured domain, as a sequence of labels
          Names,      \* names the callbacks ask for, as sequences of labels
          Tokens,     \* payload tokens, labels
          MaxAsked    \* bound on the calls the page makes

ASSUME CbAssumption ==
    /\ Caught \subseteq Nat /\ IsFiniteSet(Caught) /\ Domain # <<>> /\ MaxAsked \in Nat

VARIABLES domain,     \* the configured domain, empty when the server is off
          payloads,   \* tokens of oob_payloads
          rows,       \* identifiers in oob_interactions
          caught,     \* per callback: its step, its protocol and its token
          wire,       \* broadcasts on their way to the page, in order
          oobCalls,   \* the page's calls in flight
          oobView,       \* oobStore: [shown, badges], badges only of listed payloads
          missed,     \* broadcasts were lost with the stream, or wiped by a late clear
          asked       \* calls made so far

cbVars == <<domain, payloads, rows, caught, wire, oobCalls, oobView, missed, asked>>

Enabled == domain # <<>>                         \* Config.Enabled

(* match: the name is under the domain, and the label left of it is the      *)
(* token; the domain itself carries none.                                    *)
Under(name) == Enabled /\ IsSuffix(domain, name)
TokenOf(name) == IF Len(name) = Len(domain) THEN "" ELSE name[Len(name) - Len(domain)]

CbInit ==
    /\ domain \in {<<>>, Domain}
    /\ payloads = {} /\ rows = {}
    /\ caught = [i \in Caught |-> [at |-> "none", proto |-> "", token |-> ""]]
    /\ wire = <<>> /\ oobCalls = {}
    /\ oobView = [shown |-> <<>>, badges |-> <<>>]
    /\ missed = FALSE /\ asked = 0

-----------------------------------------------------------------------------
(* handleHTTP runs once per request, concurrently; handleDNS runs in the     *)
(* read loop, one packet at a time. Names outside the domain are ignored.    *)
Arrives(i, proto, name) ==
    /\ Enabled /\ caught[i].at = "none"
    /\ \A j \in Caught : j < i => caught[j].at # "none"
    /\ proto = "dns" => \A j \in Caught : caught[j].proto # "dns"
    /\ caught' = [caught EXCEPT ![i] =
           IF Under(name) THEN [at |-> "store", proto |-> proto, token |-> TokenOf(name)]
           ELSE [at |-> "over", proto |-> "", token |-> ""]]
    /\ UNCHANGED <<domain, payloads, rows, wire, oobCalls, oobView, missed, asked>>

(* record: a callback that could not be stored is not announced.             *)
StoreCallback(i) ==
    /\ caught[i].at = "store"
    /\ \/ rows' = rows \cup {i} /\ caught' = [caught EXCEPT ![i].at = "notify"]
       \/ UNCHANGED rows /\ caught' = [caught EXCEPT ![i].at = "over", ![i].proto = ""]
    /\ UNCHANGED <<domain, payloads, wire, oobCalls, oobView, missed, asked>>

NotifyCallback(i) ==
    /\ caught[i].at = "notify"
    /\ caught' = [caught EXCEPT ![i].at = "over", ![i].proto = ""]
    /\ wire' = Append(wire, i)
    /\ UNCHANGED <<domain, payloads, rows, oobCalls, oobView, missed, asked>>

(* The stream breaks and reconnects: broadcasts meanwhile are lost, and the  *)
(* page does not fetch again by itself.                                      *)
CutStream ==
    /\ wire # <<>> /\ wire' = <<>> /\ missed' = TRUE
    /\ UNCHANGED <<domain, payloads, rows, caught, oobCalls, oobView, asked>>

-----------------------------------------------------------------------------
(* Calls of the page: fetchAll asks for the two lists at once and waits for  *)
(* both; each is a read of its own.                                          *)
OobCall(op) == [op |-> op, at |-> "sent", list |-> <<>>, counts |-> <<>>, token |-> ""]
Turns(call, new) == oobCalls' = (oobCalls \ {call}) \cup {new}

AskOob(op) ==
    /\ asked < MaxAsked /\ asked' = asked + 1
    /\ \A call \in oobCalls : call.op # op
    /\ oobCalls' = oobCalls \cup {OobCall(op)}
    /\ UNCHANGED <<domain, payloads, rows, caught, wire, oobView, missed>>

NewestFirst(S) ==
    CHOOSE s \in SetToSeqs(S) : \A j, k \in DOMAIN s : j < k => s[j] > s[k]

(* ListOOBPayloads counts, ListOOBInteractions lists: in either order.       *)
ReadPayloads(call) ==
    /\ Enabled /\ call.op = "fetch" /\ call.at \in {"sent", "listed"}
    /\ Turns(call, [call EXCEPT
           !.at = IF @ = "sent" THEN "counted" ELSE "both",
           !.counts = [t \in payloads |-> Cardinality({i \in rows : caught[i].token = t})]])
    /\ UNCHANGED <<domain, payloads, rows, caught, wire, oobView, missed, asked>>

ReadInteractions(call) ==
    /\ Enabled /\ call.op = "fetch" /\ call.at \in {"sent", "counted"}
    /\ Turns(call, [call EXCEPT !.at = IF @ = "sent" THEN "listed" ELSE "both",
                                !.list = NewestFirst(rows)])
    /\ UNCHANGED <<domain, payloads, rows, caught, wire, oobView, missed, asked>>

(* Seeded fault: what is fetched replaces what is shown.                     *)
MergeInteractionsOver(fetched, existing) == fetched

(* mergeInteractions: what is fetched, and what is shown already.            *)
MergeInteractions(fetched, existing) == NewestFirst(ToSet(fetched) \cup ToSet(existing))

FetchAnswered(call) ==
    /\ call.op = "fetch"
    /\ \/ /\ Enabled /\ call.at = "both"
          /\ oobView' = [shown |-> MergeInteractions(call.list, oobView.shown), badges |-> call.counts]
       \/ /\ ~Enabled /\ call.at = "sent"
          /\ oobView' = [shown |-> <<>>, badges |-> <<>>]
    /\ oobCalls' = oobCalls \ {call}
    /\ UNCHANGED <<domain, payloads, rows, caught, wire, missed, asked>>

(* GenerateOOBPayload: the row first, then the badge at the page.            *)
SavePayload(call, t) ==
    /\ call.op = "generate" /\ call.at = "sent" /\ Enabled /\ t \notin payloads
    /\ payloads' = payloads \cup {t}
    /\ Turns(call, [call EXCEPT !.at = "both", !.token = t])
    /\ UNCHANGED <<domain, rows, caught, wire, oobView, missed, asked>>

GenerateAnswered(call) ==
    /\ call.op = "generate"
    /\ \/ /\ call.at = "both"
          /\ oobView' = [oobView EXCEPT !.badges = [t \in DOMAIN @ \cup {call.token} |->
                                                 IF t = call.token THEN 0 ELSE @[t]]]
       \/ call.at = "sent" /\ UNCHANGED oobView           \* ErrDisabled, or a failure
    /\ oobCalls' = oobCalls \ {call}
    /\ UNCHANGED <<domain, payloads, rows, caught, wire, missed, asked>>

(* ClearOOBInteractions, then the page's own clear, which also wipes what    *)
(* was caught and listed since the server's.                                 *)
DeleteInteractions(call) ==
    /\ call.op = "clear" /\ call.at = "sent"
    /\ rows' = {} /\ Turns(call, [call EXCEPT !.at = "both"])
    /\ UNCHANGED <<domain, payloads, caught, wire, oobView, missed, asked>>

ClearAnswered(call) ==
    /\ call.op = "clear" /\ call.at = "both"
    /\ oobView' = [shown |-> <<>>, badges |-> [t \in DOMAIN oobView.badges |-> 0]]
    /\ missed' = (missed \/ rows # {})
    /\ oobCalls' = oobCalls \ {call}
    /\ UNCHANGED <<domain, payloads, rows, caught, wire, asked>>

(* applyUpdate: an interaction already shown changes nothing, not even the   *)
(* badge.                                                                    *)
ApplyCallback ==
    LET i == Head(wire)
        t == caught[i].token
    IN
    /\ wire # <<>> /\ wire' = Tail(wire)
    /\ oobView' = IF i \in ToSet(oobView.shown) THEN oobView
               ELSE [shown |-> <<i>> \o oobView.shown,
                     badges |-> IF t \in DOMAIN oobView.badges
                                THEN [oobView.badges EXCEPT ![t] = @ + 1] ELSE oobView.badges]
    /\ UNCHANGED <<domain, payloads, rows, caught, oobCalls, missed, asked>>

-----------------------------------------------------------------------------
OobAnswers(call) ==
    \/ ReadPayloads(call) \/ ReadInteractions(call) \/ FetchAnswered(call)
    \/ \E t \in Tokens : SavePayload(call, t)
    \/ GenerateAnswered(call) \/ DeleteInteractions(call) \/ ClearAnswered(call)

CbIdle ==
    /\ wire = <<>> /\ oobCalls = {} /\ \A i \in Caught : caught[i].at \in {"none", "over"}
    /\ UNCHANGED cbVars

CbNext ==
    \/ \E i \in Caught :
         \/ \E proto \in {"dns", "http"}, name \in Names : Arrives(i, proto, name)
         \/ StoreCallback(i) \/ NotifyCallback(i)
    \/ CutStream \/ ApplyCallback
    \/ \E op \in {"fetch", "generate", "clear"} : AskOob(op)
    \/ \E call \in oobCalls : OobAnswers(call)
    \/ CbIdle

(* Handlers run to their end, and the page reads what reaches it.            *)
CbFairness == /\ WF_cbVars(ApplyCallback)
              /\ \A i \in Caught : WF_cbVars(StoreCallback(i) \/ NotifyCallback(i))
CbSpec == CbInit /\ [][CbNext]_cbVars /\ CbFairness

-----------------------------------------------------------------------------
CbTypeOK ==
    /\ payloads \subseteq Tokens /\ rows \subseteq Caught
    /\ \A i \in Caught : /\ caught[i].at \in {"none", "store", "notify", "over"}
                         /\ caught[i].proto \in {"", "dns", "http"}
    /\ wire \in Seq(Caught) /\ oobView.shown \in Seq(Caught)
    /\ DOMAIN oobView.badges \subseteq Tokens
    /\ missed \in BOOLEAN /\ asked \in 0..MaxAsked

(* A reload and the live frames never list an interaction twice.             *)
ShownOnce == IsInjective(oobView.shown)

(* An interaction, once listed, stays until the list is cleared, whatever    *)
(* older snapshot answers meanwhile (oobStore.ts, mergeInteractions).        *)
LiveSurvives ==
    [][\/ ToSet(oobView.shown) \subseteq ToSet(oobView'.shown)
       \/ \E call \in oobCalls : call.op = "clear" /\ call \notin oobCalls']_cbVars

(* A stored callback is not on the page, although no stream broke and no     *)
(* clear answered after it was listed.                                       *)
Unshown(i) == i \in rows /\ i \notin ToSet(oobView.shown) /\ ~missed

(* A stored callback comes to the page, unless it is cleared first.          *)
CallbackIsShown == \A i \in Caught : Unshown(i) ~> ~Unshown(i)
=============================================================================
