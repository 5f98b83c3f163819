------------------------------ MODULE TaskPage ------------------------------
(* The pages that list items and show the rows of the selected one:          *)
(* intruderStore.ts, scannerStore.ts, crawlerStore.ts, sequencerStore.ts and *)
(* repeaterStore.ts. Each keeps a token that every selection bumps; answers  *)
(* of calls, and frames of the live stream, arrive in any order.             *)
EXTENDS Naturals, Sequences, SequencesExt, FiniteSets

CONSTANTS PageItems,         \* identifiers of attacks, scans, crawls, captures or tabs
          NoItem,
          MaxRows,       \* bound on the rows one run produces
          MaxPageCalls   \* bound on the calls the page makes

ASSUME PageAssumption ==
    /\ PageItems \subseteq Nat /\ NoItem \notin PageItems
    /\ MaxRows \in Nat \ {0} /\ MaxPageCalls \in Nat

VARIABLES kind,     \* which of the five stores this is
          server,   \* per item: [made, status, rows]
          frames,   \* live frames on their way to the page, in order
          pcalls,   \* calls in flight, with the locals of their awaiting action
          pg,       \* the store
          pmade     \* calls made so far

pageVars == <<kind, server, frames, pcalls, pg, pmade>>

Kinds == {"intruder", "scanner", "crawler", "sequencer", "repeater"}
SavesFirst == kind \in {"intruder", "sequencer", "repeater"}   \* an edited draft
SelectsNext == kind \in {"intruder", "repeater"}  \* deleting moves the selection on
Row(i, n) == [item |-> i, n |-> n]
Numbers == 1..MaxRows

PageInit ==
    /\ kind \in Kinds
    /\ server = [i \in PageItems |-> [made |-> "yes", status |-> "over", rows |-> {1}]]
    /\ frames = <<>> /\ pcalls = {} /\ pmade = 0
    /\ pg = [selected |-> NoItem, token |-> 0, shown |-> <<>>, loading |-> FALSE,
             loaded |-> FALSE, busy |-> FALSE, list |-> [i \in PageItems |-> "over"]]

-----------------------------------------------------------------------------
(* The server, as far as the page sees it (the runs have modules of their    *)
(* own): rows are stored and then announced, the end of a run is announced.  *)
Lives(i) == server[i].made = "yes"

(* The results of an attack have numbers of their own; other rows are listed *)
(* in the order in which they were stored.                                   *)
NewRows(rows) ==
    IF kind = "intruder" THEN Numbers \ rows ELSE Numbers \cap {Cardinality(rows) + 1}

Produce(i) ==
    /\ kind # "repeater" /\ server[i].status = "running" /\ server[i].rows # Numbers
    /\ \E n \in NewRows(server[i].rows) :
         /\ server' = [server EXCEPT ![i].rows = @ \cup {n}]
         /\ frames' = Append(frames, [item |-> i, row |-> n, status |-> "running"])
    /\ UNCHANGED <<kind, pcalls, pg, pmade>>

Finish(i) ==
    /\ server[i].status = "running"
    /\ server' = [server EXCEPT ![i].status = "over"]
    /\ frames' = Append(frames, [item |-> i, row |-> 0, status |-> "over"])
    /\ UNCHANGED <<kind, pcalls, pg, pmade>>

(* useWebSocket.ts: the stream breaks and is opened again; nothing is        *)
(* fetched for the frames that went missing.                                 *)
Reconnect ==
    /\ frames # <<>> /\ frames' = <<>>
    /\ UNCHANGED <<kind, server, pcalls, pg, pmade>>

(* A call: what the action captured before it awaited, and the answer.       *)
PCall(op, i, token) ==
    [op |-> op, item |-> i, token |-> token, at |-> "sent", status |-> "", rows |-> {}, list |-> <<>>]
Changes(call, new) == pcalls' = (pcalls \ {call}) \cup {new}
Answered(call, now) ==
    [call EXCEPT !.at = "answered", !.status = now.status, !.rows = now.rows]

Snapshot == [i \in {j \in PageItems : Lives(j)} |-> server[i].status]

ServeRead(call) ==
    /\ call.at = "sent"
    /\ \/ /\ call.op \in {"load", "refresh", "save"} /\ Lives(call.item)
          /\ Changes(call, Answered(call, server[call.item]))
       \/ call.op = "list" /\ Changes(call, [call EXCEPT !.at = "answered", !.list = Snapshot])
    /\ UNCHANGED <<kind, server, frames, pg, pmade>>

(* A start is refused while the item runs. It clears the rows of the run     *)
(* before (a scan keeps the issues it found).                                *)
ServeStart(call) ==
    LET i == call.item
        begun == [server[i] EXCEPT !.status = "running", !.rows = IF kind = "scanner" THEN @ ELSE {}]
    IN
    /\ call.at = "sent" /\ call.op = "start" /\ kind # "repeater"
    /\ Lives(i) /\ server[i].status # "running"
    /\ server' = [server EXCEPT ![i] = begun]
    /\ Changes(call, Answered(call, begun))
    /\ UNCHANGED <<kind, frames, pg, pmade>>

(* SendRepeaterTab: one more entry in the history of the tab.                *)
ServeSend(call) ==
    LET i == call.item IN
    /\ call.at = "sent" /\ call.op = "start" /\ kind = "repeater"
    /\ Lives(i)
    /\ \E n \in NewRows(server[i].rows) :
         /\ server' = [server EXCEPT ![i].rows = @ \cup {n}]
         /\ Changes(call, [call EXCEPT !.at = "answered", !.rows = {n}])
    /\ UNCHANGED <<kind, frames, pg, pmade>>

ServeDelete(call) ==
    /\ call.at = "sent" /\ call.op = "delete"
    /\ server' = [server EXCEPT ![call.item] = [made |-> "gone", status |-> "idle", rows |-> {}]]
    /\ Changes(call, [call EXCEPT !.at = "answered"])
    /\ UNCHANGED <<kind, frames, pg, pmade>>

(* Any call may fail; an item that is gone makes it fail.                    *)
ServeFailure(call) ==
    /\ call.at = "sent" /\ Changes(call, [call EXCEPT !.at = "failed"])
    /\ UNCHANGED <<kind, server, frames, pg, pmade>>

-----------------------------------------------------------------------------
(* The page. selectAttack, selectTask, selectTab from page p: the token      *)
(* moves, the pane is emptied, the detail is asked for.                      *)
Selecting(p, i) ==
    [p EXCEPT !.selected = i, !.token = @ + 1, !.shown = <<>>, !.loading = TRUE, !.loaded = FALSE]
Blanked(p) == [p EXCEPT !.selected = NoItem, !.shown = <<>>, !.loaded = FALSE]

(* clearSelectedTask moves the token too; the blank pane of the stores that  *)
(* select the next item does not.                                            *)
Cleared(p) == IF SelectsNext THEN Blanked(p) ELSE [Blanked(p) EXCEPT !.token = @ + 1]

Calls(p, i) == {PCall("load", i, p.token + 1)}

Room(n) == pmade + n <= MaxPageCalls

Select(i) ==
    /\ Room(1) /\ pmade' = pmade + 1
    /\ i \in DOMAIN pg.list
    /\ pg' = Selecting(pg, i) /\ pcalls' = pcalls \cup Calls(pg, i)
    /\ UNCHANGED <<kind, server, frames>>

Ask1(op, i) ==
    /\ Room(1) /\ pmade' = pmade + 1
    /\ pcalls' = pcalls \cup {PCall(op, i, pg.token)}

Start ==
    /\ pg.selected # NoItem /\ pg.loaded /\ ~pg.busy
    /\ Ask1(IF SavesFirst THEN "save" ELSE "start", pg.selected)
    /\ pg' = [pg EXCEPT !.busy = SelectsNext]
    /\ UNCHANGED <<kind, server, frames>>

Delete1(i) ==
    /\ i \in DOMAIN pg.list /\ Ask1("delete", i)
    /\ UNCHANGED <<kind, server, frames, pg>>

FetchAll == Ask1("list", NoItem) /\ UNCHANGED <<kind, server, frames, pg>>

Close ==
    /\ ~SelectsNext /\ pg.selected # NoItem
    /\ pg' = Cleared(pg)
    /\ UNCHANGED <<kind, server, frames, pcalls, pmade>>

(* The list row of an item, if it is still listed.                           *)
Patched(p, i, status) ==
    [p EXCEPT !.list = [j \in DOMAIN @ |-> IF j = i THEN status ELSE @[j]]]

ByNumber(rows) ==
    CHOOSE s \in SetToSeqs(rows) : \A j, k \in DOMAIN s : j < k => s[j] < s[k]
InOrder(rows, i) == [k \in 1..Cardinality(rows) |-> Row(i, ByNumber(rows)[k])]

Over(call) == call.at \in {"answered", "failed"}
Stale(call) == call.token # pg.token
Settled(call) == pcalls' = pcalls \ {call} /\ UNCHANGED <<kind, server, frames, pmade>>

(* Seeded fault: the answer of an older selection fills the pane.            *)
LoadAnsweredLate(call) ==
    /\ call.op = "load" /\ Over(call) /\ Settled(call)
    /\ pg' = IF call.at = "failed" THEN [pg EXCEPT !.loading = FALSE]
             ELSE [Patched(pg, call.item, call.status) EXCEPT
                     !.loading = FALSE, !.loaded = TRUE,
                     !.shown = InOrder(call.rows, call.item)]

(* An answer for an older selection is dropped.                              *)
LoadAnswered(call) ==
    /\ call.op = "load" /\ Over(call) /\ Settled(call)
    /\ pg' = IF Stale(call) THEN pg
             ELSE IF call.at = "failed" THEN [pg EXCEPT !.loading = FALSE]
             ELSE [Patched(pg, call.item, call.status) EXCEPT
                     !.loading = FALSE, !.loaded = TRUE,
                     !.shown = InOrder(call.rows, call.item)]

(* refreshReport: the rows of a capture that ended, in place.                *)
RefreshAnswered(call) ==
    /\ call.op = "refresh" /\ Over(call) /\ Settled(call)
    /\ pg' = IF Stale(call) \/ pg.selected # call.item \/ call.at = "failed" THEN pg
             ELSE [Patched(pg, call.item, call.status) EXCEPT !.shown = InOrder(call.rows, call.item)]

(* saveDraft returns, and start goes on with the second call.                *)
SaveAnswered(call) ==
    /\ call.op = "save" /\ Over(call)
    /\ \/ /\ Stale(call) \/ call.at = "failed"
          /\ pg' = [pg EXCEPT !.busy = FALSE] /\ pcalls' = pcalls \ {call}
       \/ /\ ~Stale(call) /\ call.at = "answered"
          /\ pg' = Patched(pg, call.item, call.status)
          /\ Changes(call, PCall("start", call.item, call.token))
    /\ UNCHANGED <<kind, server, frames, pmade>>

(* The view of the started item replaces its list row; an attack and a crawl *)
(* empty the pane, a tab gets its new entry.                                 *)
StartAnswered(call) ==
    LET started == [Patched(pg, call.item, IF kind = "repeater" THEN "idle" ELSE call.status)
                       EXCEPT !.busy = FALSE]
    IN
    /\ call.op = "start" /\ Over(call) /\ Settled(call)
    /\ pg' = IF Stale(call) \/ call.at = "failed" THEN [pg EXCEPT !.busy = FALSE]
             ELSE CASE kind \in {"intruder", "crawler"} -> [started EXCEPT !.shown = <<>>]
                    [] kind = "repeater" -> [started EXCEPT !.shown = @ \o InOrder(call.rows, call.item)]
                    [] OTHER -> started

(* Deleting drops the item from the view, whether or not the call failed.    *)
Without(p, i) ==
    [p EXCEPT !.list = [j \in DOMAIN @ \ {i} |-> @[j]]]
First(list) == CHOOSE j \in DOMAIN list : \A k \in DOMAIN list : j <= k

(* Page p after its selected item is gone from the list.                     *)
MovesOn(p, call) ==
    IF SelectsNext /\ DOMAIN p.list # {}
    THEN /\ pg' = Selecting(p, First(p.list))
         /\ pcalls' = (pcalls \ {call}) \cup Calls(p, First(p.list))
    ELSE pg' = Cleared(p) /\ pcalls' = pcalls \ {call}

DeleteAnswered(call) ==
    /\ call.op = "delete" /\ Over(call)
    /\ \/ /\ pg.selected = call.item /\ MovesOn(Without(pg, call.item), call)
       \/ /\ pg.selected # call.item
          /\ pg' = Without(pg, call.item) /\ pcalls' = pcalls \ {call}
    /\ UNCHANGED <<kind, server, frames, pmade>>

(* The fetched list replaces the one shown. The two stores that are never    *)
(* blank select the first item when the selection is not in it.              *)
ListAnswered1(call) ==
    LET p == [pg EXCEPT !.list = call.list] IN
    /\ call.op = "list" /\ Over(call)
    /\ \/ /\ call.at = "answered" /\ SelectsNext /\ pg.selected \notin DOMAIN call.list
          /\ MovesOn(p, call)
       \/ /\ call.at = "answered" /\ (~SelectsNext \/ pg.selected \in DOMAIN call.list)
          /\ pg' = p /\ pcalls' = pcalls \ {call}
       \/ /\ call.at = "failed" /\ pcalls' = pcalls \ {call} /\ UNCHANGED pg
    /\ UNCHANGED <<kind, server, frames, pmade>>

(* applyUpdate. A row joins the pane of its item once: an attack replaces a  *)
(* row of that number, or puts it after the last one that is not above it;   *)
(* the others add it at the end; a capture shows its tokens when it ends.    *)
Shows(r) == r \in ToSet(pg.shown)
PlaceOf(n) == CHOOSE k \in 1..(Len(pg.shown) + 1) :
                /\ k = 1 \/ pg.shown[k - 1].n <= n
                /\ \A j \in k..Len(pg.shown) : pg.shown[j].n > n
Joined(r) ==
    IF kind # "intruder"
    THEN IF Shows(r) THEN pg.shown ELSE Append(pg.shown, r)
    ELSE IF \E q \in ToSet(pg.shown) : q.n = r.n
         THEN [k \in DOMAIN pg.shown |-> IF pg.shown[k].n = r.n THEN r ELSE pg.shown[k]]
         ELSE InsertAt(pg.shown, PlaceOf(r.n), r)

ApplyUpdate ==
    LET f == Head(frames)
        patched == Patched(pg, f.item, f.status)
    IN
    /\ frames # <<>> /\ frames' = Tail(frames)
    /\ pg' = IF f.row # 0 /\ f.item = pg.selected /\ kind # "sequencer"
             THEN [patched EXCEPT !.shown = Joined(Row(f.item, f.row))] ELSE patched
    /\ pcalls' = IF kind = "sequencer" /\ f.status = "over" /\ f.item = pg.selected
                 THEN pcalls \cup {PCall("refresh", f.item, pg.token)} ELSE pcalls
    /\ UNCHANGED <<kind, server, pmade>>

-----------------------------------------------------------------------------
PageAnswers(call) ==
    \/ ServeRead(call) \/ ServeStart(call) \/ ServeSend(call) \/ ServeDelete(call)
    \/ ServeFailure(call)
    \/ LoadAnswered(call) \/ RefreshAnswered(call) \/ SaveAnswered(call)
    \/ StartAnswered(call) \/ DeleteAnswered(call) \/ ListAnswered1(call)

PageIdle == frames = <<>> /\ pcalls = {} /\ UNCHANGED pageVars

PageNext ==
    \/ \E i \in PageItems : Produce(i) \/ Finish(i) \/ Select(i) \/ Delete1(i)
    \/ Reconnect \/ Start \/ FetchAll \/ Close \/ ApplyUpdate
    \/ \E call \in pcalls : PageAnswers(call)
    \/ PageIdle

(* A call is answered, or fails, in the end.                                 *)
PageFairness == WF_pageVars(\E call \in pcalls : PageAnswers(call))
PageSpec == PageInit /\ [][PageNext]_pageVars /\ PageFairness

-----------------------------------------------------------------------------
PageTypeOK ==
    /\ kind \in Kinds
    /\ \A i \in PageItems : /\ server[i].made \in {"yes", "gone"} /\ server[i].rows \subseteq Numbers
                        /\ server[i].status \in {"idle", "running", "over"}
    /\ \A k \in 1..Len(frames) : frames[k].item \in PageItems /\ frames[k].row \in 0..MaxRows
    /\ pg.selected \in PageItems \cup {NoItem} /\ pg.token \in 0..(2 * MaxPageCalls)
    /\ DOMAIN pg.list \subseteq PageItems
    /\ {pg.loading, pg.loaded, pg.busy} \subseteq BOOLEAN /\ pmade \in 0..MaxPageCalls

(* The rows in the pane are of the item selected: no answer of an older      *)
(* selection lands in it.                                                    *)
RowsOfSelection ==
    pg.selected # NoItem => \A k \in 1..Len(pg.shown) : pg.shown[k].item = pg.selected

(* A reload and the live rows never show a row twice, and the rows of an     *)
(* attack stay in the order of their index.                                  *)
RowsOnce ==
    /\ IsInjective(pg.shown)
    /\ kind = "intruder" =>
         \A k \in 1..(Len(pg.shown) - 1) : pg.shown[k].n < pg.shown[k + 1].n

(* The pane of the selected item i waits for its detail.                     *)
Loading(i) == pg.selected = i /\ pg.loading

(* The pane of a selected item stops loading, and a start under way ends.    *)
SpinnersEnd ==
    /\ \A i \in PageItems : Loading(i) ~> ~Loading(i)
    /\ pg.busy ~> ~pg.busy
=============================================================================
