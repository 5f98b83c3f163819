----------------------------- MODULE MCServices -----------------------------
(* The handlers that talk to a page, and the page's stores, for TLC.  They  *)
(* share nothing that the properties tell apart, so one run checks them     *)
(* side by side: the first state decides which of them moves.               *)
EXTENDS Hub, InterceptPublish, Conversation, AISettings, Callbacks, TaskPage, TLC

VARIABLE part

servicesVars == <<part, allHubVars, allVars, convVars, setVars, cbVars, pageVars>>

Parts == {"hub", "publish", "conversation", "settings", "callbacks", "page"}

\* Only the part that moves has a choice of first states.
ServicesInit ==
  /\ part \in Parts
  /\ HubInit /\ PublishInit /\ ConvInit /\ SetInit /\ CbInit /\ PageInit
  /\ part = "settings" \/ flags = NoRow
  /\ part = "callbacks" \/ domain = <<>>
  /\ part = "page" \/ kind = "intruder"

HubTurn == part = "hub" /\ UNCHANGED <<part, allVars, convVars, setVars, cbVars, pageVars>>
PublishTurn == part = "publish" /\ UNCHANGED <<part, allHubVars, convVars, setVars, cbVars, pageVars>>
ConvTurn == part = "conversation" /\ UNCHANGED <<part, allHubVars, allVars, setVars, cbVars, pageVars>>
SetTurn == part = "settings" /\ UNCHANGED <<part, allHubVars, allVars, convVars, cbVars, pageVars>>
CbTurn == part = "callbacks" /\ UNCHANGED <<part, allHubVars, allVars, convVars, setVars, pageVars>>
PageTurn == part = "page" /\ UNCHANGED <<part, allHubVars, allVars, convVars, setVars, cbVars>>

ServicesNext ==
  \/ HubTurn /\ HubNext
  \/ PublishTurn /\ PublishNext
  \/ ConvTurn /\ ConvNext
  \/ SetTurn /\ SetNext
  \/ CbTurn /\ CbNext
  \/ PageTurn /\ PageNext

\* The two goroutines of a connection.
PumpMoves(c, k) == IF k = 1 THEN ReaderMoves(c) ELSE WriterMoves(c)

\* The fairness of each part, for the one that moves.  Only one does in a
\* behaviour, so a condition here may stand for one condition of each part.
ServicesFairness ==
  /\ WF_servicesVars(\/ PublishTurn /\ \E p \in Publishers : PublishStep(p)
                     \/ PageTurn /\ \E call \in pcalls : PageAnswers(call)
                     \/ CbTurn /\ ApplyCallback)
  /\ \A k \in 1..2 :
       WF_servicesVars(\/ ConvTurn /\ HandlerStep(<<"s1", "s2">>[k])
                       \/ CbTurn /\ (StoreCallback(k) \/ NotifyCallback(k))
                       \/ HubTurn /\ \E c \in Clients : PumpMoves(c, k))

ServicesSpec == ServicesInit /\ [][ServicesNext]_servicesVars /\ ServicesFairness

-----------------------------------------------------------------------------

\* The types of all the parts.
ServicesTypeOK ==
  /\ HubTypeOK /\ PublishTypeOK /\ ConvTypeOK /\ SetTypeOK /\ CbTypeOK /\ PageTypeOK
  /\ part \in Parts

\* What has to end, the k-th of its kind: a connection that lingers and a frame on its
\* way (the fourth, which may follow one that was dropped); an item the page shows
\* wrongly; a conversation that is locked; a callback that is not shown; a pane that
\* loads (items are alike) and a start under way.
Pending(k) ==
  \/ part = "hub" /\ k = 1 /\ \E c \in Clients : Lingers(c)
  \/ part = "hub" /\ k = 2 /\ \E c \in Clients : OnItsWay(c, 4)
  \/ part = "publish" /\ k \in Items /\ Outdated(k) /\ ~crossed
  \/ part = "conversation" /\ k \in aiStreams
  \/ part = "callbacks" /\ k \in Caught /\ Unshown(k)
  \/ part = "page" /\ k = 1 /\ Loading(k)
  \/ part = "page" /\ k = 2 /\ pg.busy

\* It ends.  As one part moves in a behaviour, and Clients has one page,
\* this is BufferedIsDelivered, ClientsLeave, ViewCatchesUp, LockIsReleased,
\* CallbackIsShown and SpinnersEnd.
NothingLasts == \A k \in 1..2 : Pending(k) ~> ~Pending(k)

\* The lists a page shows: rows only of the selected item, and none twice,
\* callbacks included.
ListsAreRight == RowsOfSelection /\ RowsOnce /\ ShownOnce

\* Nothing is undone by something older: not the title of a conversation
\* (TitleIsKept), not a callback that is listed (LiveSurvives).
NothingIsUndone == TitleIsKept /\ LiveSurvives

-----------------------------------------------------------------------------

\* A response: both toggles let it go.
MCDir == <<"response">>

\* The domain itself, a name that carries a token, and one outside.
MCDomain == <<"d">>
MCNames  == {<<"d">>, <<"x", "t", "d">>, <<"t", "e">>}
=============================================================================
