--------------------------- MODULE Services_proofs ---------------------------
(***************************************************************************)
(* Proofs about the parts of MCServices: the hub, the publication of the   *)
(* queue, the settings and the conversations of the assistant, callbacks,  *)
(* and the panes of the tools, each for any values of its constants; then  *)
(* what the parts give for the whole.  Of publications and of saves that   *)
(* overlap it says what is left of their promises: the runs of the         *)
(* overlaps find the whole of them violated.                               *)
(*                                                                         *)
(* Each part has an inductive invariant of its own: Pumps and the streams  *)
(* for the hub, Published, SettingsKept, ConvBase with PageOne and the     *)
(* locks, CbInv, and PageRight.  ServicesTyped adds the bound of the       *)
(* selection tokens: each is paid for by a call that was counted.          *)
(***************************************************************************)
EXTENDS MCServices, Induction, SequenceTheorems

\* readPump is the only one to unregister its client and to close the channel,
\* and it does both at once.
Pumps ==
  \A c \in Clients :
    /\ c \in clients <=> reader[c] = "reading"
    /\ c \in closed <=> reader[c] \in {"removed", "done"}
    /\ writer[c] = "writing" <=> writing[c] # 0

LEMMA TypeInit == HubInit => HubTypeOK
BY HubAssumption DEF HubInit, HubTypeOK, Frames

\* Every step keeps the types, and no buffer grows over its capacity.
LEMMA TypeStep == HubTypeOK /\ Pumps /\ [HubNext]_allHubVars => HubTypeOK'
<1> SUFFICES ASSUME HubTypeOK, Pumps, [HubNext]_allHubVars PROVE HubTypeOK'
  OBVIOUS
<1> USE HubAssumption DEF HubTypeOK, Frames, hubVars, pumpVars, linkVars, pageHistory
<1>1. CASE Broadcast
  <2>1. log' \in Frames /\ log' \in 0..MaxFrames
    BY <1>1 DEF Broadcast
  <2>2. buffer' \in [Clients -> Seq(Frames)]
    <3>1. \A c \in Clients : Append(buffer[c], log') \in Seq(Frames)
      BY <2>1
    <3> QED
      BY <1>1, <3>1 DEF Broadcast
  <2>3. \A c \in Clients : Len(buffer'[c]) <= Buffer
    BY <1>1, <2>1 DEF Broadcast, Full
  <2>4. dropped' \in [Clients -> SUBSET Frames]
    BY <1>1, <2>1 DEF Broadcast
  <2> QED
    BY <1>1, <2>1, <2>2, <2>3, <2>4 DEF Broadcast
<1>2. ASSUME NEW c \in Clients, ServeWS(c) PROVE HubTypeOK'
  BY <1>2 DEF ServeWS
<1>3. ASSUME NEW c \in Clients, Leave(c) PROVE HubTypeOK'
  BY <1>3 DEF Leave
<1>4. ASSUME NEW c \in Clients, ReadFails(c) PROVE HubTypeOK'
  BY <1>4 DEF ReadFails
<1>5. ASSUME NEW c \in Clients, CloseConn(c) PROVE HubTypeOK'
  BY <1>5 DEF CloseConn
<1>6. ASSUME NEW c \in Clients, WriterTake(c) PROVE HubTypeOK'
  <2>1. Head(buffer[c]) \in Frames /\ Tail(buffer[c]) \in Seq(Frames)
        /\ Len(Tail(buffer[c])) <= Buffer
    BY <1>6 DEF WriterTake
  <2> QED
    BY <1>6, <2>1, SMTT(30) DEF WriterTake
<1>7. ASSUME NEW c \in Clients, WriterSend(c) PROVE HubTypeOK'
  <2>1. writing[c] \in Frames
    BY <1>7 DEF WriterSend, Pumps
  <2>2. Append(got[c], writing[c]) \in Seq(Frames)
    BY <2>1
  <2>3. got' \in [Clients -> Seq(Frames)]
    BY <1>7, <2>2 DEF WriterSend
  <2>4. writer' \in [Clients -> {"off", "select", "writing", "done"}]
    BY <1>7 DEF WriterSend
  <2>5. writing' \in [Clients -> 0..MaxFrames]
    <3>1. 0 \in 0..MaxFrames
      BY HubAssumption
    <3> QED
      BY <1>7, <3>1 DEF WriterSend
  <2>6. UNCHANGED <<log, clients, closed, buffer, reader, conn, peer, joined, dropped>>
    BY <1>7 DEF WriterSend
  <2> QED
    BY <2>3, <2>4, <2>5, <2>6
<1>8. ASSUME NEW c \in Clients, WriterClosed(c) \/ WriterFail(c) \/ PingFails(c) PROVE HubTypeOK'
  <2>1. CASE WriterClosed(c)
    BY <2>1 DEF WriterClosed
  <2>2. CASE WriterFail(c)
    BY <2>2 DEF WriterFail
  <2>3. CASE PingFails(c)
    BY <2>3 DEF PingFails
  <2> QED
    BY <1>8, <2>1, <2>2, <2>3
<1>9. CASE UNCHANGED allHubVars
  BY <1>9 DEF allHubVars
<1> QED
  BY <1>1, <1>2, <1>3, <1>4, <1>5, <1>6, <1>7, <1>8, <1>9 DEF HubNext, ClientStep

LEMMA PumpsInit == HubInit => Pumps
<1> SUFFICES ASSUME HubInit, NEW c \in Clients
             PROVE  /\ c \in clients <=> reader[c] = "reading"
                    /\ c \in closed <=> reader[c] \in {"removed", "done"}
                    /\ writer[c] = "writing" <=> writing[c] # 0
  BY DEF Pumps
<1>1. c \notin clients /\ c \notin closed /\ writing[c] = 0
  BY DEF HubInit
<1>2. reader[c] = "off" /\ writer[c] = "off"
  BY DEF HubInit
<1> QED
  BY <1>1, <1>2

LEMMA PumpsStep == HubTypeOK /\ Pumps /\ [HubNext]_allHubVars => Pumps'
<1> SUFFICES ASSUME Pumps, HubTypeOK, [HubNext]_allHubVars PROVE Pumps'
  OBVIOUS
<1> USE HubAssumption DEF Pumps, HubTypeOK, Frames, hubVars, pumpVars, linkVars, pageHistory
<1>1. CASE Broadcast
  BY <1>1 DEF Broadcast
<1>2. ASSUME NEW c \in Clients, ServeWS(c) PROVE Pumps'
  BY <1>2 DEF ServeWS
<1>3. ASSUME NEW c \in Clients, ReadFails(c) \/ CloseConn(c) PROVE Pumps'
  <2>1. CASE ReadFails(c)
    BY <2>1 DEF ReadFails
  <2>2. CASE CloseConn(c)
    BY <2>2 DEF CloseConn
  <2> QED
    BY <1>3, <2>1, <2>2
<1>4. ASSUME NEW c \in Clients, Leave(c) \/ WriterClosed(c) PROVE Pumps'
  BY <1>4 DEF Leave, WriterClosed
<1>7. ASSUME NEW c \in Clients, WriterTake(c) PROVE Pumps'
  <2>1. Head(buffer[c]) \in Frames
    BY <1>7 DEF WriterTake
  <2> QED
    BY <1>7, <2>1 DEF WriterTake
<1>5. ASSUME NEW c \in Clients, WriterSend(c) \/ WriterFail(c) \/ PingFails(c) PROVE Pumps'
  BY <1>5 DEF WriterSend, WriterFail, PingFails
<1>6. CASE UNCHANGED allHubVars
  BY <1>6 DEF allHubVars
<1> QED
  BY <1>1, <1>2, <1>3, <1>4, <1>5, <1>6, <1>7 DEF HubNext, ClientStep

\* Broadcast never sends on a closed channel.
THEOREM NeverSendsOnClosed == HubSpec => []NoSendOnClosed
<1>1. HubInit => HubTypeOK /\ Pumps
  BY TypeInit, PumpsInit
<1>2. HubTypeOK /\ Pumps /\ [HubNext]_allHubVars => (HubTypeOK /\ Pumps)'
  BY TypeStep, PumpsStep
<1>3. HubTypeOK /\ Pumps => NoSendOnClosed
  BY DEF HubTypeOK, Pumps, NoSendOnClosed
<1> QED
  BY <1>1, <1>2, <1>3, PTL DEF HubSpec


-----------------------------------------------------------------------------
(* The stream of frames to a page.                                         *)

Rising(s) == \A i, j \in 1..Len(s) : i < j => s[i] < s[j]
Of(s) == {s[i] : i \in 1..Len(s)}

LEMMA RisingAppend ==
  ASSUME NEW s \in Seq(Nat), NEW e \in Nat, \A x \in Of(s) : x < e
  PROVE  /\ Append(s, e) \in Seq(Nat) /\ Of(Append(s, e)) = Of(s) \cup {e}
         /\ Rising(s) => Rising(Append(s, e))
<1> DEFINE n == Len(s)
           t == Append(s, e)
<1>1. /\ n \in Nat /\ t \in Seq(Nat) /\ Len(t) = n + 1 /\ t[n + 1] = e
      /\ \A i \in 1..n : t[i] = s[i] /\ s[i] < e /\ s[i] \in Nat
  BY DEF Of
<1> HIDE DEF n, t
<1>2. \A i \in 1..(n + 1) : i = n + 1 \/ i \in 1..n
  BY <1>1
<1>3. Of(t) = Of(s) \cup {e}
  <2>1. Of(t) = {t[i] : i \in 1..(n + 1)} /\ Of(s) = {s[i] : i \in 1..n}
    BY <1>1 DEF Of, n
  <2>2. n + 1 \in 1..(n + 1) /\ \A i \in 1..n : i \in 1..(n + 1)
    BY <1>1
  <2> QED
    BY <1>1, <1>2, <2>1, <2>2
<1>4. ASSUME Rising(s) PROVE Rising(t)
  <2> SUFFICES ASSUME NEW i \in 1..(n + 1), NEW j \in 1..(n + 1), i < j PROVE t[i] < t[j]
    BY <1>1 DEF Rising
  <2>1. i \in 1..n
    BY <1>1
  <2>2. CASE j = n + 1
    BY <1>1, <2>1, <2>2
  <2>3. CASE j \in 1..n
    BY <1>1, <1>4, <2>1, <2>3 DEF Rising, n
  <2> QED
    BY <1>2, <2>2, <2>3
<1> QED
  BY <1>1, <1>3, <1>4 DEF t

\* Leaving out a frame keeps the order of the others.
LEMMA RisingSkip ==
  ASSUME NEW s \in Seq(Nat), NEW e \in Nat, NEW t \in Seq(Nat)
  PROVE  /\ Rising((s \o <<e>>) \o t) => Rising(s \o t)
         /\ Of(s \o t) \subseteq Of((s \o <<e>>) \o t)
<1> DEFINE m == Len(s)
           n == Len(t)
           u == (s \o <<e>>) \o t
           v == s \o t
           Place(i) == IF i <= m THEN i ELSE i + 1
<1>1. /\ m \in Nat /\ n \in Nat /\ Len(v) = m + n
      /\ \A i \in 1..(m + n) : v[i] = IF i <= m THEN s[i] ELSE t[i - m]
  BY ConcatProperties
<1>2. <<e>> \in Seq(Nat) /\ Len(<<e>>) = 1
  OBVIOUS
<1>3. /\ s \o <<e>> \in Seq(Nat) /\ Len(s \o <<e>>) = m + 1
      /\ \A i \in 1..(m + 1) : (s \o <<e>>)[i] = IF i <= m THEN s[i] ELSE e
  <2>1. /\ s \o <<e>> \in Seq(Nat) /\ Len(s \o <<e>>) = m + 1
        /\ \A i \in 1..(m + 1) : (s \o <<e>>)[i] = IF i <= m THEN s[i] ELSE <<e>>[i - m]
    BY <1>2, ConcatProperties
  <2>2. \A i \in 1..(m + 1) : ~(i <= m) => i - m = 1
    BY <1>1
  <2> QED
    BY <2>1, <2>2
<1>4. /\ Len(u) = (m + 1) + n
      /\ \A i \in 1..((m + 1) + n) : u[i] = IF i <= m + 1 THEN (s \o <<e>>)[i] ELSE t[i - (m + 1)]
  BY <1>3, ConcatProperties
<1> HIDE DEF m, n, u, v
<1>5. \A i \in 1..(m + n) : Place(i) \in 1..((m + 1) + n) /\ u[Place(i)] = v[i]
  <2> SUFFICES ASSUME NEW i \in 1..(m + n)
               PROVE  Place(i) \in 1..((m + 1) + n) /\ u[Place(i)] = v[i]
    OBVIOUS
  <2>1. CASE i <= m
    <3>1. Place(i) = i /\ i \in 1..((m + 1) + n) /\ i <= m + 1 /\ i \in 1..(m + 1)
      BY <1>1, <2>1
    <3> HIDE DEF Place
    <3>2. u[i] = s[i]
      BY <1>3, <1>4, <2>1, <3>1
    <3> QED
      BY <1>1, <2>1, <3>1, <3>2
  <2>2. CASE ~(i <= m)
    <3>1. Place(i) = i + 1 /\ i + 1 \in 1..((m + 1) + n) /\ ~(i + 1 <= m + 1)
          /\ (i + 1) - (m + 1) = i - m
      BY <1>1, <2>2
    <3> HIDE DEF Place
    <3> QED
      BY <1>1, <1>4, <2>2, <3>1
  <2> QED
    BY <2>1, <2>2
<1>6. \A i, j \in 1..(m + n) : i < j => Place(i) < Place(j)
  BY <1>1
<1> HIDE DEF Place
<1>7. /\ Rising(u) <=> \A i, j \in 1..((m + 1) + n) : i < j => u[i] < u[j]
      /\ Rising(v) <=> \A i, j \in 1..(m + n) : i < j => v[i] < v[j]
      /\ Of(u) = {u[i] : i \in 1..((m + 1) + n)}
      /\ Of(v) = {v[i] : i \in 1..(m + n)}
  BY <1>1, <1>4 DEF Rising, Of
<1>8. Rising(u) => Rising(v)
  BY <1>5, <1>6, <1>7
<1>9. Of(v) \subseteq Of(u)
  BY <1>5, <1>7
<1> QED
  BY <1>8, <1>9 DEF u, v

\* What holds of the pipe of one client.
Stream(c) ==
  /\ joined[c] <= log
  /\ Rising(Pipe(c))
  /\ Of(Pipe(c)) \subseteq (joined[c] + 1)..log
  /\ dropped[c] \subseteq (joined[c] + 1)..log
  /\ c \in clients /\ peer[c] /\ writer[c] # "done" =>
       (joined[c] + 1)..log = dropped[c] \cup Of(Pipe(c))

LEMMA PipeTyped ==
  ASSUME HubTypeOK, NEW c \in Clients
  PROVE  /\ got[c] \in Seq(Nat) /\ buffer[c] \in Seq(Nat) /\ writing[c] \in Nat
         /\ Pipe(c) \in Seq(Nat) /\ log \in Nat /\ joined[c] \in Nat
         /\ writing[c] = 0 => Pipe(c) = got[c] \o buffer[c]
         /\ writing[c] # 0 => Pipe(c) = (got[c] \o <<writing[c]>>) \o buffer[c]
<1>1. got[c] \in Seq(Nat) /\ buffer[c] \in Seq(Nat) /\ writing[c] \in Nat /\ log \in Nat /\ joined[c] \in Nat
  <2>1. got[c] \in Seq(Frames) /\ buffer[c] \in Seq(Frames) /\ Frames \subseteq Nat
    BY DEF HubTypeOK, Frames
  <2>2. got[c] \in Seq(Nat) /\ buffer[c] \in Seq(Nat)
    BY <2>1, SeqMonotonic
  <2> QED
    BY <2>2, HubAssumption DEF HubTypeOK
<1>2. writing[c] = 0 => Pipe(c) = got[c] \o buffer[c]
  <2>1. got[c] \o <<>> = got[c]
    BY <1>1, ConcatEmptySeq
  <2> QED
    BY <2>1 DEF Pipe
<1>3. writing[c] # 0 => Pipe(c) = (got[c] \o <<writing[c]>>) \o buffer[c]
  BY DEF Pipe
<1>4. Pipe(c) \in Seq(Nat)
  <2>1. <<writing[c]>> \in Seq(Nat)
    BY <1>1
  <2>2. got[c] \o <<writing[c]>> \in Seq(Nat)
    BY <1>1, <2>1, ConcatProperties
  <2>3. CASE writing[c] = 0
    BY <1>1, <1>2, <2>3, ConcatProperties
  <2>4. CASE writing[c] # 0
    BY <1>1, <1>3, <2>2, <2>4, ConcatProperties
  <2> QED
    BY <2>3, <2>4
<1> QED
  BY <1>1, <1>2, <1>3, <1>4

\* A step that leaves a client's pipe alone.
LEMMA PipeLeftAlone ==
  ASSUME NEW c \in Clients, Stream(c),
         got'[c] = got[c], writing'[c] = writing[c], buffer'[c] = buffer[c],
         joined'[c] = joined[c], dropped'[c] = dropped[c], log' = log,
         c \in clients' => c \in clients, peer'[c] => peer[c],
         writer'[c] # "done" => writer[c] # "done"
  PROVE  Stream(c)'
<1>1. Pipe(c)' = Pipe(c)
  BY DEF Pipe
<1> QED
  BY <1>1 DEF Stream

LEMMA ConcatAppend ==
  ASSUME NEW s \in Seq(Nat), NEW t \in Seq(Nat), NEW e \in Nat
  PROVE  s \o Append(t, e) = Append(s \o t, e)
<1>1. <<e>> \in Seq(Nat) /\ s \o t \in Seq(Nat)
  BY ConcatProperties
<1>2. Append(t, e) = t \o <<e>> /\ Append(s \o t, e) = (s \o t) \o <<e>>
  BY <1>1, AppendIsConcat
<1> QED
  BY <1>1, <1>2, ConcatAssociative

LEMMA ConcatHead ==
  ASSUME NEW s \in Seq(Nat), NEW t \in Seq(Nat), t # <<>>
  PROVE  (s \o <<Head(t)>>) \o Tail(t) = s \o t
<1>1. Head(t) \in Nat /\ Tail(t) \in Seq(Nat)
  BY HeadTailProperties
<1>2. <<Head(t)>> \in Seq(Nat)
  BY <1>1
<1>3. <<Head(t)>> \o Tail(t) = t
  <2>1. /\ <<Head(t)>> \o Tail(t) \in Seq(Nat)
        /\ Len(<<Head(t)>> \o Tail(t)) = 1 + Len(Tail(t))
        /\ \A i \in 1..(1 + Len(Tail(t))) : (<<Head(t)>> \o Tail(t))[i] =
              IF i <= 1 THEN <<Head(t)>>[i] ELSE Tail(t)[i - 1]
    <3>1. Len(<<Head(t)>>) = 1
      OBVIOUS
    <3> QED
      BY <1>1, <1>2, <3>1, ConcatProperties
  <2>2. /\ Len(t) = 1 + Len(Tail(t)) /\ Len(t) \in Nat /\ Head(t) = t[1]
        /\ \A i \in 1..Len(Tail(t)) : Tail(t)[i] = t[i + 1]
    BY HeadTailProperties
  <2>3. ASSUME NEW i \in 1..Len(t) PROVE (<<Head(t)>> \o Tail(t))[i] = t[i]
    <3>1. CASE i = 1
      BY <2>1, <2>2, <3>1
    <3>2. CASE i # 1
      <4>1. ~(i <= 1) /\ i - 1 \in 1..Len(Tail(t)) /\ (i - 1) + 1 = i /\ i \in 1..(1 + Len(Tail(t)))
        BY <2>2, <3>2
      <4> QED
        BY <2>1, <2>2, <4>1
    <3> QED
      BY <3>1, <3>2
  <2>4. Len(<<Head(t)>> \o Tail(t)) = Len(t)
    BY <2>1, <2>2
  <2> QED
    BY <2>1, <2>3, <2>4, SeqEqual
<1> DEFINE h == <<Head(t)>>
           u == Tail(t)
<1>4. h \in Seq(Nat) /\ u \in Seq(Nat) /\ h \o u = t
  BY <1>1, <1>2, <1>3
<1> HIDE DEF h, u
<1>5. (s \o h) \o u = s \o (h \o u)
  <2>1. s \in Seq(Nat) /\ h \in Seq(Nat) /\ u \in Seq(Nat)
    BY <1>4
  <2> QED
    BY ONLY <2>1, ConcatAssociative, SMTT(30)
<1> QED
  BY <1>4, <1>5 DEF h, u

\* A frame that every client gets or misses.
LEMMA BroadcastStreams ==
  ASSUME HubTypeOK, HubTypeOK', Pumps, NEW c \in Clients, Stream(c), Broadcast
  PROVE  Stream(c)'
<1> DEFINE e == log + 1
<1>1. /\ log' = e /\ got' = got /\ writing' = writing /\ joined' = joined
      /\ clients' = clients /\ peer' = peer /\ writer' = writer
      /\ buffer'[c] = IF c \in clients /\ ~Full(c) THEN Append(buffer[c], e) ELSE buffer[c]
      /\ dropped'[c] = IF c \in clients /\ Full(c) THEN dropped[c] \cup {e} ELSE dropped[c]
  BY DEF Broadcast, pumpVars, linkVars
<1>2. /\ log \in Nat /\ joined[c] \in Nat /\ e \in Nat
      /\ got[c] \in Seq(Nat) /\ buffer[c] \in Seq(Nat) /\ Pipe(c) \in Seq(Nat)
  <2>1. /\ log \in Nat /\ joined[c] \in Nat
        /\ got[c] \in Seq(Nat) /\ buffer[c] \in Seq(Nat) /\ Pipe(c) \in Seq(Nat)
    BY PipeTyped
  <2> QED
    BY <2>1
<1>3. (joined[c] + 1)..e = ((joined[c] + 1)..log) \cup {e}
  BY <1>2 DEF Stream
<1>4. CASE c \in clients /\ ~Full(c)
  <2>1. buffer'[c] = Append(buffer[c], e) /\ dropped'[c] = dropped[c]
    BY <1>1, <1>4
  <2>2. Pipe(c)' = Append(Pipe(c), e)
    <3> DEFINE front == got[c] \o (IF writing[c] = 0 THEN <<>> ELSE <<writing[c]>>)
    <3>1. front \in Seq(Nat)
      <4>0. writing[c] \in Nat
        BY PipeTyped
      <4>1. <<writing[c]>> \in Seq(Nat) /\ <<>> \in Seq(Nat)
        BY <4>0
      <4> QED
        BY <1>2, <4>1, ConcatProperties
    <3>2. Pipe(c) = front \o buffer[c] /\ Pipe(c)' = front \o Append(buffer[c], e)
      BY <1>1, <2>1 DEF Pipe
    <3> HIDE DEF front
    <3>3. buffer[c] \in Seq(Nat) /\ e \in Nat
      BY <1>2
    <3> HIDE DEF e
    <3>4. front \o Append(buffer[c], e) = Append(front \o buffer[c], e)
      BY <3>1, <3>3, ConcatAppend
    <3> QED
      BY <3>2, <3>4
  <2>3. \A x \in Of(Pipe(c)) : x < e
    BY <1>2 DEF Stream
  <2> HIDE DEF e
  <2>4. Of(Append(Pipe(c), e)) = Of(Pipe(c)) \cup {e} /\ Rising(Append(Pipe(c), e))
    BY <1>2, <2>3, RisingAppend DEF Stream
  <2>5. joined[c] <= e
    BY <1>2 DEF Stream, e
  <2> QED
    BY <1>1, <1>3, <2>1, <2>2, <2>4, <2>5 DEF Stream
<1>5. CASE ~(c \in clients /\ ~Full(c))
  <2>1. buffer'[c] = buffer[c]
    BY <1>1, <1>5
  <2>2. Pipe(c)' = Pipe(c)
    BY <1>1, <2>1 DEF Pipe
  <2>3. joined[c] <= e
    BY <1>2 DEF Stream
  <2> HIDE DEF e
  <2>4. CASE c \in clients
    <3>1. dropped'[c] = dropped[c] \cup {e}
      BY <1>1, <1>5, <2>4
    <3> QED
      BY <1>1, <1>3, <2>2, <2>3, <3>1 DEF Stream
  <2>5. CASE c \notin clients
    <3>1. dropped'[c] = dropped[c]
      BY <1>1, <2>5
    <3> QED
      BY <1>1, <1>3, <2>2, <2>3, <2>5, <3>1 DEF Stream
  <2> QED
    BY <2>4, <2>5
<1> QED
  BY <1>4, <1>5

\* writePump's steps take the oldest frame of the pipe, or lose it.
LEMMA WriterStreams ==
  ASSUME HubTypeOK, HubTypeOK', Pumps, NEW c \in Clients, Stream(c),
         WriterTake(c) \/ WriterSend(c) \/ WriterFail(c)
  PROVE  Stream(c)'
<1>0. /\ got[c] \in Seq(Nat) /\ buffer[c] \in Seq(Nat) /\ writing[c] \in Nat
      /\ writing[c] = 0 => Pipe(c) = got[c] \o buffer[c]
      /\ writing[c] # 0 => Pipe(c) = (got[c] \o <<writing[c]>>) \o buffer[c]
  BY PipeTyped
<1>a. /\ (writing[c] = 0 => Pipe(c) = got[c] \o buffer[c])'
      /\ (writing[c] # 0 => Pipe(c) = (got[c] \o <<writing[c]>>) \o buffer[c])'
  <2>1. (got[c] \in Seq(Nat))'
    <3>1. (got[c] \in Seq(Frames))' /\ Frames \subseteq Nat
      BY DEF HubTypeOK, Frames
    <3> QED
      BY <3>1, SeqMonotonic
  <2>2. (got[c] \o <<>> = got[c])'
    BY <2>1, ConcatEmptySeq
  <2> QED
    BY <2>2 DEF Pipe
<1>1. CASE WriterTake(c)
  <2>1. /\ writer[c] = "select" /\ buffer[c] # <<>>
        /\ writing'[c] = Head(buffer[c]) /\ buffer'[c] = Tail(buffer[c])
        /\ got' = got /\ joined' = joined /\ dropped' = dropped /\ log' = log
        /\ clients' = clients /\ peer' = peer
    BY <1>1 DEF WriterTake, hubVars, linkVars, pageHistory, HubTypeOK
  <2>2. writing[c] = 0 /\ writing'[c] # 0
    <3>1. Head(buffer[c]) \in Frames
      BY <2>1 DEF HubTypeOK
    <3> QED
      BY <2>1, <3>1 DEF Pumps, Frames
  <2>3. Pipe(c)' = Pipe(c)
    BY <1>0, <1>a, <2>1, <2>2, ConcatHead
  <2> QED
    BY <2>1, <2>3 DEF Stream
<1>2. ASSUME Pipe(c)' = got[c] \o buffer[c], writing[c] # 0,
             joined' = joined, dropped' = dropped, log' = log, clients' = clients,
             ~(peer'[c] /\ writer'[c] # "done")
      PROVE  Stream(c)'
  <2>1. /\ Rising(Pipe(c)) => Rising(got[c] \o buffer[c])
        /\ Of(got[c] \o buffer[c]) \subseteq Of(Pipe(c))
    <3>1. Pipe(c) = (got[c] \o <<writing[c]>>) \o buffer[c]
      BY <1>0, <1>2
    <3> DEFINE s == got[c]
               e == writing[c]
               t == buffer[c]
    <3>2. s \in Seq(Nat) /\ t \in Seq(Nat) /\ e \in Nat
      BY <1>0
    <3> HIDE DEF s, e, t
    <3>3. /\ Rising((s \o <<e>>) \o t) => Rising(s \o t)
          /\ Of(s \o t) \subseteq Of((s \o <<e>>) \o t)
      BY <3>2, RisingSkip
    <3> QED
      BY <3>1, <3>3 DEF s, e, t
  <2> QED
    BY <1>2, <2>1 DEF Stream
<1>3. CASE WriterSend(c)
  <2>1. /\ writing[c] # 0 /\ writing'[c] = 0 /\ buffer' = buffer
        /\ got'[c] = IF peer[c] THEN Append(got[c], writing[c]) ELSE got[c]
        /\ joined' = joined /\ dropped' = dropped /\ log' = log
        /\ clients' = clients /\ peer' = peer
        /\ writer[c] # "done"
    BY <1>3 DEF WriterSend, hubVars, linkVars, HubTypeOK, Pumps
  <2>2. CASE peer[c]
    <3>1. Append(got[c], writing[c]) = got[c] \o <<writing[c]>>
      BY <1>0, AppendIsConcat
    <3>2. Pipe(c)' = Pipe(c)
      BY <1>0, <1>a, <2>1, <2>2, <3>1
    <3> QED
      BY <2>1, <3>2 DEF Stream
  <2>3. CASE ~peer[c]
    BY <1>2, <1>a, <2>1, <2>3
  <2> QED
    BY <2>2, <2>3
<1>4. CASE WriterFail(c)
  <2>1. /\ writing[c] # 0 /\ writing'[c] = 0 /\ buffer' = buffer /\ got' = got
        /\ joined' = joined /\ dropped' = dropped /\ log' = log
        /\ clients' = clients /\ writer'[c] = "done"
    BY <1>4 DEF WriterFail, hubVars, linkVars, pageHistory, HubTypeOK, Pumps
  <2> QED
    BY <1>2, <1>a, <2>1
<1> QED
  BY <1>1, <1>3, <1>4

LEMMA StreamStep ==
  ASSUME HubTypeOK, HubTypeOK', Pumps, [HubNext]_allHubVars, NEW c \in Clients, Stream(c)
  PROVE  Stream(c)'
<1>1. CASE Broadcast
  BY <1>1, BroadcastStreams
<1>2. ASSUME NEW d \in Clients, d # c, ClientStep(d) PROVE Stream(c)'
  <2> USE DEF hubVars, pumpVars, linkVars, pageHistory, HubTypeOK
  <2> DEFINE Same == /\ got'[c] = got[c] /\ writing'[c] = writing[c] /\ buffer'[c] = buffer[c]
                     /\ joined'[c] = joined[c] /\ dropped'[c] = dropped[c] /\ log' = log
                     /\ (c \in clients' => c \in clients) /\ (peer'[c] => peer[c])
                     /\ (writer'[c] # "done" => writer[c] # "done")
  <2>1. CASE ServeWS(d)
    <3>1. Same
      BY <1>2, <2>1 DEF ServeWS
    <3> QED
      BY <3>1, PipeLeftAlone
  <2>2. CASE Leave(d)
    <3>1. Same
      BY <1>2, <2>2 DEF Leave
    <3> QED
      BY <3>1, PipeLeftAlone
  <2>3. CASE ReadFails(d) \/ CloseConn(d)
    <3>1. Same
      BY <1>2, <2>3 DEF ReadFails, CloseConn
    <3> QED
      BY <3>1, PipeLeftAlone
  <2>4. CASE WriterTake(d) \/ WriterClosed(d)
    <3>1. Same
      BY <1>2, <2>4 DEF WriterTake, WriterClosed
    <3> QED
      BY <3>1, PipeLeftAlone
  <2>5. CASE WriterSend(d) \/ WriterFail(d) \/ PingFails(d)
    <3>1. CASE WriterSend(d)
      <4>1. Same
        BY <1>2, <3>1 DEF WriterSend
      <4> QED
        BY <4>1, PipeLeftAlone
    <3>2. CASE WriterFail(d)
      <4>1. Same
        BY <1>2, <3>2 DEF WriterFail
      <4> QED
        BY <4>1, PipeLeftAlone
    <3>3. CASE PingFails(d)
      <4>1. Same
        BY <1>2, <3>3 DEF PingFails
      <4> QED
        BY <4>1, PipeLeftAlone
    <3> QED
      BY <2>5, <3>1, <3>2, <3>3
  <2> QED
    BY <1>2, <2>1, <2>2, <2>3, <2>4, <2>5 DEF ClientStep
<1>3. CASE ServeWS(c)
  <2>1. /\ got'[c] = <<>> /\ buffer'[c] = <<>> /\ joined'[c] = log /\ dropped'[c] = {}
        /\ log' = log /\ writing' = writing
    BY <1>3 DEF ServeWS, HubTypeOK
  <2>2. writing[c] = 0 /\ log \in Nat
    BY <1>3, PipeTyped DEF ServeWS, Pumps
  <2>3. Pipe(c)' = <<>>
    <3>1. <<>> \o <<>> = <<>>
      BY ConcatEmptySeq, EmptySeq
    <3> QED
      BY <2>1, <2>2, <3>1 DEF Pipe
  <2>4. Of(<<>>) = {} /\ Rising(<<>>)
    BY DEF Of, Rising
  <2>5. (log + 1)..log = {}
    BY <2>2
  <2>6. log <= log
    BY <2>2
  <2> QED
    BY <2>1, <2>3, <2>4, <2>5, <2>6 DEF Stream
<1>4. CASE WriterTake(c) \/ WriterSend(c) \/ WriterFail(c)
  BY <1>4, WriterStreams
<1>5. CASE Leave(c) \/ ReadFails(c) \/ CloseConn(c) \/ WriterClosed(c) \/ PingFails(c)
  <2> USE DEF hubVars, pumpVars, linkVars, pageHistory, HubTypeOK
  <2>1. /\ got'[c] = got[c] /\ writing'[c] = writing[c] /\ buffer'[c] = buffer[c]
        /\ joined'[c] = joined[c] /\ dropped'[c] = dropped[c] /\ log' = log
        /\ (c \in clients' => c \in clients) /\ (peer'[c] => peer[c])
        /\ (writer'[c] # "done" => writer[c] # "done")
    BY <1>5 DEF Leave, ReadFails, CloseConn, WriterClosed, PingFails
  <2> QED
    BY <2>1, PipeLeftAlone
<1>6. CASE UNCHANGED allHubVars
  <2>1. /\ got'[c] = got[c] /\ writing'[c] = writing[c] /\ buffer'[c] = buffer[c]
        /\ joined'[c] = joined[c] /\ dropped'[c] = dropped[c] /\ log' = log
        /\ (c \in clients' => c \in clients) /\ (peer'[c] => peer[c])
        /\ (writer'[c] # "done" => writer[c] # "done")
    BY <1>6 DEF allHubVars, hubVars, pumpVars, linkVars, pageHistory
  <2> QED
    BY <2>1, PipeLeftAlone
<1> QED
  BY <1>1, <1>2, <1>3, <1>4, <1>5, <1>6 DEF HubNext, ClientStep

\* Whatever is dropped and however its pumps end, a page gets the frames since it
\* was registered in order and none twice; while it is served, all but those its
\* full buffer refused (Hub.Broadcast and writePump).
THEOREM StreamsAreWhole == HubSpec => []StreamIsWhole
<1> DEFINE Inv == HubTypeOK /\ Pumps /\ \A c \in Clients : Stream(c)
<1>1. HubInit => Inv
  <2> SUFFICES ASSUME HubInit PROVE Inv
    OBVIOUS
  <2>1. ASSUME NEW c \in Clients PROVE Stream(c)
    <3>1. /\ got[c] = <<>> /\ buffer[c] = <<>> /\ writing[c] = 0 /\ joined[c] = 0
          /\ dropped[c] = {} /\ log = 0 /\ c \notin clients
      BY DEF HubInit
    <3>2. <<>> \o <<>> = <<>>
      BY ConcatEmptySeq, EmptySeq
    <3>3. Pipe(c) = <<>>
      BY <3>1, <3>2 DEF Pipe
    <3> QED
      BY <3>1, <3>3 DEF Stream, Of, Rising
  <2> QED
    BY <2>1, TypeInit, PumpsInit
<1>2. Inv /\ [HubNext]_allHubVars => Inv'
  <2> SUFFICES ASSUME Inv, [HubNext]_allHubVars PROVE Inv'
    OBVIOUS
  <2>1. HubTypeOK' /\ Pumps'
    BY TypeStep, PumpsStep
  <2>2. \A c \in Clients : Stream(c)'
    BY <2>1, StreamStep
  <2> QED
    BY <2>1, <2>2
<1>3. Inv => StreamIsWhole
  <2> SUFFICES ASSUME Inv PROVE StreamIsWhole
    OBVIOUS
  <2>1. \A c \in clients : c \in Clients
    BY DEF HubTypeOK
  <2> QED
    BY <2>1 DEF StreamIsWhole, DeliveredInOrder, NothingElseIsLost, Stream, Rising, Of
<1> QED
  BY <1>1, <1>2, <1>3, PTL DEF HubSpec

\* The hub sends on no closed channel and loses frames only from full buffers:
\* NeverSendsOnClosed and StreamsAreWhole (hub.go).
THEOREM PagesServed == HubSpec => []PagesAreServed
BY NeverSendsOnClosed, StreamsAreWhole, PTL DEF PagesAreServed

-----------------------------------------------------------------------------
(* The publication of the hold queue, by any number of goroutines.         *)

\* What the publisher has read so far is what the gate still is.
ReadSoFar(p) ==
  /\ pub[p] \in {"enabled", "responses", "broadcast"} => frame[p].queue = held
  /\ pub[p] \in {"responses", "broadcast"} => frame[p].enabled = enabled
  /\ pub[p] = "broadcast" => frame[p].interceptResponses = interceptResponses

Framed ==
  /\ frame \in [Publishers -> Frame]
  /\ pub \in [Publishers -> {"idle", "queue", "enabled", "responses", "broadcast"}]
  /\ held \subseteq Items /\ enabled \in BOOLEAN /\ interceptResponses \in BOOLEAN

\* Who is at work alone has read nothing that moved since.
Lone ==
  ~crossed => /\ \A p, q \in Publishers : pub[p] # "idle" /\ pub[q] # "idle" => p = q
              /\ \A p \in Publishers : ReadSoFar(p)

\* As long as the last change has not been told, somebody is about to show it.
ToBeShown == ~told => \E p \in Publishers : pub[p] # "idle" /\ ReadSoFar(p)

Published == Framed /\ Lone /\ LonePublicationIsRight /\ ToBeShown

LEMMA PublishedInit == PublishInit => Published
<1> SUFFICES ASSUME PublishInit PROVE Published
  OBVIOUS
<1>1. held = {} /\ enabled = FALSE /\ interceptResponses = FALSE
  BY DEF PublishInit, Init
<1>2. NoFrame \in Frame
  BY DEF NoFrame, Frame
<1>3. /\ pub = [p \in Publishers |-> "idle"] /\ view = Current /\ told
      /\ frame = [p \in Publishers |-> NoFrame]
  BY DEF PublishInit
<1>4. \A p \in Publishers : ReadSoFar(p) /\ pub[p] = "idle"
  BY <1>3 DEF ReadSoFar
<1>5. frame \in [Publishers -> Frame]
  BY <1>2, <1>3
<1> QED
  BY <1>1, <1>3, <1>4, <1>5 DEF Published, Framed, Lone, LonePublicationIsRight, ToBeShown

\* A whole frame that is right is the state itself.
LEMMA FrameIsCurrent ==
  ASSUME Framed, NEW p \in Publishers, pub[p] = "broadcast", ReadSoFar(p)
  PROVE  frame[p] = Current
<1>1. frame[p] \in Frame
  BY DEF Framed
<1>2. ASSUME NEW f \in Frame
      PROVE  f = [queue |-> f.queue, enabled |-> f.enabled, interceptResponses |-> f.interceptResponses]
  BY <1>2 DEF Frame
<1> QED
  BY <1>1, <1>2 DEF ReadSoFar, Current

\* One that begins to publish has everything still to read.
LEMMA OweStep ==
  ASSUME Published, NEW p \in Publishers, NEW n, Owe(p, n), Framed'
  PROVE  Published'
<1>1. /\ pub[p] = "idle" /\ pub' = [pub EXCEPT ![p] = "queue"] /\ frame' = frame /\ view' = view
      /\ crossed' = \E q \in Publishers \ {p} : pub[q] # "idle"
  BY DEF Owe
<1>2. /\ pub'[p] = "queue" /\ \A q \in Publishers \ {p} : pub'[q] = pub[q]
  BY <1>1 DEF Published, Framed
<1>3. ReadSoFar(p)'
  BY <1>2 DEF ReadSoFar
<1>4. Lone'
  BY <1>1, <1>2, <1>3 DEF Lone, ReadSoFar
<1>5. LonePublicationIsRight'
  <2>1. ~AllDelivered'
    BY <1>2 DEF AllDelivered
  <2> QED
    BY <2>1 DEF LonePublicationIsRight
<1>6. ToBeShown'
  BY <1>2, <1>3 DEF ToBeShown
<1> QED
  BY <1>4, <1>5, <1>6 DEF Published

LEMMA PublishedStep == Published /\ [PublishNext]_allVars => Published'
<1> SUFFICES ASSUME Published, [PublishNext]_allVars PROVE Published'
  OBVIOUS
<1> USE DEF gateVars, pubVars
<1>1. CASE Unpublished \/ UNCHANGED allVars
  <2>1. UNCHANGED <<pub, frame, view, crossed, told, held, enabled, interceptResponses>>
    BY <1>1 DEF Unpublished, Pass, Return, allVars
  <2>2. Framed' /\ \A p \in Publishers : ReadSoFar(p)' <=> ReadSoFar(p)
    BY <2>1 DEF Published, Framed, ReadSoFar
  <2>3. Lone' /\ ToBeShown'
    BY <2>1, <2>2 DEF Published, Lone, ToBeShown
  <2>4. AllDelivered' = AllDelivered /\ Current' = Current
    BY <2>1 DEF AllDelivered, Current
  <2> QED
    BY <2>1, <2>2, <2>3, <2>4 DEF Published, LonePublicationIsRight
<1>2. ASSUME NEW p \in Publishers, ProxyChange(p) \/ HandlerChange(p) \/ FetchIntercept(p)
      PROVE  Published'
  <2>1. held' \subseteq Items /\ enabled' \in BOOLEAN /\ interceptResponses' \in BOOLEAN
    BY <1>2 DEF ProxyChange, HandlerChange, FetchIntercept, Enter, Abandon, SetEnabled,
       SetInterceptResponses, Resolve, DrainAll, Decide, Published, Framed
  <2>2. PICK n : Owe(p, n)
    BY <1>2 DEF ProxyChange, HandlerChange, FetchIntercept, Announce
  <2>3. Framed'
    BY <2>1, <2>2 DEF Owe, Published, Framed
  <2> QED
    BY <2>2, <2>3, OweStep
<1>3. ASSUME NEW p \in Publishers, PublishStep(p) PROVE Published'
  <2>0. UNCHANGED <<held, enabled, interceptResponses, crossed>>
    BY <1>3 DEF PublishStep, ReadQueue, ReadEnabled, ReadResponses, BroadcastIntercept
  <2>1. CASE ReadQueue(p) \/ ReadEnabled(p) \/ ReadResponses(p)
    <3>1. /\ pub[p] # "idle" /\ pub'[p] # "idle" /\ view' = view /\ told' = told
          /\ ReadSoFar(p) => ReadSoFar(p)'
      BY <2>0, <2>1 DEF ReadQueue, ReadEnabled, ReadResponses, ReadSoFar, Published, Framed, Frame
    <3>2. /\ Framed'
          /\ \A q \in Publishers \ {p} : pub'[q] = pub[q] /\ frame'[q] = frame[q]
      BY <2>0, <2>1 DEF ReadQueue, ReadEnabled, ReadResponses, Published, Framed, Frame
    <3>3. \A q \in Publishers : (ReadSoFar(q) => ReadSoFar(q)') /\ (pub[q] # "idle" <=> pub'[q] # "idle")
      BY <2>0, <3>1, <3>2 DEF ReadSoFar
    <3>4. Lone' /\ ToBeShown'
      BY <2>0, <3>1, <3>3 DEF Published, Lone, ToBeShown
    <3>5. ~AllDelivered'
      BY <3>1 DEF AllDelivered
    <3> QED
      BY <3>2, <3>4, <3>5 DEF Published, LonePublicationIsRight
  <2>2. CASE BroadcastIntercept(p)
    <3>1. /\ pub[p] = "broadcast" /\ view' = frame[p] /\ told' = (told \/ frame[p] = Current)
          /\ pub'[p] \in {"idle", "queue"} /\ Current' = Current
          /\ \A q \in Publishers \ {p} : pub'[q] = pub[q] /\ frame'[q] = frame[q]
      BY <2>0, <2>2 DEF BroadcastIntercept, Published, Framed, Current
    <3>2. NoFrame \in Frame
      BY DEF NoFrame, Frame
    <3>3. Framed'
      BY <2>0, <2>2, <3>2 DEF BroadcastIntercept, Published, Framed
    <3>4. ReadSoFar(p)' /\ \A q \in Publishers : ReadSoFar(q) => ReadSoFar(q)'
      BY <2>0, <3>1 DEF ReadSoFar
    <3>5. ReadSoFar(p) => frame[p] = Current
      BY <3>1, FrameIsCurrent DEF Published
    <3>6. Lone'
      BY <2>0, <3>1, <3>4 DEF Published, Lone
    <3>7. LonePublicationIsRight'
      BY <2>0, <3>1, <3>5 DEF Published, Lone, LonePublicationIsRight
    <3>8. ToBeShown'
      <4> SUFFICES ASSUME ~told' PROVE \E q \in Publishers : pub'[q] # "idle" /\ ReadSoFar(q)'
        BY DEF ToBeShown
      <4>1. ~told /\ frame[p] # Current
        BY <3>1
      <4>2. PICK q \in Publishers : pub[q] # "idle" /\ ReadSoFar(q)
        BY <4>1 DEF Published, ToBeShown
      <4>3. q # p
        BY <3>5, <4>1, <4>2
      <4> QED
        BY <3>1, <3>4, <4>2, <4>3
    <3> QED
      BY <3>3, <3>6, <3>7, <3>8 DEF Published
  <2> QED
    BY <1>3, <2>1, <2>2 DEF PublishStep
<1> QED
  BY <1>1, <1>2, <1>3 DEF PublishNext

\* However many goroutines publish: what one did that no other overlapped leaves the
\* page with the queue and the toggles as they are (interceptState,
\* Hub.BroadcastIntercept).
THEOREM LonePublicationRight == PublishSpec => []LonePublicationIsRight
<1>1. Published => LonePublicationIsRight
  BY DEF Published
<1> QED
  BY <1>1, PublishedInit, PublishedStep, PTL DEF PublishSpec

\* However many goroutines publish and however they overlap: once all have finished,
\* the page has been told the state that the last change made.
THEOREM LastChangeShown == PublishSpec => []LastChangeIsShown
<1>1. Published => LastChangeIsShown
  <2> SUFFICES ASSUME ToBeShown, AllDelivered PROVE told
    BY DEF Published, LastChangeIsShown
  <2> QED
    BY DEF ToBeShown, AllDelivered
<1> QED
  BY <1>1, PublishedInit, PublishedStep, PTL DEF PublishSpec

\* The page was told the last change, and is right unless publications overlapped:
\* LastChangeShown and LonePublicationRight (API.PublishIntercept).
THEOREM PageWasTold == PublishSpec => []PageIsTold
BY LastChangeShown, LonePublicationRight, PTL DEF PageIsTold

-----------------------------------------------------------------------------
(* The assistant's configuration, saved by any number of requests.         *)

Steps == {"idle", "configure", "resolve", "load", "store"}
Save == [at : Steps, next : Configs, carried : BOOLEAN, store : Configs]

\* Where the live configuration and the row stand when no save is under way.
Kept == apart = {} => liveCfg = Normalized(setRow)

\* And between the steps of one that is alone: what it will store is what is live by then.
SaveIsWhole(s) ==
  LET v == saving[s] IN
  /\ v.at = "configure" => /\ Kept
                           /\ v.next.provider \in Providers
                           /\ ~v.carried => v.next.key = liveCfg.key
  /\ v.at \in {"resolve", "load", "store"} =>
       /\ liveCfg.provider \in Providers
       /\ ~v.carried /\ apart = {} => liveCfg.key = setRow.key
  /\ v.at \in {"load", "store"} => v.store.provider = liveCfg.provider
  /\ v.at = "load" => ~v.carried
  /\ v.at = "store" /\ (v.carried \/ apart = {}) => v.store.key = liveCfg.key

\* A key on its way to the row was carried by a request or is the one in the row.
KeyWasSent(s) ==
  LET v == saving[s] IN
  /\ v.at = "configure" /\ v.carried => v.next.key \in sent
  /\ v.at = "resolve" /\ v.carried => liveCfg.key \in sent
  /\ v.at = "store" => v.store.key \in sent \cup {setRow.key}

SettingsTyped ==
  /\ liveCfg \in Configs /\ setRow \in Configs /\ flags \in Configs
  /\ saving \in [Savers -> Save] /\ overlap \in BOOLEAN /\ apart \subseteq {"failure", "overlap"}

Saving(s) == saving[s].at # "idle"

\* What holds of a save as long as no other overlaps it.
Alone ==
  /\ \A s, t \in Savers : Saving(s) /\ Saving(t) => s = t
  /\ \A s \in Savers : KeyWasSent(s) /\ (flags = NoRow => SaveIsWhole(s))

SettingsKept ==
  /\ SettingsTyped
  /\ "" \in sent
  /\ IF overlap THEN "overlap" \in apart ELSE Alone
  /\ flags = NoRow /\ (\A s \in Savers : ~Saving(s)) => Kept

LEMMA StartedTyped ==
  ASSUME NEW f \in Configs, NEW r \in Configs
  PROVE  /\ Started(f, r) \in Configs
         /\ f = NoRow => Started(f, r) = Normalized(r)
<1> USE DEF Configs, Config, NoRow
<1>1. ASSUME NEW c \in Configs PROVE Normalized(c) \in Configs
  BY <1>1 DEF Normalized, Providers
<1>2. Resolved(f, r) \in Configs
  BY DEF Resolved
<1>3. ASSUME f = NoRow PROVE Resolved(f, r) = r
  <2>1. f.provider = "" /\ f.key = ""
    BY <1>3
  <2>2. CASE r = NoRow
    BY <1>3, <2>2 DEF Resolved
  <2>3. CASE r # NoRow
    <3>1. Resolved(f, r) = [provider |-> r.provider, key |-> r.key]
      BY <2>1, <2>3 DEF Resolved
    <3> QED
      BY <3>1
  <2> QED
    BY <2>2, <2>3
<1> HIDE DEF Configs, Config, NoRow
<1> QED
  BY <1>1, <1>2, <1>3 DEF Started

LEMMA NormalizedConfig ==
  ASSUME NEW c \in Configs
  PROVE  /\ Normalized(c) \in Configs /\ Normalized(c).key = c.key
         /\ Normalized(c).provider \in Providers
         /\ c.provider \in Providers => Normalized(c) = c
BY DEF Normalized, Configs, Providers

LEMMA ConfigEqual ==
  ASSUME NEW c \in Configs, NEW d \in Configs, c.provider = d.provider, c.key = d.key
  PROVE  c = d
<1>1. ASSUME NEW e \in Configs PROVE e = [provider |-> e.provider, key |-> e.key]
  BY <1>1, Zenon DEF Configs
<1> QED
  BY <1>1

LEMMA SettledInit == SetInit => SettingsKept
<1> SUFFICES ASSUME SetInit PROVE SettingsKept
  OBVIOUS
<1>1. NoRow \in Configs /\ flags \in Configs
  BY DEF SetInit, NoRow, Config, Configs, Keys
<1>2. setRow = NoRow /\ liveCfg = Started(flags, setRow)
  BY DEF SetInit
<1>3. liveCfg \in Configs /\ (flags = NoRow => liveCfg = Normalized(setRow))
  BY <1>1, <1>2, StartedTyped
<1>4. saving = [s \in Savers |-> Idle] /\ overlap = FALSE /\ apart = {} /\ sent = {""}
  BY DEF SetInit
<1>5. Idle \in Save
  BY <1>1 DEF Idle, Save, Steps
<1>6. SettingsTyped
  BY <1>1, <1>2, <1>3, <1>4, <1>5 DEF SettingsTyped
<1>7. Alone
  BY <1>4 DEF Alone, Saving, KeyWasSent, SaveIsWhole, Idle
<1> QED
  BY <1>3, <1>4, <1>6, <1>7 DEF SettingsKept, Kept

\* One request took a step: only of that one anything is left to show.
LEMMA SavedAlone ==
  ASSUME SettingsKept, NEW s \in Savers, SettingsTyped', sent \subseteq sent', flags' = flags,
         \A t \in Savers \ {s} : saving'[t] = saving[t],
         ~overlap' => \A t \in Savers \ {s} : ~Saving(t),
         ~overlap' => KeyWasSent(s)' /\ (flags = NoRow => SaveIsWhole(s)'),
         overlap' => "overlap" \in apart',
         flags = NoRow /\ ~Saving(s)' => Kept'
  PROVE  SettingsKept'
<1>1. ASSUME ~overlap' PROVE Alone'
  <2>1. ASSUME NEW t \in Savers \ {s} PROVE ~Saving(t)' /\ KeyWasSent(t)' /\ SaveIsWhole(t)'
    BY <1>1 DEF Saving, KeyWasSent, SaveIsWhole
  <2> QED
    BY <1>1, <2>1 DEF Alone
<1> QED
  BY <1>1 DEF SettingsKept

LEMMA SettledStep == SettingsKept /\ [SetNext]_setVars => SettingsKept'
<1> SUFFICES ASSUME SettingsKept, [SetNext]_setVars PROVE SettingsKept'
  OBVIOUS
<1>0. SettingsTyped /\ "" \in sent /\ \A s \in Savers : ~overlap => KeyWasSent(s)
  BY DEF SettingsKept, Alone
<1>1. CASE UNCHANGED setVars
  BY <1>1 DEF SettingsKept, setVars, SettingsTyped, Alone, Saving, KeyWasSent, SaveIsWhole, Kept
<1>2. CASE RestartProcess
  <2>1. /\ saving' = [s \in Savers |-> Idle]
        /\ overlap' = FALSE /\ flags' = flags /\ setRow' = setRow /\ sent' = sent
        /\ \/ liveCfg' = Started(flags, setRow) /\ apart' = {}
           \/ liveCfg' = Started(flags, NoRow) /\ apart' = {"failure"}
    BY <1>2 DEF RestartProcess
  <2>2. Idle \in Save /\ NoRow \in Configs
    BY DEF Idle, Save, Steps, NoRow, Config, Configs, Keys
  <2>3. liveCfg' \in Configs /\ (flags = NoRow => Kept')
    BY <1>0, <2>1, <2>2, StartedTyped DEF SettingsTyped, Kept
  <2>4. SettingsTyped'
    BY <1>0, <2>1, <2>2, <2>3 DEF SettingsTyped
  <2>5. Alone'
    BY <2>1 DEF Alone, Saving, KeyWasSent, SaveIsWhole, Idle
  <2> QED
    BY <1>0, <2>1, <2>3, <2>4, <2>5 DEF SettingsKept
<1>4. ASSUME NEW s \in Savers,
             \/ \E p \in Providers, k \in {Keep, "", "typed"} : ReadCurrent(s, p, k)
             \/ Configure(s) \/ ResolveLive(s) \/ LoadStoredKey(s) \/ StoreSettings(s)
      PROVE  SettingsKept'
  <2>0. /\ saving[s] \in Save /\ liveCfg \in Configs /\ setRow \in Configs
        /\ overlap => "overlap" \in apart
        /\ ~overlap => KeyWasSent(s) /\ (flags = NoRow => SaveIsWhole(s))
    BY <1>0 DEF SettingsKept, SettingsTyped, Alone
  <2>a. ASSUME Saving(s), ~overlap PROVE \A t \in Savers \ {s} : ~Saving(t)
    BY <2>a DEF SettingsKept, Alone
  <2>1. ASSUME NEW p \in Providers, NEW k \in {Keep, "", "typed"}, ReadCurrent(s, p, k) PROVE SettingsKept'
    <3> DEFINE n == Config(p, IF k = Keep THEN liveCfg.key ELSE k)
    <3>1. n \in Configs /\ n.provider = p /\ n.key = IF k = Keep THEN liveCfg.key ELSE k
      BY <2>0 DEF Config, Configs, Keys, Keep
    <3> DEFINE b == k # Keep
    <3>0. b \in BOOLEAN
      OBVIOUS
    <3> HIDE DEF n, b
    <3>2. /\ saving[s].at = "idle"
          /\ saving' = [saving EXCEPT ![s].at = "configure", ![s].carried = b, ![s].next = n]
          /\ sent' = IF k = Keep THEN sent ELSE sent \cup {k}
          /\ overlap' = \E t \in Savers \ {s} : saving[t].at # "idle"
          /\ apart' = IF overlap' THEN apart \cup {"overlap"} ELSE apart
          /\ UNCHANGED <<flags, liveCfg, setRow>>
      BY <2>1 DEF ReadCurrent, n, b
    <3>3. /\ saving'[s].at = "configure" /\ saving'[s].carried = b /\ saving'[s].next = n
          /\ saving' \in [Savers -> Save] /\ \A t \in Savers \ {s} : saving'[t] = saving[t]
      <4> DEFINE w == [saving[s] EXCEPT !.at = "configure", !.carried = b, !.next = n]
      <4>1. saving' = [saving EXCEPT ![s] = w] /\ saving[s] \in Save
        BY <2>0, <3>2
      <4>2. w.at = "configure" /\ w.carried = b /\ w.next = n /\ w \in Save
        BY <3>0, <3>1, <4>1 DEF Save, Steps
      <4> HIDE DEF w
      <4> QED
        BY <1>0, <4>1, <4>2 DEF SettingsTyped
    <3>4. SettingsTyped' /\ sent \subseteq sent' /\ (overlap' => "overlap" \in apart')
      BY <1>0, <3>2, <3>3 DEF SettingsTyped
    <3>5. KeyWasSent(s)'
      <4>1. b => n.key \in sent'
        BY <3>1, <3>2 DEF b
      <4> QED
        BY <3>3, <4>1 DEF KeyWasSent
    <3>6. ASSUME ~overlap' PROVE /\ \A t \in Savers \ {s} : ~Saving(t)
                                 /\ flags = NoRow => SaveIsWhole(s)'
      <4>1. \A t \in Savers : ~Saving(t)
        BY <3>2, <3>6 DEF Saving
      <4>2. flags = NoRow => Kept
        BY <4>1 DEF SettingsKept
      <4>3. flags = NoRow => Kept'
        BY <3>2, <3>6, <4>2 DEF Kept
      <4> QED
        BY <3>1, <3>2, <3>3, <4>1, <4>3 DEF SaveIsWhole, b
    <3>7. Saving(s)'
      BY <3>3 DEF Saving
    <3> QED
      BY <3>2, <3>3, <3>4, <3>5, <3>6, <3>7, SavedAlone
  <2>2. CASE Configure(s)
    <3>1. /\ saving[s].at = "configure" /\ liveCfg' = Normalized(saving[s].next)
          /\ saving' = [saving EXCEPT ![s].at = "resolve"]
          /\ UNCHANGED <<flags, setRow, sent, overlap, apart>>
      BY <2>2 DEF Configure
    <3>2. /\ saving'[s].at = "resolve" /\ saving'[s].carried = saving[s].carried
          /\ saving' \in [Savers -> Save] /\ \A t \in Savers \ {s} : saving'[t] = saving[t]
          /\ Saving(s) /\ Saving(s)'
      BY <1>0, <3>1 DEF SettingsTyped, Save, Steps, Saving
    <3>3. /\ liveCfg' \in Configs /\ liveCfg'.key = saving[s].next.key
          /\ liveCfg'.provider \in Providers
      BY <2>0, <3>1, NormalizedConfig DEF Save
    <3>4. SettingsTyped'
      BY <1>0, <3>1, <3>2, <3>3 DEF SettingsTyped
    <3>5. ~overlap => KeyWasSent(s)'
      BY <2>0, <3>1, <3>2, <3>3 DEF KeyWasSent
    <3>6. ~overlap /\ flags = NoRow => SaveIsWhole(s)'
      BY <2>0, <3>1, <3>2, <3>3, NormalizedConfig DEF SaveIsWhole, Kept
    <3> QED
      BY <2>0, <2>a, <3>1, <3>2, <3>4, <3>5, <3>6, SavedAlone
  <2>3. CASE ResolveLive(s)
    <3>1. /\ saving[s].at = "resolve"
          /\ saving' = [saving EXCEPT ![s].at = IF saving[s].carried THEN "store" ELSE "load",
                                      ![s].store = liveCfg]
          /\ UNCHANGED <<flags, liveCfg, setRow, sent, overlap, apart>>
      BY <2>3 DEF ResolveLive
    <3>2. /\ saving'[s].at = IF saving[s].carried THEN "store" ELSE "load"
          /\ saving'[s].carried = saving[s].carried /\ saving'[s].store = liveCfg
          /\ saving' \in [Savers -> Save] /\ \A t \in Savers \ {s} : saving'[t] = saving[t]
      <4> DEFINE new == [saving[s] EXCEPT !.at = IF saving[s].carried THEN "store" ELSE "load",
                                          !.store = liveCfg]
      <4>1. saving[s] \in Save /\ saving \in [Savers -> Save] /\ liveCfg \in Configs
        BY <1>0 DEF SettingsTyped
      <4>2. /\ new \in Save /\ new.store = liveCfg /\ new.carried = saving[s].carried
            /\ new.at = IF saving[s].carried THEN "store" ELSE "load"
        BY <4>1 DEF Save, Steps
      <4>3. saving' = [saving EXCEPT ![s] = new]
        BY <3>1, <4>1 DEF Save
      <4> HIDE DEF new
      <4> QED
        BY <4>1, <4>2, <4>3
    <3>3. Saving(s) /\ Saving(s)'
      BY <3>1, <3>2 DEF Saving
    <3>4. SettingsTyped'
      BY <1>0, <3>1, <3>2 DEF SettingsTyped
    <3>5. ~overlap => KeyWasSent(s)'
      BY <2>0, <3>1, <3>2 DEF KeyWasSent
    <3>6. ~overlap /\ flags = NoRow => SaveIsWhole(s)'
      BY <2>0, <3>1, <3>2 DEF SaveIsWhole, Kept
    <3> QED
      BY <2>0, <2>a, <3>1, <3>2, <3>3, <3>4, <3>5, <3>6, SavedAlone
  <2>4. CASE LoadStoredKey(s)
    <3>1. PICK k \in {setRow.key, ""} :
          /\ saving[s].at = "load"
          /\ saving' = [saving EXCEPT ![s].at = "store", ![s].store.key = k]
          /\ (apart' = apart /\ k = setRow.key) \/ apart' = apart \cup {"failure"}
          /\ UNCHANGED <<flags, liveCfg, setRow, sent, overlap>>
      BY <2>4 DEF LoadStoredKey
    <3>2. /\ saving'[s].at = "store"
          /\ saving'[s].carried = saving[s].carried /\ saving'[s].store.key = k
          /\ saving'[s].store.provider = saving[s].store.provider
          /\ saving' \in [Savers -> Save] /\ \A t \in Savers \ {s} : saving'[t] = saving[t]
      <4> DEFINE new == [saving[s] EXCEPT !.at = "store", !.store.key = k]
      <4>1. saving[s] \in Save /\ saving \in [Savers -> Save] /\ k \in Keys
        BY <1>0 DEF SettingsTyped, Configs, Keys
      <4>2. /\ new \in Save /\ new.at = "store" /\ new.carried = saving[s].carried
            /\ new.store.key = k /\ new.store.provider = saving[s].store.provider
        BY <4>1 DEF Save, Steps, Configs
      <4>3. saving' = [saving EXCEPT ![s] = new]
        BY <3>1, <4>1 DEF Save, Configs
      <4> HIDE DEF new
      <4> QED
        BY <4>1, <4>2, <4>3
    <3>3. Saving(s) /\ Saving(s)' /\ (overlap => "overlap" \in apart')
      BY <2>0, <3>1, <3>2 DEF Saving
    <3>4. SettingsTyped'
      BY <1>0, <3>1, <3>2 DEF SettingsTyped
    <3>5. KeyWasSent(s)'
      <4>1. k \in sent' \cup {setRow'.key}
        BY <1>0, <3>1
      <4> QED
        BY <3>2, <4>1 DEF KeyWasSent
    <3>6. ~overlap /\ flags = NoRow => SaveIsWhole(s)'
      BY <2>0, <3>1, <3>2 DEF SaveIsWhole
    <3> QED
      BY <2>a, <3>1, <3>2, <3>3, <3>4, <3>5, <3>6, SavedAlone
  <2>5. CASE StoreSettings(s)
    <3>1. /\ saving[s].at = "store" /\ saving' = [saving EXCEPT ![s] = Idle]
          /\ \/ /\ setRow' = saving[s].store
                /\ apart' = IF saving[s].carried /\ ~overlap THEN {} ELSE apart
             \/ setRow' = setRow /\ apart' = apart \cup {"failure"}
          /\ UNCHANGED <<flags, liveCfg, sent, overlap>>
      BY <2>5 DEF StoreSettings
    <3>2. Idle \in Save /\ Idle.at = "idle"
      BY DEF Idle, Save, Steps, NoRow, Config, Configs, Keys
    <3>3. /\ saving'[s].at = "idle" /\ saving' \in [Savers -> Save] /\ Saving(s)
          /\ \A t \in Savers \ {s} : saving'[t] = saving[t]
      BY <1>0, <3>1, <3>2 DEF SettingsTyped, Saving
    <3>4. setRow' \in Configs
      BY <2>0, <3>1 DEF Save
    <3>5. SettingsTyped' /\ KeyWasSent(s)' /\ SaveIsWhole(s)' /\ (overlap => "overlap" \in apart')
      BY <1>0, <2>0, <3>1, <3>3, <3>4 DEF SettingsTyped, KeyWasSent, SaveIsWhole
    <3>6. ASSUME flags = NoRow, apart' = {} PROVE liveCfg' = Normalized(setRow)'
      <4>1. /\ setRow' = saving[s].store /\ (saving[s].carried \/ apart = {}) /\ liveCfg' = liveCfg
            /\ ~overlap
        BY <2>0, <3>1, <3>6
      <4>2. setRow'.provider = liveCfg.provider /\ setRow'.key = liveCfg.key
            /\ liveCfg.provider \in Providers
        BY <2>0, <3>1, <3>6, <4>1 DEF SaveIsWhole
      <4>3. setRow' = liveCfg
        BY <2>0, <3>4, <4>2, ConfigEqual
      <4> QED
        BY <2>0, <4>1, <4>2, <4>3, NormalizedConfig
    <3>7. flags = NoRow => Kept'
      BY <3>6 DEF Kept
    <3> QED
      BY <2>a, <3>1, <3>3, <3>5, <3>7, SavedAlone
  <2> QED
    BY <1>4, <2>1, <2>2, <2>3, <2>4, <2>5
<1> QED
  BY <1>1, <1>2, <1>4 DEF SetNext

\* With no flags a restart brings back the configuration that was live, however many
\* requests save and however they overlap, unless a save is half way, or a read or a
\* write failed or two saves overlapped and no save with a key has gone through alone
\* since (UpdateAIConfig, resolveAIConfig).
THEOREM SettingsSurvive == SetSpec => []SettingsSurviveRestart
<1>1. SettingsKept => SettingsSurviveRestart
  <2> SUFFICES ASSUME SettingsKept, flags = NoRow, apart = {}, \A s \in Savers : saving[s].at = "idle"
               PROVE  Started(flags, setRow) = liveCfg
    BY DEF SettingsSurviveRestart
  <2>1. Kept
    BY DEF SettingsKept, Saving
  <2>2. Started(flags, setRow) = Normalized(setRow)
    BY StartedTyped DEF SettingsKept, SettingsTyped
  <2> QED
    BY <2>1, <2>2 DEF Kept
<1> QED
  BY <1>1, SettledInit, SettledStep, PTL DEF SetSpec

\* A save that no other overlaps writes no key to the disk but one that a request
\* carried or that is there: one from a flag or the environment stays off it.  What two
\* do the run ai_key shows (UpdateAIConfig).
THEOREM LoneSaveKeepsOff == SetSpec => LoneSaveAddsNoKey
<1>1. SettingsKept /\ [SetNext]_setVars => [setRow'.key \in sent \cup {setRow.key} \/ overlap]_setVars
  <2> SUFFICES ASSUME SettingsKept, SetNext, ~overlap PROVE setRow'.key \in sent \cup {setRow.key}
    OBVIOUS
  <2>1. ASSUME NEW s \in Savers, StoreSettings(s) PROVE setRow' = setRow \/ setRow'.key \in sent \cup {setRow.key}
    BY <2>1 DEF StoreSettings, SettingsKept, Alone, KeyWasSent
  <2> QED
    BY <2>1 DEF SetNext, ReadCurrent, Configure, ResolveLive, LoadStoredKey, RestartProcess
<1> QED
  BY <1>1, SettledInit, SettledStep, PTL DEF SetSpec, LoneSaveAddsNoKey


-----------------------------------------------------------------------------
(* The assistant's conversations: the types of what the handlers and the   *)
(* page keep.                                                              *)

Signals == {"ok", "delta", "done", "nothing", "error", "eof", "refused"}
Row1 == [made : {"no", "yes", "gone"}, title : Streams \cup {"", "context"}, msgs : Seq(Msgs)]
Request == [pc : {"unused", "sent", "lock", "append", "list", "stream", "unlock", "done"},
            conv : Convs \cup {NoConv}, text : BOOLEAN, untitled : BOOLEAN, read : Nat,
            said : BOOLEAN, aborted : BOOLEAN, final : BOOLEAN, wire : Seq(Signals)]
Asked == [op : Ops, conv : Convs \cup {NoConv}, at : {"sent", "seed", "answered", "failed"},
          got : Seq(Msgs), list : SUBSET Convs]
View == [active : Convs \cup {NoConv}, shown : Seq(Msgs), streaming : BOOLEAN,
         draft : Seq(Convs), controller : Streams \cup {NoStream}, list : SUBSET Convs]

\* Calls that are about one conversation.
Addressed(k) ==
  \/ k.op \in {"open", "delete"}
  \/ k.op \in {"chat", "context"} /\ k.at \in {"seed", "answered"}

ConvTyped ==
  /\ conv \in [Convs -> Row1] /\ stream \in [Streams -> Request]
  /\ calls \subseteq Asked /\ page \in View
  /\ aiStreams \subseteq Convs /\ raced \in BOOLEAN
  /\ \A s \in Streams : stream[s].pc # "unused" => stream[s].conv \in Convs
  /\ \A k \in calls : Addressed(k) => k.conv \in Convs

LEMMA MsgTyped ==
  ASSUME NEW c \in Convs
  PROVE  /\ Turn(c) \in Msgs /\ Turn(c).role = "user" /\ Turn(c).conv = c
         /\ \A n \in Nat : /\ Reply(c, n) \in Msgs /\ Reply(c, n).role = "assistant"
                           /\ Reply(c, n).conv = c /\ Reply(c, n).read = n
BY DEF Turn, Reply, Msgs

LEMMA ConvTypedInit == ConvInit => ConvTyped
<1> SUFFICES ASSUME ConvInit PROVE ConvTyped
  OBVIOUS
<1>1. conv \in [Convs -> Row1]
  <2>1. \A c \in Convs : [made |-> IF c \in Stored THEN "yes" ELSE "no", title |-> "", msgs |-> <<>>] \in Row1
    BY DEF Row1
  <2> QED
    BY <2>1 DEF ConvInit
<1>2. stream \in [Streams -> Request]
  <2>1. [pc |-> "unused", conv |-> NoConv, text |-> FALSE, untitled |-> FALSE,
         read |-> 0, said |-> FALSE, aborted |-> FALSE, final |-> FALSE, wire |-> <<>>] \in Request
    BY DEF Request
  <2> QED
    BY <2>1 DEF ConvInit
<1>3. page \in View
  <2>1. page = [active |-> NoConv, shown |-> <<>>, streaming |-> FALSE, draft |-> <<>>,
                controller |-> NoStream, list |-> Stored]
    BY DEF ConvInit
  <2>2. <<>> \in Seq(Msgs) /\ <<>> \in Seq(Convs) /\ Stored \in SUBSET Convs
    BY ConvAssumption
  <2> QED
    BY <2>1, <2>2 DEF View
<1> QED
  BY <1>1, <1>2, <1>3 DEF ConvInit, ConvTyped

\* Appending a message to a conversation.
LEMMA AppendedTyped ==
  ASSUME ConvTyped, NEW c \in Convs, NEW m \in Msgs, NEW t \in Streams \cup {"", "context"}
  PROVE  /\ Appended(c, m, t) \in [Convs -> Row1]
         /\ \A d \in Convs : /\ Appended(c, m, t)[d].made = conv[d].made
                             /\ conv[d].title # "" => Appended(c, m, t)[d].title = conv[d].title
                             /\ d # c => Appended(c, m, t)[d] = conv[d]
         /\ Appended(c, m, t)[c].msgs = Append(conv[c].msgs, m)
<1> DEFINE row == [conv[c] EXCEPT !.msgs = Append(conv[c].msgs, m),
                                  !.title = IF conv[c].title = "" THEN t ELSE conv[c].title]
<1>1. conv[c] \in Row1
  BY DEF ConvTyped
<1>2. Append(conv[c].msgs, m) \in Seq(Msgs)
  <2>1. conv[c].msgs \in Seq(Msgs)
    BY <1>1 DEF Row1
  <2> QED
    BY <2>1, AppendProperties
<1>3. /\ row \in Row1 /\ row.made = conv[c].made /\ row.msgs = Append(conv[c].msgs, m)
      /\ conv[c].title # "" => row.title = conv[c].title
  BY <1>1, <1>2 DEF Row1
<1>4. Appended(c, m, t) = [conv EXCEPT ![c] = row]
  BY <1>1 DEF Appended, ConvTyped, Row1
<1> HIDE DEF row
<1> QED
  BY <1>3, <1>4 DEF ConvTyped

LEMMA SendTyped ==
  ASSUME ConvTyped, NEW s \in Streams, NEW f \in Signals
  PROVE  /\ Send(s, f) \in Seq(Signals)
         /\ ~stream[s].aborted => Send(s, f) = Append(stream[s].wire, f)
<1>1. stream[s] \in Request
  BY DEF ConvTyped
<1> QED
  BY <1>1 DEF Send, Request

LEMMA AbortedStreams ==
  ASSUME ConvTyped
  PROVE  /\ Aborted \in [Streams -> Request]
         /\ \A s \in Streams :
              /\ Aborted[s].pc = stream[s].pc /\ Aborted[s].conv = stream[s].conv
              /\ Aborted[s].read = stream[s].read
              /\ ~Aborted[s].aborted => s # page.controller /\ Aborted[s] = stream[s]
<1>1. CASE page.controller = NoStream
  BY <1>1, ConvAssumption DEF Aborted, ConvTyped
<1>2. CASE page.controller # NoStream
  <2> DEFINE c == page.controller
             v == [stream[c] EXCEPT !.aborted = TRUE, !.wire = <<>>]
  <2>1. c \in Streams /\ stream[c] \in Request
    BY <1>2 DEF ConvTyped, View
  <2>2. v \in Request /\ v.pc = stream[c].pc /\ v.conv = stream[c].conv /\ v.read = stream[c].read
        /\ v.aborted = TRUE
    <3>1. <<>> \in Seq(Signals)
      OBVIOUS
    <3> QED
      BY <2>1, <3>1 DEF Request
  <2>3. Aborted = [stream EXCEPT ![c] = v]
    BY <1>2, <2>1 DEF Aborted, ConvTyped, Request
  <2> HIDE DEF v, c
  <2> QED
    BY <2>1, <2>2, <2>3 DEF ConvTyped, c
<1> QED
  BY <1>1, <1>2

-----------------------------------------------------------------------------
(* What a handler's step does to its request.                              *)

Ended == {"eof", "refused"}

\* Only a request that was made has frames, and only its last says that it is over.
WireEnds(v) ==
  ~v.aborted =>
    /\ v.pc = "unused" => v.wire = <<>>
    /\ \A i \in 1..Len(v.wire) : v.wire[i] \in Ended => v.pc = "done" /\ i = Len(v.wire)

LEMMA WireAppend ==
  ASSUME NEW v \in Request, NEW w \in Request, WireEnds(v), v.pc # "done",
         NEW f \in Signals,
         w.aborted = v.aborted,
         ~v.aborted => w.wire = Append(v.wire, f),
         f \in Ended => w.pc = "done", w.pc # "unused"
  PROVE  WireEnds(w)
<1> SUFFICES ASSUME ~v.aborted, NEW i \in 1..Len(w.wire), w.wire[i] \in Ended
             PROVE  w.pc = "done" /\ i = Len(w.wire)
  BY DEF WireEnds
<1>1. v.wire \in Seq(Signals) /\ w.wire = Append(v.wire, f)
  BY DEF Request
<1>2. /\ Len(w.wire) = Len(v.wire) + 1 /\ Len(v.wire) \in Nat /\ w.wire[Len(v.wire) + 1] = f
      /\ \A j \in 1..Len(v.wire) : w.wire[j] = v.wire[j]
  BY <1>1
<1>3. i \notin 1..Len(v.wire)
  BY <1>2 DEF WireEnds
<1>4. i = Len(v.wire) + 1
  BY <1>2, <1>3
<1> QED
  BY <1>2, <1>4

LEMMA HandlerEffect ==
  ASSUME ConvTyped, NEW s \in Streams, HandlerStep(s), WireEnds(stream[s])
  PROVE  /\ stream' = [stream EXCEPT ![s] = stream'[s]] /\ stream'[s] \in Request
         /\ stream'[s].conv = stream[s].conv /\ stream'[s].aborted = stream[s].aborted
         /\ stream[s].pc \notin Finished /\ stream'[s].pc # "unused"
         /\ stream[s].conv \in Convs
         /\ WireEnds(stream'[s])
         /\ UNCHANGED <<calls, page, raced>>
<1> DEFINE old == stream[s]
           c == stream[s].conv
<1>1. old \in Request
  BY DEF ConvTyped
<1>2. \A f \in Signals : Send(s, f) \in Seq(Signals) /\ (~old.aborted => Send(s, f) = Append(old.wire, f))
  BY SendTyped
<1>3. ASSUME NEW v \in Request, stream' = [stream EXCEPT ![s] = v],
             v.conv = c, v.aborted = old.aborted,
             old.pc \notin Finished, v.pc # "unused",
             \/ v.wire = old.wire /\ v.pc # "done"
             \/ \E f \in Signals : v.wire = Send(s, f) /\ (f \in Ended => v.pc = "done"),
             UNCHANGED <<calls, page, raced>>
      PROVE  /\ stream' = [stream EXCEPT ![s] = stream'[s]] /\ stream'[s] \in Request
             /\ stream'[s].conv = stream[s].conv /\ stream'[s].aborted = stream[s].aborted
             /\ stream[s].pc \notin Finished /\ stream'[s].pc # "unused"
             /\ stream[s].conv \in Convs
             /\ WireEnds(stream'[s])
             /\ UNCHANGED <<calls, page, raced>>
  <2>1. stream'[s] = v
    BY <1>3 DEF ConvTyped
  <2>2. c \in Convs
    BY <1>3 DEF ConvTyped, Finished
  <2>3. WireEnds(v)
    <3>1. CASE v.wire = old.wire /\ v.pc # "done"
      BY <1>1, <1>3, <3>1 DEF WireEnds, Finished
    <3>2. ASSUME NEW f \in Signals, v.wire = Send(s, f), f \in Ended => v.pc = "done"
          PROVE  WireEnds(v)
      BY <1>1, <1>2, <1>3, <3>2, WireAppend DEF Finished
    <3> QED
      BY <1>3, <3>1, <3>2
  <2> QED
    BY <1>3, <2>1, <2>2, <2>3
<1>4. old.pc = stream[s].pc /\ old.wire = stream[s].wire
  OBVIOUS
<1>5. "refused" \in Signals /\ "refused" \in Ended /\ "ok" \in Signals /\ "ok" \notin Ended
      /\ "delta" \in Signals /\ "delta" \notin Ended /\ "eof" \in Signals
      /\ \A last \in {"error", "done", "nothing"} : last \in Signals /\ last \notin Ended
  BY DEF Signals, Ended
<1>6. CASE StreamReads(s)
  <2> DEFINE v == [old EXCEPT !.pc = IF Exists(c) THEN "lock" ELSE "done",
                              !.untitled = conv[c].title = "",
                              !.wire = IF Exists(c) THEN old.wire ELSE Send(s, "refused")]
  <2>1. stream' = [stream EXCEPT ![s] = v]
    BY <1>6 DEF StreamReads, ConvTyped, Request
  <2>2. (IF Exists(c) THEN old.wire ELSE Send(s, "refused")) \in Seq(Signals)
    BY <1>1, <1>2, <1>5 DEF Request
  <2>3. v \in Request /\ v.conv = c /\ v.aborted = old.aborted /\ v.pc # "unused"
        /\ v.pc = (IF Exists(c) THEN "lock" ELSE "done")
        /\ v.wire = (IF Exists(c) THEN old.wire ELSE Send(s, "refused"))
    BY <1>1, <2>2 DEF Request
  <2> HIDE DEF v
  <2>4. old.pc \notin Finished /\ UNCHANGED <<calls, page, raced>>
    BY <1>6 DEF StreamReads, Finished
  <2> QED
    BY <1>3, <1>5, <2>1, <2>3, <2>4
<1>7. CASE StreamLocks(s)
  <2> DEFINE busy == c \in aiStreams
             v == [old EXCEPT !.pc = IF busy THEN "done" ELSE "append",
                              !.wire = IF busy THEN Send(s, "refused") ELSE old.wire]
  <2>1. stream' = [stream EXCEPT ![s] = v]
    BY <1>7 DEF StreamLocks, ConvTyped, Request
  <2>2. (IF busy THEN Send(s, "refused") ELSE old.wire) \in Seq(Signals)
    BY <1>1, <1>2, <1>5 DEF Request
  <2>3. v \in Request /\ v.conv = c /\ v.aborted = old.aborted /\ v.pc # "unused"
        /\ v.pc = (IF busy THEN "done" ELSE "append")
        /\ v.wire = (IF busy THEN Send(s, "refused") ELSE old.wire)
    BY <1>1, <2>2 DEF Request
  <2> HIDE DEF v
  <2>4. old.pc \notin Finished /\ UNCHANGED <<calls, page, raced>>
    BY <1>7 DEF StreamLocks, Finished
  <2> QED
    BY <1>3, <1>5, <2>1, <2>3, <2>4
<1>8. CASE StreamAppends(s)
  <2>1. old.pc \notin Finished /\ UNCHANGED <<calls, page, raced>>
    BY <1>8 DEF StreamAppends, Finished
  <2>2. \/ stream' = [stream EXCEPT ![s].pc = "list"]
        \/ stream' = [stream EXCEPT ![s].pc = "done", ![s].wire = Send(s, "refused")]
    BY <1>8 DEF StreamAppends
  <2>3. CASE stream' = [stream EXCEPT ![s].pc = "list"]
    <3> DEFINE v == [old EXCEPT !.pc = "list"]
    <3>1. v \in Request /\ v.conv = c /\ v.aborted = old.aborted /\ v.pc = "list" /\ v.wire = old.wire
      BY <1>1 DEF Request
    <3>2. stream' = [stream EXCEPT ![s] = v]
      BY <2>3 DEF ConvTyped, Request
    <3> HIDE DEF v
    <3> QED
      BY <1>3, <2>1, <3>1, <3>2
  <2>4. CASE stream' = [stream EXCEPT ![s].pc = "done", ![s].wire = Send(s, "refused")]
    <3> DEFINE v == [old EXCEPT !.pc = "done", !.wire = Send(s, "refused")]
    <3>1. v \in Request /\ v.conv = c /\ v.aborted = old.aborted /\ v.pc = "done"
          /\ v.wire = Send(s, "refused")
      BY <1>1, <1>2, <1>5 DEF Request
    <3>2. stream' = [stream EXCEPT ![s] = v]
      BY <2>4 DEF ConvTyped, Request
    <3> HIDE DEF v
    <3> QED
      BY <1>3, <1>5, <2>1, <3>1, <3>2
  <2> QED
    BY <2>2, <2>3, <2>4
<1>9. CASE StreamLists(s)
  <2>1. old.pc \notin Finished /\ UNCHANGED <<calls, page, raced>>
    BY <1>9 DEF StreamLists, Finished
  <2>2. \/ stream' = [stream EXCEPT ![s].pc = "stream", ![s].read = Len(conv[c].msgs), ![s].wire = Send(s, "ok")]
        \/ stream' = [stream EXCEPT ![s].pc = "done", ![s].wire = Send(s, "refused")]
    BY <1>9 DEF StreamLists
  <2>3. CASE stream' = [stream EXCEPT ![s].pc = "stream", ![s].read = Len(conv[c].msgs), ![s].wire = Send(s, "ok")]
    <3> DEFINE v == [old EXCEPT !.pc = "stream", !.read = Len(conv[c].msgs), !.wire = Send(s, "ok")]
    <3>0. Len(conv[c].msgs) \in Nat
      <4>1. c \in Convs
        BY <2>1 DEF ConvTyped, Finished
      <4>2. conv[c].msgs \in Seq(Msgs)
        BY <4>1 DEF ConvTyped, Row1
      <4> QED
        BY <4>2
    <3>1. v \in Request /\ v.conv = c /\ v.aborted = old.aborted /\ v.pc = "stream"
          /\ v.wire = Send(s, "ok")
      BY <1>1, <1>2, <1>5, <3>0 DEF Request
    <3>2. stream' = [stream EXCEPT ![s] = v]
      BY <2>3 DEF ConvTyped, Request
    <3> HIDE DEF v
    <3> QED
      BY <1>3, <1>5, <2>1, <3>1, <3>2
  <2>4. CASE stream' = [stream EXCEPT ![s].pc = "done", ![s].wire = Send(s, "refused")]
    <3> DEFINE v == [old EXCEPT !.pc = "done", !.wire = Send(s, "refused")]
    <3>1. v \in Request /\ v.conv = c /\ v.aborted = old.aborted /\ v.pc = "done"
          /\ v.wire = Send(s, "refused")
      BY <1>1, <1>2, <1>5 DEF Request
    <3>2. stream' = [stream EXCEPT ![s] = v]
      BY <2>4 DEF ConvTyped, Request
    <3> HIDE DEF v
    <3> QED
      BY <1>3, <1>5, <2>1, <3>1, <3>2
  <2> QED
    BY <2>2, <2>3, <2>4
<1>10. CASE Delta(s)
  <2>1. old.pc \notin Finished /\ UNCHANGED <<calls, page, raced>>
        /\ stream' = [stream EXCEPT ![s].said = TRUE, ![s].wire = Send(s, "delta")]
        /\ old.pc = "stream"
    BY <1>10 DEF Delta, Finished
  <2> DEFINE v == [old EXCEPT !.said = TRUE, !.wire = Send(s, "delta")]
  <2>2. v \in Request /\ v.conv = c /\ v.aborted = old.aborted /\ v.pc = old.pc
        /\ v.wire = Send(s, "delta")
    BY <1>1, <1>2, <1>5 DEF Request
  <2>3. stream' = [stream EXCEPT ![s] = v]
    BY <2>1 DEF ConvTyped, Request
  <2> HIDE DEF v
  <2> QED
    BY <1>3, <1>5, <2>1, <2>2, <2>3
<1>11. CASE Persist(s)
  <2>1. old.pc \notin Finished /\ UNCHANGED <<calls, page, raced>>
    BY <1>11 DEF Persist, Finished
  <2>2. PICK last \in {"error", "done", "nothing"} :
            stream' = [stream EXCEPT ![s].pc = "unlock", ![s].wire = Send(s, last)]
    BY <1>11 DEF Persist
  <2> DEFINE v == [old EXCEPT !.pc = "unlock", !.wire = Send(s, last)]
  <2>3. v \in Request /\ v.conv = c /\ v.aborted = old.aborted /\ v.pc = "unlock"
        /\ v.wire = Send(s, last)
    BY <1>1, <1>2, <1>5 DEF Request
  <2>4. stream' = [stream EXCEPT ![s] = v]
    BY <2>2 DEF ConvTyped, Request
  <2> HIDE DEF v
  <2> QED
    BY <1>3, <1>5, <2>1, <2>3, <2>4
<1>12. CASE Unlock(s)
  <2>1. old.pc \notin Finished /\ UNCHANGED <<calls, page, raced>>
        /\ stream' = [stream EXCEPT ![s].pc = "done", ![s].wire = Send(s, "eof")]
    BY <1>12 DEF Unlock, Finished
  <2> DEFINE v == [old EXCEPT !.pc = "done", !.wire = Send(s, "eof")]
  <2>3. v \in Request /\ v.conv = c /\ v.aborted = old.aborted /\ v.pc = "done"
        /\ v.wire = Send(s, "eof")
    BY <1>1, <1>2, <1>5 DEF Request
  <2>4. stream' = [stream EXCEPT ![s] = v]
    BY <2>1 DEF ConvTyped, Request
  <2> HIDE DEF v
  <2> QED
    BY <1>3, <1>5, <2>1, <2>3, <2>4
<1> HIDE DEF old, c
<1> QED
  BY <1>6, <1>7, <1>8, <1>9, <1>10, <1>11, <1>12 DEF HandlerStep


-----------------------------------------------------------------------------
(* The rows and the answers belong to their conversation.                  *)

\* The messages a page may ask with.
Asks == {m \in Msgs : m.role = "user"}

\* How the row of a conversation may move in a step that adds a message of S.
RowMoves(c, S) ==
  \/ conv'[c] = conv[c]
  \/ conv[c].made = "no" /\ conv'[c].made = "yes" /\ conv'[c].msgs = conv[c].msgs
  \/ /\ conv[c].made = "yes" /\ conv'[c].made = "yes"
     /\ \E m \in S : m.conv = c /\ conv'[c].msgs = Append(conv[c].msgs, m)
     /\ conv[c].title # "" => conv'[c].title = conv[c].title
  \/ conv[c].made = "yes" /\ conv'[c].made = "gone" /\ conv'[c].msgs = <<>>
     /\ conv'[c].title = conv[c].title

AllOf(msgs, c) == \A i \in 1..Len(msgs) : msgs[i].conv = c
GotOwn(k) == (k.at \in {"sent", "seed"} => k.got = <<>>) /\ AllOf(k.got, k.conv)

\* Two runs of one conversation's messages, one after the other, are one run of them.
LEMMA AllOfConcat ==
  ASSUME NEW s \in Seq(Msgs), NEW t \in Seq(Msgs), NEW c, AllOf(s, c), AllOf(t, c)
  PROVE  AllOf(s \o t, c)
<1>1. /\ Len(s) \in Nat /\ Len(t) \in Nat /\ Len(s \o t) = Len(s) + Len(t)
      /\ \A i \in 1..(Len(s) + Len(t)) : (s \o t)[i] = IF i <= Len(s) THEN s[i] ELSE t[i - Len(s)]
  BY ConcatProperties
<1> SUFFICES ASSUME NEW i \in 1..(Len(s) + Len(t)) PROVE (s \o t)[i].conv = c
  BY <1>1 DEF AllOf
<1>2. CASE i <= Len(s)
  <2>1. (s \o t)[i] = s[i] /\ i \in 1..Len(s)
    BY <1>1, <1>2
  <2> QED
    BY <2>1 DEF AllOf
<1>3. CASE ~(i <= Len(s))
  <2>1. (s \o t)[i] = t[i - Len(s)] /\ i - Len(s) \in 1..Len(t)
    BY <1>1, <1>3
  <2> QED
    BY <2>1 DEF AllOf
<1> QED
  BY <1>2, <1>3

ConvBase ==
  /\ ConvTyped
  /\ \A s \in Streams : WireEnds(stream[s])
  /\ \A c \in Convs : AllOf(conv[c].msgs, c) /\ (conv[c].made = "no" => conv[c].title = "")
  /\ \A k \in calls : GotOwn(k)
  /\ ActiveIsListed

LEMMA HandlerRows ==
  ASSUME ConvBase, NEW s \in Streams, HandlerStep(s)
  PROVE  /\ conv' \in [Convs -> Row1] /\ \A c \in Convs : RowMoves(c, Msgs)
         /\ aiStreams' \subseteq Convs
<1> DEFINE c == stream[s].conv
<1>1. c \in Convs /\ conv \in [Convs -> Row1] /\ aiStreams \subseteq Convs /\ stream[s] \in Request
  BY HandlerEffect DEF ConvBase, ConvTyped
<1>2. ASSUME NEW m \in Msgs, m.conv = c, NEW t \in Streams \cup {"", "context"}, Exists(c),
             conv' = Appended(c, m, t)
      PROVE  conv' \in [Convs -> Row1] /\ \A d \in Convs : RowMoves(d, Msgs)
  <2>1. /\ conv' \in [Convs -> Row1]
        /\ \A d \in Convs : /\ conv'[d].made = conv[d].made
                            /\ conv[d].title # "" => conv'[d].title = conv[d].title
                            /\ d # c => conv'[d] = conv[d]
        /\ conv'[c].msgs = Append(conv[c].msgs, m)
    BY <1>1, <1>2, AppendedTyped DEF ConvBase
  <2>2. conv[c].made = "yes"
    BY <1>2 DEF Exists
  <2> QED
    BY <1>2, <2>1, <2>2 DEF RowMoves
<1>3. ASSUME conv' = conv PROVE conv' \in [Convs -> Row1] /\ \A d \in Convs : RowMoves(d, Msgs)
  BY <1>1, <1>3 DEF RowMoves
<1>4. CASE StreamAppends(s)
  <2>1. aiStreams' \subseteq Convs
    BY <1>1, <1>4 DEF StreamAppends, Unlocked
  <2>2. CASE conv' = conv
    BY <1>3, <2>1, <2>2
  <2>3. CASE conv' # conv
    <3>1. Exists(c) /\ conv' = Appended(c, Turn(c), IF stream[s].untitled THEN s ELSE "")
      BY <1>4, <2>3 DEF StreamAppends
    <3>2. Turn(c) \in Msgs /\ Turn(c).conv = c
      BY <1>1, MsgTyped
    <3> QED
      BY <1>2, <2>1, <3>1, <3>2
  <2> QED
    BY <2>2, <2>3
<1>5. CASE Persist(s)
  <2>1. aiStreams' = aiStreams
    BY <1>5 DEF Persist
  <2>2. CASE conv' = conv
    BY <1>1, <1>3, <2>1, <2>2
  <2>3. CASE conv' # conv
    <3>1. Exists(c) /\ conv' = Appended(c, Reply(c, stream[s].read), "")
      BY <1>5, <2>3 DEF Persist
    <3>2. Reply(c, stream[s].read) \in Msgs /\ Reply(c, stream[s].read).conv = c
      BY <1>1, MsgTyped DEF Request
    <3> QED
      BY <1>1, <1>2, <2>1, <3>1, <3>2
  <2> QED
    BY <2>2, <2>3
<1>6. CASE StreamReads(s) \/ StreamLocks(s) \/ StreamLists(s) \/ Delta(s) \/ Unlock(s)
  <2>1. conv' = conv /\ aiStreams' \subseteq Convs
    BY <1>1, <1>6 DEF StreamReads, StreamLocks, StreamLists, Delta, Unlock, Unlocked
  <2> QED
    BY <1>3, <2>1
<1> QED
  BY <1>4, <1>5, <1>6 DEF HandlerStep

\* The handlers of the other calls.
LEMMA ServeEffect ==
  ASSUME ConvBase, NEW call \in calls, ServeCreate(call) \/ ServeOther(call)
  PROVE  /\ conv' \in [Convs -> Row1] /\ \A c \in Convs : RowMoves(c, Asks)
         /\ \E new \in Asked : /\ calls' = (calls \ {call}) \cup {new}
                               /\ new.op = call.op /\ GotOwn(new)
                               /\ Addressed(new) => new.conv \in Convs
         /\ UNCHANGED <<aiStreams, stream, page, raced>>
<1>0. /\ call \in Asked /\ conv \in [Convs -> Row1] /\ GotOwn(call)
      /\ Addressed(call) => call.conv \in Convs
  BY DEF ConvBase, ConvTyped
<1> DEFINE Turned(new) == /\ new \in Asked /\ calls' = (calls \ {call}) \cup {new}
                          /\ new.op = call.op /\ GotOwn(new)
                          /\ Addressed(new) => new.conv \in Convs
<1>u. UNCHANGED <<aiStreams, stream, page, raced>>
  BY DEF ServeCreate, ServeOther
<1>s. ASSUME conv' = conv PROVE conv' \in [Convs -> Row1] /\ \A d \in Convs : RowMoves(d, Asks)
  BY <1>0, <1>s DEF RowMoves
<1>f. ASSUME call.at \in {"sent", "seed"}, Become(call, [call EXCEPT !.at = "failed"]),
             call.op \notin {"delete"}
      PROVE  \E new : Turned(new)
  <2> DEFINE new == [call EXCEPT !.at = "failed"]
  <2>1. /\ new \in Asked /\ new.op = call.op /\ new.got = call.got /\ new.conv = call.conv
        /\ new.at = "failed"
    BY <1>0 DEF Asked
  <2>2. calls' = (calls \ {call}) \cup {new}
    BY <1>f DEF Become
  <2> HIDE DEF new
  <2> QED
    BY <1>0, <1>f, <2>1, <2>2 DEF GotOwn, Addressed
<1>a. ASSUME call.op \notin {"chat", "context"}, NEW msgs \in Seq(Msgs), NEW list \in SUBSET Convs,
             Answer(call, msgs, list), AllOf(msgs, call.conv)
      PROVE  \E new : Turned(new)
  <2> DEFINE new == [call EXCEPT !.at = "answered", !.got = msgs, !.list = list]
  <2>1. /\ new \in Asked /\ new.op = call.op /\ new.got = msgs /\ new.conv = call.conv
        /\ new.at = "answered"
    BY <1>0 DEF Asked
  <2>2. calls' = (calls \ {call}) \cup {new}
    BY <1>a DEF Answer, Become
  <2> HIDE DEF new
  <2> QED
    BY <1>0, <1>a, <2>1, <2>2 DEF GotOwn, Addressed
<1>e. <<>> \in Seq(Msgs) /\ AllOf(<<>>, call.conv) /\ {} \in SUBSET Convs
  BY DEF AllOf
<1>g. ASSUME NEW D \in SUBSET Convs, \A c \in D : Exists(c),
             conv' = [c \in Convs |-> IF c \in D THEN Gone(conv[c]) ELSE conv[c]]
      PROVE  conv' \in [Convs -> Row1] /\ \A d \in Convs : RowMoves(d, Asks)
  <2>1. ASSUME NEW c \in Convs
        PROVE  /\ Gone(conv[c]) \in Row1 /\ Gone(conv[c]).made = "gone" /\ Gone(conv[c]).msgs = <<>>
               /\ Gone(conv[c]).title = conv[c].title
    <3>1. conv[c] \in Row1 /\ <<>> \in Seq(Msgs)
      BY <1>0
    <3> DEFINE row == conv[c]
    <3>2. row \in Row1 /\ row = conv[c]
      BY <3>1
    <3> HIDE DEF row
    <3> QED
      BY <3>1, <3>2 DEF Gone, Row1
  <2> QED
    BY <1>0, <1>g, <2>1 DEF RowMoves, Exists
<1>1. CASE ServeCreate(call)
  <2>0. call.op \in {"chat", "context"}
    BY <1>1 DEF ServeCreate
  <2>1. ASSUME call.at = "sent", NEW c \in Convs, conv[c].made = "no",
               conv' = [conv EXCEPT ![c].made = "yes",
                                    ![c].title = IF call.op = "context" THEN "context" ELSE ""],
               Become(call, [call EXCEPT !.conv = c, !.at = IF call.op = "chat" THEN "answered" ELSE "seed"])
        PROVE  (conv' \in [Convs -> Row1] /\ \A d \in Convs : RowMoves(d, Asks)) /\ \E new : Turned(new)
    <3> DEFINE row == [conv[c] EXCEPT !.made = "yes", !.title = IF call.op = "context" THEN "context" ELSE ""]
               new == [call EXCEPT !.conv = c, !.at = IF call.op = "chat" THEN "answered" ELSE "seed"]
    <3>1. row \in Row1 /\ row.made = "yes" /\ row.msgs = conv[c].msgs
      BY <1>0 DEF Row1
    <3>2. conv' = [conv EXCEPT ![c] = row]
      BY <1>0, <2>1 DEF Row1
    <3>3. /\ new \in Asked /\ new.op = call.op /\ new.got = call.got /\ new.conv = c
          /\ calls' = (calls \ {call}) \cup {new}
      BY <1>0, <2>1 DEF Asked, Become
    <3>4. call.got = <<>>
      BY <1>0, <2>1 DEF GotOwn
    <3> HIDE DEF row, new
    <3>5. conv' \in [Convs -> Row1] /\ \A d \in Convs : RowMoves(d, Asks)
      BY <1>0, <2>1, <3>1, <3>2 DEF RowMoves
    <3>6. GotOwn(new)
      BY <3>3, <3>4 DEF GotOwn, AllOf
    <3> QED
      BY <3>3, <3>5, <3>6
  <2>2. ASSUME call.at = "seed", Exists(call.conv),
               conv' = Appended(call.conv, Turn(call.conv), "context"),
               Answer(call, <<Turn(call.conv)>>, {})
        PROVE  (conv' \in [Convs -> Row1] /\ \A d \in Convs : RowMoves(d, Asks)) /\ \E new : Turned(new)
    <3> DEFINE c == call.conv
               m == Turn(c)
               new == [call EXCEPT !.at = "answered", !.got = <<m>>, !.list = {}]
    <3>1. c \in Convs /\ conv[c].made = "yes"
      BY <1>0, <2>0, <2>2 DEF Addressed, Exists
    <3>2. m \in Msgs /\ m.conv = c /\ m \in Asks
      BY <3>1, MsgTyped DEF Asks
    <3>3. /\ conv' \in [Convs -> Row1]
          /\ \A d \in Convs : /\ conv'[d].made = conv[d].made
                              /\ conv[d].title # "" => conv'[d].title = conv[d].title
                              /\ d # c => conv'[d] = conv[d]
          /\ conv'[c].msgs = Append(conv[c].msgs, m)
      <4> HIDE DEF m, c
      <4>1. ConvTyped /\ c \in Convs /\ m \in Msgs /\ "context" \in Streams \cup {"", "context"}
        BY <3>1, <3>2 DEF ConvBase
      <4>2. conv' = Appended(c, m, "context")
        BY <2>2 DEF c, m
      <4> QED
        BY <4>1, <4>2, AppendedTyped, ZenonT(30)
    <3>4. \A d \in Convs : RowMoves(d, Asks)
      BY <3>1, <3>2, <3>3 DEF RowMoves
    <3>5. <<m>> \in Seq(Msgs) /\ AllOf(<<m>>, c)
      BY <3>2 DEF AllOf
    <3>6. /\ new \in Asked /\ new.op = call.op /\ new.got = <<m>> /\ new.conv = c
          /\ new.at = "answered" /\ calls' = (calls \ {call}) \cup {new}
      BY <1>0, <2>2, <3>5 DEF Asked, Answer, Become
    <3> HIDE DEF new, m
    <3>7. GotOwn(new)
      BY <3>5, <3>6 DEF GotOwn
    <3> QED
      BY <3>1, <3>3, <3>4, <3>6, <3>7
  <2>3. ASSUME call.at \in {"sent", "seed"}, Become(call, [call EXCEPT !.at = "failed"]), conv' = conv
        PROVE  (conv' \in [Convs -> Row1] /\ \A d \in Convs : RowMoves(d, Asks)) /\ \E new : Turned(new)
    BY <1>f, <1>s, <2>0, <2>3
  <2>4. (conv' \in [Convs -> Row1] /\ \A d \in Convs : RowMoves(d, Asks)) /\ \E new : Turned(new)
    BY <1>1, <2>1, <2>2, <2>3 DEF ServeCreate
  <2> QED
    BY <1>u, <2>4
<1>2. CASE ServeOther(call)
  <2>0. call.at = "sent"
    BY <1>2 DEF ServeOther
  <2>1. CASE call.op = "open"
    <3>1. conv' = conv /\ call.conv \in Convs
      BY <1>0, <1>2, <2>1 DEF ServeOther, Addressed
    <3>2. CASE Exists(call.conv)
      <4>1. Answer(call, conv[call.conv].msgs, {})
        BY <1>2, <2>1, <3>2 DEF ServeOther
      <4>2. conv[call.conv].msgs \in Seq(Msgs) /\ AllOf(conv[call.conv].msgs, call.conv)
        BY <1>0, <3>1 DEF Row1, ConvBase
      <4>3. \E new : Turned(new)
        BY <1>a, <1>e, <2>1, <4>1, <4>2
      <4> QED
        BY <1>s, <1>u, <3>1, <4>3
    <3>3. CASE ~Exists(call.conv)
      <4>1. Become(call, [call EXCEPT !.at = "failed"])
        BY <1>2, <2>1, <3>3 DEF ServeOther
      <4>2. \E new : Turned(new)
        BY <1>f, <2>0, <2>1, <4>1
      <4> QED
        BY <1>s, <1>u, <3>1, <4>2
    <3> QED
      BY <3>2, <3>3
  <2>2. CASE call.op = "delete"
    <3>1. /\ conv' = IF Exists(call.conv) THEN [conv EXCEPT ![call.conv] = Gone(conv[call.conv])] ELSE conv
          /\ Answer(call, <<>>, {}) /\ call.conv \in Convs
      BY <1>0, <1>2, <2>2 DEF ServeOther, Addressed
    <3>2. \E new : Turned(new)
      BY <1>a, <1>e, <2>2, <3>1
    <3>3. CASE Exists(call.conv)
      <4>1. conv' = [c \in Convs |-> IF c \in {call.conv} THEN Gone(conv[c]) ELSE conv[c]]
        BY <1>0, <3>1, <3>3
      <4> QED
        BY <1>g, <1>u, <3>1, <3>2, <3>3, <4>1
    <3>4. CASE ~Exists(call.conv)
      BY <1>s, <1>u, <3>1, <3>2, <3>4
    <3> QED
      BY <3>3, <3>4
  <2>3. CASE call.op = "clear"
    <3>1. /\ conv' = [c \in Convs |-> IF Exists(c) THEN Gone(conv[c]) ELSE conv[c]]
          /\ Answer(call, <<>>, {})
      BY <1>2, <2>3 DEF ServeOther
    <3>2. \E new : Turned(new)
      BY <1>a, <1>e, <2>3, <3>1
    <3> DEFINE D == {c \in Convs : Exists(c)}
    <3>3. conv' = [c \in Convs |-> IF c \in D THEN Gone(conv[c]) ELSE conv[c]]
      BY <3>1
    <3>4. D \in SUBSET Convs /\ \A c \in D : Exists(c)
      OBVIOUS
    <3> HIDE DEF D
    <3> QED
      BY <1>g, <1>u, <3>2, <3>3, <3>4
  <2>4. CASE call.op = "list"
    <3>1. conv' = conv /\ Answer(call, <<>>, {c \in Convs : Exists(c)})
      BY <1>2, <2>4 DEF ServeOther
    <3>2. {c \in Convs : Exists(c)} \in SUBSET Convs
      OBVIOUS
    <3>3. \E new : Turned(new)
      BY <1>a, <1>e, <2>4, <3>1, <3>2
    <3> QED
      BY <1>s, <1>u, <3>1, <3>3
  <2>5. call.op \in {"open", "delete", "clear", "list"}
    BY <1>2 DEF ServeOther
  <2> QED
    BY <2>1, <2>2, <2>3, <2>4, <2>5
<1> QED
  BY <1>1, <1>2


-----------------------------------------------------------------------------
(* The page shows one conversation.                                        *)

\* A request whose frames may still reach the page.
Alive(v) == ~v.aborted /\ (v.pc \notin Finished \/ v.wire # <<>>)
NoneAlive == \A s \in Streams : ~Alive(stream[s])
Starting == \E k \in calls : k.op \in {"chat", "context", "clear"}

\* Unless a stream was started during a create or a clear, the page shows the open
\* conversation, only the stream it controls is alive and is of that conversation,
\* and none is while a create or a clear is pending.
OneThread ==
  /\ AllOf(page.shown, page.active)
  /\ \A i \in 1..Len(page.draft) : page.draft[i] = page.active
  /\ \A s \in Streams : Alive(stream[s]) => s = page.controller /\ stream[s].conv = page.active
  /\ Starting => NoneAlive
PageOne == raced \/ OneThread

LEMMA AbortedNone ==
  ASSUME ConvBase
  PROVE  \A s \in Streams : /\ WireEnds(Aborted[s])
                            /\ Aborted[s].pc # "unused" => Aborted[s].conv \in Convs
                            /\ OneThread => ~Alive(Aborted[s])
<1>1. ASSUME NEW s \in Streams
      PROVE  /\ WireEnds(Aborted[s])
             /\ Aborted[s].pc # "unused" => Aborted[s].conv \in Convs
             /\ OneThread => ~Alive(Aborted[s])
  <2>1. /\ Aborted[s].pc = stream[s].pc /\ Aborted[s].conv = stream[s].conv
        /\ ~Aborted[s].aborted => s # page.controller /\ Aborted[s] = stream[s]
    BY AbortedStreams DEF ConvBase
  <2>2. WireEnds(stream[s]) /\ (stream[s].pc # "unused" => stream[s].conv \in Convs)
    BY DEF ConvBase, ConvTyped
  <2> DEFINE a == Aborted[s]
  <2>3. a = Aborted[s]
    OBVIOUS
  <2> HIDE DEF a
  <2>4. WireEnds(a)
    <3>1. CASE a.aborted
      BY <3>1 DEF WireEnds
    <3>2. CASE ~a.aborted
      BY <2>1, <2>2, <2>3, <3>2
    <3> QED
      BY <3>1, <3>2
  <2>5. OneThread => ~Alive(a)
    BY <2>1, <2>3 DEF OneThread, Alive
  <2> QED
    BY <2>1, <2>2, <2>3, <2>4, <2>5
<1> QED
  BY <1>1

LEMMA BlankTyped ==
  ASSUME ConvTyped, NEW c \in Convs \cup {NoConv}
  PROVE  /\ Blank(c) \in View /\ Blank(c).active = c /\ Blank(c).shown = <<>>
         /\ Blank(c).draft = <<>> /\ Blank(c).controller = NoStream
         /\ Blank(c).list = page.list
<1>1. page \in View /\ <<>> \in Seq(Msgs) /\ <<>> \in Seq(Convs)
  BY DEF ConvTyped
<1> QED
  BY <1>1 DEF Blank, View

NewCall(k) == k \in Asked /\ GotOwn(k) /\ (Addressed(k) => k.conv \in Convs)

LEMMA CallTyped ==
  ASSUME NEW op \in Ops, NEW c \in Convs \cup {NoConv}, op \in {"open", "delete"} => c \in Convs
  PROVE  NewCall(Call(op, c)) /\ Call(op, c).op = op
<1>1. <<>> \in Seq(Msgs)
  OBVIOUS
<1> QED
  BY <1>1 DEF Call, NewCall, GotOwn, Addressed, AllOf, Asked

\* What a step of the page has to keep.
LEMMA PageKeeps ==
  ASSUME ConvBase, UNCHANGED <<conv, aiStreams>>, raced' \in BOOLEAN,
         stream' \in [Streams -> Request], page' \in View, ActiveIsListed',
         \A s \in Streams : WireEnds(stream'[s]) /\ (stream'[s].pc # "unused" => stream'[s].conv \in Convs),
         \A k \in calls' : k \in calls \/ NewCall(k)
  PROVE  ConvBase'
BY DEF ConvBase, ConvTyped, NewCall

\* The steps that leave the conversation for another, or for none.
LEMMA LeavingKeeps ==
  ASSUME ConvBase, PageOne,
         \/ \E c \in Convs : Open(c)
         \/ \E op \in {"chat", "context"} : NewConversation(op)
         \/ Clear
  PROVE  ConvBase' /\ PageOne'
<1>0. /\ UNCHANGED <<conv, aiStreams, raced>> /\ stream' = Aborted
      /\ raced \in BOOLEAN /\ page \in View /\ ConvTyped
  BY DEF Open, NewConversation, Clear, ConvBase, ConvTyped
<1>1. /\ stream' \in [Streams -> Request]
      /\ \A s \in Streams : WireEnds(stream'[s]) /\ (stream'[s].pc # "unused" => stream'[s].conv \in Convs)
      /\ OneThread => NoneAlive'
  BY <1>0, AbortedStreams, AbortedNone DEF ConvBase, NoneAlive
<1>2. ASSUME NEW c \in Convs, Open(c) PROVE ConvBase' /\ PageOne'
  <2>1. c \in page.list /\ page' = Blank(c) /\ calls' = calls \cup {Call("open", c)}
    BY <1>2 DEF Open, Ask
  <2>2. NewCall(Call("open", c)) /\ Call("open", c).op = "open"
    BY CallTyped DEF Ops
  <2>3. /\ page' \in View /\ page'.active = c /\ page'.shown = <<>> /\ page'.draft = <<>>
        /\ page'.list = page.list
    BY <1>0, <2>1, BlankTyped
  <2>4. ActiveIsListed'
    BY <2>1, <2>3 DEF ActiveIsListed
  <2>5. ConvBase'
    BY <1>0, <1>1, <2>1, <2>2, <2>3, <2>4, PageKeeps
  <2>6. OneThread => OneThread'
    BY <1>1, <2>3 DEF OneThread, AllOf, NoneAlive
  <2> QED
    BY <1>0, <2>5, <2>6 DEF PageOne
<1>3. ASSUME NEW op \in {"chat", "context", "clear"}, calls' = calls \cup {Call(op, NoConv)},
             page' = [page EXCEPT !.controller = NoStream]
      PROVE  ConvBase' /\ PageOne'
  <2>2. NewCall(Call(op, NoConv)) /\ Call(op, NoConv).op = op
    BY CallTyped DEF Ops
  <2>3. /\ page' \in View /\ page'.active = page.active /\ page'.shown = page.shown
        /\ page'.draft = page.draft /\ page'.list = page.list
    BY <1>0, <1>3 DEF View
  <2>4. ActiveIsListed'
    BY <2>3 DEF ActiveIsListed, ConvBase
  <2>5. ConvBase'
    BY <1>0, <1>1, <1>3, <2>2, <2>3, <2>4, PageKeeps
  <2>6. OneThread => OneThread'
    BY <1>1, <2>3 DEF OneThread, AllOf, NoneAlive
  <2> QED
    BY <1>0, <2>5, <2>6 DEF PageOne
<1>4. ASSUME NEW op \in {"chat", "context"}, NewConversation(op) PROVE ConvBase' /\ PageOne'
  BY <1>3, <1>4 DEF NewConversation, Ask
<1>5. CASE Clear
  BY <1>3, <1>5 DEF Clear, Ask
<1> QED
  BY <1>2, <1>4, <1>5

\* The steps that only ask.
LEMMA AskingKeeps ==
  ASSUME ConvBase, PageOne, FetchConversations \/ \E c \in Convs : Delete(c)
  PROVE  ConvBase' /\ PageOne'
<1>0. UNCHANGED <<conv, aiStreams, stream, page, raced>>
  BY DEF Delete, FetchConversations
<1>1. ASSUME NEW k, NewCall(k), calls' = calls \cup {k}, k.op \in {"list", "delete"}
      PROVE  ConvBase' /\ PageOne'
  <2>1. Starting' <=> Starting
    BY <1>1 DEF Starting
  <2>2. ConvBase'
    BY <1>0, <1>1, PageKeeps DEF ConvBase, ConvTyped, ActiveIsListed
  <2> QED
    BY <1>0, <2>1, <2>2 DEF PageOne, OneThread, NoneAlive
<1>2. CASE FetchConversations
  BY <1>1, <1>2, CallTyped DEF FetchConversations, Ask, Ops
<1>3. ASSUME NEW c \in Convs, Delete(c) PROVE ConvBase' /\ PageOne'
  BY <1>1, <1>3, CallTyped DEF Delete, Ask, Ops
<1> QED
  BY <1>2, <1>3


\* A new stream takes the place of the one the page controlled.
LEMMA GeneratingEffect ==
  ASSUME ConvBase, NEW p \in View, p.active \in Convs, NEW s \in Streams, NEW text \in BOOLEAN,
         Generating(p, s, text)
  PROVE  /\ stream' \in [Streams -> Request]
         /\ \A t \in Streams : /\ WireEnds(stream'[t])
                               /\ stream'[t].pc # "unused" => stream'[t].conv \in Convs
         /\ OneThread => \A t \in Streams : Alive(stream'[t]) => t = s /\ stream'[t].conv = p.active
         /\ page' \in View /\ page'.active = p.active /\ page'.shown = p.shown /\ page'.draft = <<>>
         /\ page'.controller = s /\ page'.list = p.list
<1> DEFINE a == Aborted[s]
           v == [a EXCEPT !.pc = "sent", !.conv = p.active, !.text = text]
<1>1. ConvTyped /\ stream[s].pc = "unused"
  BY DEF ConvBase, Generating
<1>2. /\ Aborted \in [Streams -> Request]
      /\ \A t \in Streams : /\ WireEnds(Aborted[t])
                            /\ Aborted[t].pc # "unused" => Aborted[t].conv \in Convs
                            /\ OneThread => ~Alive(Aborted[t])
  BY <1>1, AbortedStreams, AbortedNone
<1>3. a \in Request /\ WireEnds(a) /\ a.pc = "unused"
  BY <1>1, <1>2, AbortedStreams
<1>4. stream' = [Aborted EXCEPT ![s].pc = "sent", ![s].conv = p.active, ![s].text = text]
  BY DEF Generating
<1>5. stream' = [Aborted EXCEPT ![s] = v]
  <2> HIDE DEF Aborted
  <2> QED
    BY <1>2, <1>4 DEF Request
<1>6. v \in Request /\ v.pc = "sent" /\ v.conv = p.active /\ v.aborted = a.aborted /\ v.wire = a.wire
  BY <1>3 DEF Request
<1> HIDE DEF v, a
<1>7. WireEnds(v)
  BY <1>3, <1>6 DEF WireEnds
<1>8. /\ stream' \in [Streams -> Request] /\ stream'[s] = v
      /\ \A t \in Streams : t # s => stream'[t] = Aborted[t]
  <2> HIDE DEF Aborted
  <2> QED
    BY <1>2, <1>5, <1>6
<1>9. \A t \in Streams : /\ WireEnds(stream'[t])
                         /\ stream'[t].pc # "unused" => stream'[t].conv \in Convs
                         /\ OneThread => (Alive(stream'[t]) => t = s /\ stream'[t].conv = p.active)
  BY <1>2, <1>6, <1>7, <1>8
<1>10. /\ page' \in View /\ page'.active = p.active /\ page'.shown = p.shown /\ page'.draft = <<>>
       /\ page'.controller = s /\ page'.list = p.list
  <2>1. <<>> \in Seq(Convs)
    OBVIOUS
  <2> QED
    BY <2>1 DEF Generating, View
<1> QED
  BY <1>8, <1>9, <1>10

LEMMA SendingKeeps ==
  ASSUME ConvBase, PageOne, NEW s \in Streams, SendMessage(s)
  PROVE  ConvBase' /\ PageOne'
<1> DEFINE p == [page EXCEPT !.shown = Append(page.shown, Turn(page.active))]
<1>1. /\ page.active \in Convs /\ page \in View /\ page.list \subseteq Convs
      /\ page.active \in page.list /\ raced \in BOOLEAN
  BY DEF SendMessage, ConvBase, ConvTyped, View, ActiveIsListed
<1>2. /\ Turn(page.active) \in Msgs /\ Turn(page.active).conv = page.active
      /\ page.shown \in Seq(Msgs)
  BY <1>1, MsgTyped DEF View
<1>3. Append(page.shown, Turn(page.active)) \in Seq(Msgs)
  BY <1>2, AppendProperties
<1>4. /\ p \in View /\ p.active = page.active /\ p.shown = Append(page.shown, Turn(page.active))
      /\ p.list = page.list
  BY <1>1, <1>3 DEF View
<1>5. /\ Generating(p, s, TRUE) /\ UNCHANGED <<conv, aiStreams, calls>>
      /\ raced' = (raced \/ \E k \in calls : k.op \in {"chat", "context", "clear"})
  BY DEF SendMessage
<1> HIDE DEF p
<1>6. /\ stream' \in [Streams -> Request]
      /\ \A t \in Streams : /\ WireEnds(stream'[t])
                            /\ stream'[t].pc # "unused" => stream'[t].conv \in Convs
      /\ OneThread => \A t \in Streams : Alive(stream'[t]) => t = s /\ stream'[t].conv = p.active
      /\ page' \in View /\ page'.active = p.active /\ page'.shown = p.shown /\ page'.draft = <<>>
      /\ page'.controller = s /\ page'.list = p.list
  BY <1>1, <1>4, <1>5, GeneratingEffect
<1>7. ActiveIsListed' /\ raced' \in BOOLEAN
  BY <1>1, <1>4, <1>5, <1>6 DEF ActiveIsListed
<1>8. ConvBase'
  BY <1>5, <1>6, <1>7, PageKeeps
<1>9. ASSUME ~raced' PROVE OneThread'
  <2>1. OneThread /\ ~Starting'
    BY <1>5, <1>9 DEF PageOne, Starting
  <2>2. AllOf(page'.shown, page'.active)
    <3>1. AllOf(page.shown, page.active)
      BY <2>1 DEF OneThread
    <3> QED
      BY <1>2, <1>4, <1>6, <3>1, AppendProperties DEF AllOf
  <2> QED
    BY <1>4, <1>6, <2>1, <2>2 DEF OneThread
<1> QED
  BY <1>8, <1>9 DEF PageOne

\* The frames of a stream.
LEMMA ReceivingKeeps ==
  ASSUME ConvBase, PageOne, NEW s \in Streams, Receive(s)
  PROVE  ConvBase' /\ PageOne'
<1> DEFINE v == stream[s]
           f == Head(v.wire)
           w == [v EXCEPT !.wire = Tail(v.wire), !.final = v.final \/ f = "done"]
<1>1. /\ v \in Request /\ v.wire \in Seq(Signals) /\ v.wire # <<>> /\ ~v.aborted
      /\ WireEnds(v) /\ (v.pc # "unused" => v.conv \in Convs) /\ page \in View
      /\ stream \in [Streams -> Request] /\ v.read \in Nat
      /\ v.final \in BOOLEAN /\ raced \in BOOLEAN
  BY DEF Receive, ConvBase, ConvTyped, Request
<1>2. /\ f \in Signals /\ f = v.wire[1] /\ Tail(v.wire) \in Seq(Signals)
      /\ Len(v.wire) \in Nat /\ Len(v.wire) > 0
      /\ Len(Tail(v.wire)) = Len(v.wire) - 1
      /\ \A i \in 1..Len(Tail(v.wire)) : Tail(v.wire)[i] = v.wire[i + 1]
  BY <1>1, HeadTailProperties
<1>3. /\ w \in Request /\ w.pc = v.pc /\ w.conv = v.conv /\ w.aborted = v.aborted
      /\ w.wire = Tail(v.wire)
  BY <1>1, <1>2 DEF Request
<1>4. stream' = [stream EXCEPT ![s] = w]
  <2>1. stream' = [stream EXCEPT ![s].wire = Tail(stream[s].wire), ![s].final = stream[s].final \/ f = "done"]
    BY DEF Receive
  <2> QED
    BY <1>1, <2>1 DEF Request
<1>5. WireEnds(w)
  <2> HIDE DEF v, w, f
  <2>0. w.pc # "unused"
    BY <1>1, <1>3 DEF WireEnds
  <2> SUFFICES ASSUME NEW i \in 1..Len(w.wire), w.wire[i] \in Ended PROVE w.pc = "done" /\ i = Len(w.wire)
    BY <2>0 DEF WireEnds
  <2>1. i + 1 \in 1..Len(v.wire) /\ v.wire[i + 1] \in Ended
    BY <1>2, <1>3
  <2>2. v.pc = "done" /\ i + 1 = Len(v.wire)
    BY <1>1, <2>1 DEF WireEnds
  <2> QED
    BY <1>2, <1>3, <2>2
<1>6. f \in Ended => Tail(v.wire) = <<>> /\ v.pc = "done"
  <2> HIDE DEF v, f
  <2>1. ASSUME f \in Ended PROVE v.pc = "done" /\ Len(v.wire) = 1
    <3>1. 1 \in 1..Len(v.wire) /\ v.wire[1] \in Ended
      BY <1>2, <2>1
    <3> QED
      BY <1>1, <3>1 DEF WireEnds
  <2>2. ASSUME Len(v.wire) = 1 PROVE Tail(v.wire) = <<>>
    <3>1. Len(Tail(v.wire)) = 0
      BY <1>2, <2>2
    <3> QED
      BY <1>2, <3>1, EmptySeq
  <2> QED
    BY <2>1, <2>2
<1>7. Alive(v) /\ (f \in Ended => ~Alive(w)) /\ (Alive(w) => Alive(v))
  <2>1. Alive(v)
    BY <1>1 DEF Alive
  <2> QED
    BY <1>3, <1>6, <2>1 DEF Alive, Finished
<1>8. UNCHANGED <<conv, aiStreams, raced>>
  BY DEF Receive
<1>9. \A k \in calls' : k \in calls \/ (NewCall(k) /\ k.op = "list")
  BY CallTyped DEF Receive, Ops
<1> DEFINE Partial == IF page.draft = <<>> \/ v.final THEN <<>> ELSE <<Reply(Head(page.draft), v.read)>>
           Ends == [page EXCEPT !.shown = page.shown \o Partial, !.streaming = FALSE, !.draft = <<>>,
                                !.controller = IF page.controller = s THEN NoStream ELSE page.controller]
<1>10. /\ f = "delta" => page' = [page EXCEPT !.draft = Append(page.draft, v.conv)]
       /\ f = "done" => page' = [page EXCEPT !.shown = Append(page.shown, Reply(v.conv, v.read))]
       /\ f \in Ended => page' = Ends
       /\ f \notin {"delta", "done", "eof", "refused"} => page' = page
  <2> HIDE DEF v, f
  <2> QED
    BY DEF Receive, Ended, v, f
<1>11. v.conv \in Convs
  <2> HIDE DEF v
  <2> QED
    BY <1>1 DEF WireEnds
<1>12. /\ v.conv \in Convs /\ v.read \in Nat /\ page \in View
       /\ page.shown \in Seq(Msgs) /\ page.draft \in Seq(Convs)
       /\ page.active \in Convs \cup {NoConv} /\ page.controller \in Streams \cup {NoStream}
  BY <1>1, <1>11 DEF View
<1> HIDE DEF f, w
<1>13. page' \in View /\ page'.active = page.active /\ page'.list = page.list
  <2> HIDE DEF v
  <2>1. CASE f = "delta"
    <3>1. Append(page.draft, v.conv) \in Seq(Convs)
      BY <1>12, AppendProperties
    <3> QED
      BY <1>10, <1>12, <2>1, <3>1 DEF View
  <2>2. CASE f = "done"
    <3>1. Append(page.shown, Reply(v.conv, v.read)) \in Seq(Msgs)
      BY <1>12, MsgTyped, AppendProperties
    <3> QED
      BY <1>10, <1>12, <2>2, <3>1 DEF View
  <2>3. CASE f \in Ended
    <3>1. Partial \in Seq(Msgs)
      <4>1. CASE page.draft = <<>> \/ v.final
        BY <4>1
      <4>2. CASE ~(page.draft = <<>> \/ v.final)
        <5>1. Head(page.draft) \in Convs
          BY <1>12, <4>2, HeadTailProperties
        <5>2. Reply(Head(page.draft), v.read) \in Msgs
          BY <1>12, <5>1, MsgTyped
        <5> QED
          BY <4>2, <5>2
      <4> QED
        BY <4>1, <4>2
    <3> HIDE DEF Partial
    <3>2. page.shown \o Partial \in Seq(Msgs) /\ <<>> \in Seq(Convs)
      BY <1>12, <3>1, ConcatProperties
    <3> QED
      BY <1>10, <1>12, <2>3, <3>2 DEF View
  <2>4. CASE f \notin {"delta", "done", "eof", "refused"}
    BY <1>10, <1>12, <2>4
  <2> QED
    BY <2>1, <2>2, <2>3, <2>4 DEF Ended
<1>14. ConvBase'
  <2>1. /\ stream' \in [Streams -> Request]
        /\ \A t \in Streams : /\ WireEnds(stream'[t])
                              /\ stream'[t].pc # "unused" => stream'[t].conv \in Convs
    <3> HIDE DEF v
    <3> QED
      BY <1>1, <1>3, <1>4, <1>5, <1>11 DEF ConvBase, ConvTyped
  <2>2. ActiveIsListed'
    BY <1>13 DEF ActiveIsListed, ConvBase
  <2> QED
    BY <1>1, <1>8, <1>9, <1>13, <2>1, <2>2, PageKeeps
<1>15. ASSUME OneThread PROVE OneThread'
  <2>1. s = page.controller /\ v.conv = page.active
    BY <1>7, <1>15 DEF OneThread
  <2>2. /\ AllOf(page.shown, page.active)
        /\ \A i \in 1..Len(page.draft) : page.draft[i] = page.active
    BY <1>15 DEF OneThread
  <2> HIDE DEF v
  <2>3. \A t \in Streams : t # s => ~Alive(stream'[t])
    BY <1>1, <1>4, <1>15, <2>1 DEF OneThread
  <2>4. stream'[s] = w
    BY <1>1, <1>4
  <2>5. ~Starting'
    <3>1. Starting' => Starting
      BY <1>9 DEF Starting
    <3>2. ~Starting
      BY <1>7, <1>15 DEF OneThread, NoneAlive, v
    <3> QED
      BY <3>1, <3>2
  <2>6. CASE f \in Ended
    <3>1. NoneAlive'
      BY <1>7, <2>3, <2>4, <2>6 DEF NoneAlive
    <3>2. /\ page'.shown = page.shown \o Partial /\ page'.draft = <<>>
      BY <1>10, <1>12, <2>6 DEF View
    <3>3. Partial \in Seq(Msgs) /\ AllOf(Partial, page.active)
      <4>1. CASE page.draft = <<>> \/ v.final
        BY <4>1 DEF AllOf
      <4>2. CASE ~(page.draft = <<>> \/ v.final)
        <5>1. Head(page.draft) \in Convs /\ Head(page.draft) = page.active
          BY <1>12, <2>2, <4>2, HeadTailProperties
        <5>2. Reply(Head(page.draft), v.read) \in Msgs /\ Reply(Head(page.draft), v.read).conv = page.active
          BY <1>12, <5>1, MsgTyped
        <5> QED
          BY <4>2, <5>2 DEF AllOf
      <4> QED
        BY <4>1, <4>2
    <3> HIDE DEF Partial
    <3>4. AllOf(page.shown \o Partial, page.active)
      <4> DEFINE a == page.shown
                 c == page.active
      <4>1. a \in Seq(Msgs) /\ AllOf(a, c)
        BY <1>12, <2>2
      <4>2. Partial \in Seq(Msgs) /\ AllOf(Partial, c)
        BY <3>3
      <4> HIDE DEF a, c
      <4> QED
        BY <4>1, <4>2, AllOfConcat DEF a, c
    <3> QED
      BY <1>13, <3>1, <3>2, <3>4 DEF OneThread, NoneAlive
  <2>7. CASE f = "delta"
    <3>1. /\ page'.draft = Append(page.draft, v.conv) /\ page'.shown = page.shown
          /\ page'.controller = page.controller
      BY <1>10, <1>12, <2>7 DEF View
    <3>2. \A i \in 1..Len(page'.draft) : page'.draft[i] = page.active
      BY <1>12, <2>1, <2>2, <3>1, AppendProperties
    <3> QED
      BY <1>3, <1>13, <2>1, <2>2, <2>3, <2>4, <2>5, <3>1, <3>2 DEF OneThread
  <2>8. CASE f = "done"
    <3>1. /\ page'.shown = Append(page.shown, Reply(v.conv, v.read)) /\ page'.draft = page.draft
          /\ page'.controller = page.controller
      BY <1>10, <1>12, <2>8 DEF View
    <3>2. Reply(v.conv, v.read) \in Msgs /\ Reply(v.conv, v.read).conv = page.active
      BY <1>12, <2>1, MsgTyped
    <3>3. AllOf(page'.shown, page.active)
      BY <1>12, <2>2, <3>1, <3>2, AppendProperties DEF AllOf
    <3> QED
      BY <1>3, <1>13, <2>1, <2>2, <2>3, <2>4, <2>5, <3>1, <3>3 DEF OneThread
  <2>9. CASE f \notin {"delta", "done", "eof", "refused"}
    <3>1. page' = page
      BY <1>10, <2>9
    <3> QED
      BY <1>3, <2>1, <2>2, <2>3, <2>4, <2>5, <3>1 DEF OneThread
  <2> QED
    BY <2>6, <2>7, <2>8, <2>9 DEF Ended
<1> QED
  BY <1>8, <1>14, <1>15 DEF PageOne


\* A row of answered open, list, delete and clear calls, and of failed ones.
LEMMA AnsweredKeeps ==
  ASSUME ConvBase, PageOne, NEW call \in calls,
         OpenAnswered(call) \/ ListAnswered(call) \/ RemoveAnswered(call)
  PROVE  ConvBase' /\ PageOne'
<1>0. /\ UNCHANGED <<conv, aiStreams, raced>> /\ calls' = calls \ {call}
      /\ raced \in BOOLEAN /\ page \in View /\ ConvTyped /\ GotOwn(call) /\ call \in Asked
      /\ Addressed(call) => call.conv \in Convs
      /\ Starting' => Starting
  BY DEF OpenAnswered, ListAnswered, RemoveAnswered, ConvBase, ConvTyped, Starting
<1>1. ASSUME UNCHANGED stream, page' \in View, ActiveIsListed' PROVE ConvBase'
  BY <1>0, <1>1, PageKeeps DEF ConvBase, ConvTyped
<1>2. CASE OpenAnswered(call)
  <2>1. CASE call.at = "answered" /\ page.active = call.conv
    <3>1. stream' = stream /\ page' = [page EXCEPT !.shown = call.got]
      BY <1>2, <2>1 DEF OpenAnswered
    <3>2. /\ page' \in View /\ page'.active = page.active /\ page'.shown = call.got
          /\ page'.draft = page.draft /\ page'.controller = page.controller /\ page'.list = page.list
      BY <1>0, <3>1 DEF View, Asked
    <3>3. AllOf(page'.shown, page'.active)
      BY <1>0, <2>1, <3>2 DEF GotOwn
    <3>4. ActiveIsListed'
      BY <3>2 DEF ActiveIsListed, ConvBase
    <3> QED
      BY <1>0, <1>1, <3>1, <3>2, <3>3, <3>4 DEF PageOne, OneThread, NoneAlive
  <2>2. CASE ~(call.at = "answered" /\ page.active = call.conv)
    <3>1. stream' = stream /\ page' = page
      BY <1>2, <2>2 DEF OpenAnswered
    <3>2. ActiveIsListed'
      BY <3>1 DEF ActiveIsListed, ConvBase
    <3> QED
      BY <1>0, <1>1, <3>1, <3>2 DEF PageOne, OneThread, NoneAlive
  <2> QED
    BY <2>1, <2>2
<1>3. CASE ListAnswered(call)
  <2>1. stream' = stream /\ page' = [page EXCEPT !.list = Merged(call.list)]
    BY <1>3 DEF ListAnswered
  <2>2. Merged(call.list) \in SUBSET Convs
    BY <1>0 DEF Merged, Asked, View
  <2>3. /\ page' \in View /\ page'.active = page.active /\ page'.shown = page.shown
        /\ page'.draft = page.draft /\ page'.controller = page.controller
        /\ page'.list = Merged(call.list)
    BY <1>0, <2>1, <2>2 DEF View
  <2>4. ActiveIsListed'
    BY <2>3 DEF ActiveIsListed, ConvBase, Merged
  <2> QED
    BY <1>0, <1>1, <2>1, <2>3, <2>4 DEF PageOne, OneThread, NoneAlive
<1>4. CASE RemoveAnswered(call)
  <2>0. /\ Blank(NoConv) \in View /\ Blank(NoConv).active = NoConv /\ Blank(NoConv).shown = <<>>
        /\ Blank(NoConv).draft = <<>> /\ Blank(NoConv).controller = NoStream
        /\ Blank(NoConv).list = page.list
    BY <1>0, BlankTyped
  <2>e. AllOf(<<>>, NoConv)
    BY DEF AllOf
  <2>1. CASE call.op = "clear"
    <3>1. stream' = stream /\ page' = [Blank(NoConv) EXCEPT !.list = {}, !.controller = page.controller]
      BY <1>4, <2>1 DEF RemoveAnswered
    <3>2. /\ page' \in View /\ page'.active = NoConv /\ page'.shown = <<>> /\ page'.draft = <<>>
      <4> HIDE DEF Blank
      <4>1. page.controller \in Streams \cup {NoStream}
        BY <1>0 DEF View
      <4> QED
        BY <2>0, <3>1, <4>1 DEF View
    <3>3. OneThread => NoneAlive
      BY <2>1 DEF OneThread, Starting
    <3>4. ActiveIsListed'
      BY <3>2 DEF ActiveIsListed
    <3>5. OneThread => OneThread'
      BY <2>e, <3>1, <3>2, <3>3 DEF OneThread, NoneAlive
    <3> QED
      BY <1>0, <1>1, <3>1, <3>2, <3>4, <3>5 DEF PageOne
  <2>2. CASE call.op = "delete" /\ page.active = call.conv
    <3>1. stream' = Aborted /\ page' = [Blank(NoConv) EXCEPT !.list = page.list \ {call.conv}]
      <4>1. page' = [Blank(NoConv) EXCEPT !.list = @ \ {call.conv}]
        BY <1>4, <2>2 DEF RemoveAnswered
      <4> QED
        BY <1>4, <2>0, <2>2, <4>1 DEF RemoveAnswered
    <3>2. /\ page' \in View /\ page'.active = NoConv /\ page'.shown = <<>> /\ page'.draft = <<>>
      <4> HIDE DEF Blank
      <4>1. page.list \ {call.conv} \in SUBSET Convs
        BY <1>0 DEF View
      <4> QED
        BY <2>0, <3>1, <4>1 DEF View
    <3>3. /\ stream' \in [Streams -> Request]
          /\ \A s \in Streams : WireEnds(stream'[s]) /\ (stream'[s].pc # "unused" => stream'[s].conv \in Convs)
          /\ OneThread => NoneAlive'
      BY <1>0, <3>1, AbortedStreams, AbortedNone DEF NoneAlive
    <3>4. ActiveIsListed'
      BY <3>2 DEF ActiveIsListed
    <3>5. ConvBase'
      BY <1>0, <3>2, <3>3, <3>4, PageKeeps
    <3>6. OneThread => OneThread'
      BY <2>e, <3>2, <3>3 DEF OneThread, NoneAlive
    <3> QED
      BY <1>0, <3>5, <3>6 DEF PageOne
  <2>3. CASE call.op = "delete" /\ page.active # call.conv
    <3>1. stream' = stream /\ page' = [page EXCEPT !.list = page.list \ {call.conv}]
      BY <1>4, <2>3 DEF RemoveAnswered
    <3>2. /\ page' \in View /\ page'.active = page.active /\ page'.shown = page.shown
          /\ page'.draft = page.draft /\ page'.controller = page.controller
          /\ page'.list = page.list \ {call.conv}
      <4>1. page.list \ {call.conv} \in SUBSET Convs
        BY <1>0 DEF View
      <4> QED
        BY <1>0, <3>1, <4>1 DEF View
    <3>3. ActiveIsListed'
      BY <2>3, <3>2 DEF ActiveIsListed, ConvBase
    <3> QED
      BY <1>0, <1>1, <3>1, <3>2, <3>3 DEF PageOne, OneThread, NoneAlive
  <2> QED
    BY <1>4, <2>1, <2>2, <2>3 DEF RemoveAnswered
<1> QED
  BY <1>2, <1>3, <1>4

LEMMA CreatingKeeps ==
  ASSUME ConvBase, PageOne, NEW call \in calls, CreateAnswered(call)
  PROVE  ConvBase' /\ PageOne'
<1>0. /\ UNCHANGED <<conv, aiStreams>> /\ calls' = calls \ {call}
      /\ raced \in BOOLEAN /\ page \in View /\ ConvTyped /\ GotOwn(call) /\ call \in Asked
      /\ Addressed(call) => call.conv \in Convs
      /\ call.op \in {"chat", "context"}
      /\ Starting' => Starting
  BY DEF CreateAnswered, ConvBase, ConvTyped, Starting
<1>1. OneThread => NoneAlive
  BY <1>0 DEF OneThread, Starting
<1> DEFINE p == Created(call)
<1>2. ASSUME call.at = "answered"
      PROVE  /\ p \in View /\ p.active = call.conv /\ p.shown = call.got /\ p.draft = <<>>
             /\ p.list = page.list \cup {call.conv} /\ call.conv \in Convs
             /\ AllOf(p.shown, p.active)
  <2>1. call.conv \in Convs /\ AllOf(call.got, call.conv)
    BY <1>0, <1>2 DEF Addressed, GotOwn
  <2>2. page.list \cup {call.conv} \in SUBSET Convs /\ call.got \in Seq(Msgs) /\ <<>> \in Seq(Convs)
    BY <1>0, <2>1 DEF View, Asked
  <2>3. /\ p \in View /\ p.active = call.conv /\ p.shown = call.got /\ p.draft = <<>>
        /\ p.list = page.list \cup {call.conv}
    BY <1>0, <2>1, <2>2 DEF Created, View
  <2> QED
    BY <2>1, <2>3
<1> HIDE DEF p
<1>3. CASE call.at = "failed"
  <2>1. UNCHANGED <<stream, page, raced>>
    BY <1>3 DEF CreateAnswered
  <2>2. ConvBase'
    BY <1>0, <2>1, PageKeeps DEF ConvBase, ConvTyped, ActiveIsListed
  <2> QED
    BY <1>0, <2>1, <2>2 DEF PageOne, OneThread, NoneAlive
<1>4. CASE call.op = "chat" /\ call.at = "answered"
  <2>1. page' = p /\ UNCHANGED <<stream, raced>>
    BY <1>4 DEF CreateAnswered, p
  <2>2. ActiveIsListed'
    BY <1>2, <1>4, <2>1 DEF ActiveIsListed
  <2>3. ConvBase'
    BY <1>0, <1>2, <1>4, <2>1, <2>2, PageKeeps DEF ConvBase, ConvTyped
  <2>4. OneThread => OneThread'
    BY <1>1, <1>2, <1>4, <2>1 DEF OneThread, NoneAlive
  <2> QED
    BY <2>1, <2>3, <2>4 DEF PageOne
<1>5. CASE call.op = "context" /\ call.at = "answered"
  <2>1. PICK s \in Streams : Generating(p, s, FALSE)
    BY <1>5 DEF CreateAnswered, p
  <2>2. raced' = (raced \/ \E k \in calls \ {call} : k.op \in {"chat", "context", "clear"})
    BY <1>5 DEF CreateAnswered
  <2>3. /\ stream' \in [Streams -> Request]
        /\ \A t \in Streams : /\ WireEnds(stream'[t])
                              /\ stream'[t].pc # "unused" => stream'[t].conv \in Convs
        /\ OneThread => \A t \in Streams : Alive(stream'[t]) => t = s /\ stream'[t].conv = p.active
        /\ page' \in View /\ page'.active = p.active /\ page'.shown = p.shown /\ page'.draft = <<>>
        /\ page'.controller = s /\ page'.list = p.list
    BY <1>2, <1>5, <2>1, GeneratingEffect
  <2>4. ActiveIsListed' /\ raced' \in BOOLEAN
    BY <1>0, <1>2, <1>5, <2>2, <2>3 DEF ActiveIsListed
  <2>5. ConvBase'
    BY <1>0, <2>3, <2>4, PageKeeps
  <2>6. ASSUME ~raced' PROVE OneThread'
    <3>1. OneThread /\ ~Starting'
      BY <1>0, <2>2, <2>6 DEF PageOne, Starting
    <3> QED
      BY <1>2, <1>5, <2>3, <3>1 DEF OneThread
  <2> QED
    BY <2>5, <2>6 DEF PageOne
<1> QED
  BY <1>3, <1>4, <1>5 DEF CreateAnswered

\* The server's steps.
LEMMA RowsStay ==
  ASSUME ConvBase, NEW c \in Convs, NEW S \in SUBSET Msgs, RowMoves(c, S)
  PROVE  AllOf(conv'[c].msgs, c) /\ (conv'[c].made = "no" => conv'[c].title = "")
<1>1. /\ AllOf(conv[c].msgs, c) /\ (conv[c].made = "no" => conv[c].title = "")
      /\ conv[c].msgs \in Seq(Msgs)
  BY DEF ConvBase, ConvTyped, Row1
<1>2. ASSUME NEW m \in Msgs, m.conv = c, conv'[c].msgs = Append(conv[c].msgs, m)
      PROVE  AllOf(conv'[c].msgs, c)
  <2> DEFINE q == conv[c].msgs
  <2>1. /\ Len(Append(q, m)) = Len(q) + 1 /\ Len(q) \in Nat /\ Append(q, m)[Len(q) + 1] = m
        /\ \A i \in 1..Len(q) : Append(q, m)[i] = q[i] /\ q[i].conv = c
    <3>1. q \in Seq(Msgs) /\ \A i \in 1..Len(q) : q[i].conv = c
      BY <1>1 DEF AllOf
    <3> HIDE DEF q
    <3>2. /\ Len(Append(q, m)) = Len(q) + 1 /\ Len(q) \in Nat
          /\ \A i \in 1..Len(q) : Append(q, m)[i] = q[i]
      BY <3>1, AppendProperties
    <3>3. Append(q, m)[Len(q) + 1] = m
      BY <3>1
    <3> QED
      BY <3>1, <3>2, <3>3
  <2>2. conv'[c].msgs = Append(q, m)
    BY <1>2
  <2> HIDE DEF q
  <2>3. \A i \in 1..(Len(q) + 1) : i \in 1..Len(q) \/ i = Len(q) + 1
    BY <2>1
  <2> QED
    BY <1>2, <2>1, <2>2, <2>3 DEF AllOf
<1>3. AllOf(<<>>, c)
  BY DEF AllOf
<1> QED
  BY <1>1, <1>2, <1>3 DEF RowMoves

LEMMA HandlerKeeps ==
  ASSUME ConvBase, PageOne, NEW s \in Streams, HandlerStep(s)
  PROVE  ConvBase' /\ PageOne'
<1>1. /\ stream' = [stream EXCEPT ![s] = stream'[s]] /\ stream'[s] \in Request
      /\ stream'[s].conv = stream[s].conv /\ stream'[s].aborted = stream[s].aborted
      /\ stream[s].pc \notin Finished /\ stream'[s].pc # "unused"
      /\ stream[s].conv \in Convs
      /\ WireEnds(stream'[s])
      /\ UNCHANGED <<calls, page, raced>>
  BY HandlerEffect DEF ConvBase
<1>2. conv' \in [Convs -> Row1] /\ aiStreams' \subseteq Convs /\ \A c \in Convs : RowMoves(c, Msgs)
  BY HandlerRows
<1>3. \A c \in Convs : AllOf(conv'[c].msgs, c) /\ (conv'[c].made = "no" => conv'[c].title = "")
  BY <1>2, RowsStay
<1>4. ConvBase'
  BY <1>1, <1>2, <1>3 DEF ConvBase, ConvTyped, ActiveIsListed
<1>5. \A t \in Streams : Alive(stream'[t]) => Alive(stream[t]) /\ stream'[t].conv = stream[t].conv
  BY <1>1 DEF Alive, ConvBase, ConvTyped
<1> QED
  BY <1>1, <1>4, <1>5 DEF PageOne, OneThread, NoneAlive, Starting

LEMMA ServingKeeps ==
  ASSUME ConvBase, PageOne, NEW call \in calls, ServeCreate(call) \/ ServeOther(call)
  PROVE  ConvBase' /\ PageOne'
<1>1. /\ conv' \in [Convs -> Row1] /\ \A c \in Convs : RowMoves(c, Asks)
      /\ UNCHANGED <<aiStreams, stream, page, raced>>
  BY ServeEffect
<1>2. PICK new \in Asked : /\ calls' = (calls \ {call}) \cup {new}
                           /\ new.op = call.op /\ GotOwn(new)
                           /\ Addressed(new) => new.conv \in Convs
  BY ServeEffect
<1>3. \A c \in Convs : AllOf(conv'[c].msgs, c) /\ (conv'[c].made = "no" => conv'[c].title = "")
  <2>1. Asks \in SUBSET Msgs
    BY DEF Asks
  <2> QED
    BY <1>1, <2>1, RowsStay
<1>4. ConvBase'
  BY <1>1, <1>2, <1>3 DEF ConvBase, ConvTyped, ActiveIsListed
<1>5. Starting' => Starting
  BY <1>2 DEF Starting
<1> QED
  BY <1>1, <1>4, <1>5 DEF PageOne, OneThread, NoneAlive

LEMMA PageOneInit == ConvInit => ConvBase /\ PageOne
<1> SUFFICES ASSUME ConvInit PROVE ConvBase /\ PageOne
  OBVIOUS
<1>1. ConvTyped
  BY ConvTypedInit
<1>2. \A s \in Streams : stream[s].pc = "unused" /\ stream[s].wire = <<>>
  BY DEF ConvInit
<1>3. \A s \in Streams : WireEnds(stream[s]) /\ ~Alive(stream[s])
  BY <1>2 DEF WireEnds, Alive, Finished
<1>4. \A c \in Convs : conv[c].msgs = <<>> /\ conv[c].title = ""
  BY DEF ConvInit
<1>5. calls = {} /\ page.active = NoConv /\ page.shown = <<>> /\ page.draft = <<>>
  BY DEF ConvInit
<1>6. \A c : AllOf(<<>>, c)
  BY DEF AllOf
<1>7. \A c \in Convs : AllOf(conv[c].msgs, c)
  BY <1>4, <1>6
<1>8. ConvBase
  BY <1>1, <1>3, <1>4, <1>5, <1>7 DEF ConvBase, ActiveIsListed
<1>9. AllOf(page.shown, page.active) /\ \A i \in 1..Len(page.draft) : page.draft[i] = page.active
  BY <1>5, <1>6
<1> QED
  BY <1>3, <1>5, <1>8, <1>9 DEF PageOne, OneThread, NoneAlive

LEMMA PageOneStep == ConvBase /\ PageOne /\ [ConvNext]_convVars => ConvBase' /\ PageOne'
<1> SUFFICES ASSUME ConvBase, PageOne, [ConvNext]_convVars PROVE ConvBase' /\ PageOne'
  OBVIOUS
<1>1. CASE UNCHANGED convVars
  BY <1>1 DEF convVars, ConvBase, ConvTyped, PageOne, OneThread, NoneAlive, Starting, ActiveIsListed
<1>2. ASSUME NEW s \in Streams, HandlerStep(s) \/ SendMessage(s) \/ Receive(s)
      PROVE  ConvBase' /\ PageOne'
  BY <1>2, HandlerKeeps, SendingKeeps, ReceivingKeeps
<1>3. ASSUME \/ \E c \in Convs : Open(c) \/ Delete(c)
             \/ \E op \in {"chat", "context"} : NewConversation(op)
             \/ Clear \/ FetchConversations
      PROVE  ConvBase' /\ PageOne'
  BY <1>3, LeavingKeeps, AskingKeeps
<1>4. ASSUME NEW call \in calls, Answers(call) PROVE ConvBase' /\ PageOne'
  BY <1>4, ServingKeeps, AnsweredKeeps, CreatingKeeps DEF Answers
<1> QED
  BY <1>1, <1>2, <1>3, <1>4 DEF ConvNext, ConvIdle

\* The page shows one conversation, whatever it awaits (aiStore.ts).
THEOREM PageShowsOne == ConvSpec => []PageIsOfOne
<1>1. ConvBase /\ PageOne => PageIsOfOne
  <2> SUFFICES ASSUME ConvBase, PageOne PROVE PageIsOfOne
    OBVIOUS
  <2>1. page.shown \in Seq(Msgs) /\ page.draft \in Seq(Convs)
    BY DEF ConvBase, ConvTyped, View
  <2>2. DOMAIN page.shown = 1..Len(page.shown) /\ DOMAIN page.draft = 1..Len(page.draft)
    BY <2>1
  <2> QED
    BY <2>2 DEF ConvBase, PageOne, OneThread, AllOf, PageIsOfOne, ThreadBelongs, ThreadIsActive
<1> QED
  BY <1>1, PageOneInit, PageOneStep, PTL DEF ConvSpec

\* A title, once a conversation has one, is never replaced.
LEMMA TitleStep ==
  ConvBase /\ [ConvNext]_convVars =>
    [\A c \in Convs : conv[c].title # "" => conv'[c].title = conv[c].title]_convVars
<1> SUFFICES ASSUME ConvBase, ConvNext, NEW c \in Convs, conv[c].title # ""
             PROVE  conv'[c].title = conv[c].title
  OBVIOUS
<1>1. RowMoves(c, Msgs) \/ RowMoves(c, Asks) => conv'[c].title = conv[c].title
  BY DEF RowMoves, ConvBase
<1>2. conv' = conv \/ RowMoves(c, Msgs) \/ RowMoves(c, Asks)
  <2>1. ASSUME NEW s \in Streams, HandlerStep(s) PROVE RowMoves(c, Msgs)
    BY <2>1, HandlerRows
  <2>2. ASSUME NEW call \in calls, ServeCreate(call) \/ ServeOther(call) PROVE RowMoves(c, Asks)
    BY <2>2, ServeEffect
  <2>3. ASSUME NEW call \in calls,
               OpenAnswered(call) \/ CreateAnswered(call) \/ RemoveAnswered(call) \/ ListAnswered(call)
        PROVE  conv' = conv
    BY <2>3 DEF OpenAnswered, CreateAnswered, RemoveAnswered, ListAnswered
  <2>4. ASSUME \/ \E s \in Streams : SendMessage(s) \/ Receive(s)
               \/ \E d \in Convs : Open(d) \/ Delete(d)
               \/ \E op \in {"chat", "context"} : NewConversation(op)
               \/ Clear \/ FetchConversations \/ ConvIdle
        PROVE  conv' = conv
    BY <2>4 DEF SendMessage, Receive, Open, Delete, NewConversation, Clear, FetchConversations,
                ConvIdle, convVars
  <2> QED
    BY <2>1, <2>2, <2>3, <2>4 DEF ConvNext, Answers
<1> QED
  BY <1>1, <1>2

\* The title of a conversation is kept (UpdateTitle of storage/ai.go, StreamAIMessage).
THEOREM TitleStays == ConvSpec => TitleIsKept
BY TitleStep, PageOneInit, PageOneStep, PTL DEF ConvSpec, TitleIsKept

-----------------------------------------------------------------------------
(* A reply per turn.                                                       *)

\* The steps between the lock and the unlock.
Locked(v) == v.pc \in {"append", "list", "stream", "unlock"}

IsReply(m) == m.role = "assistant"

\* Every reply answers a history that holds all the replies before it and not itself.
Ordered(msgs) ==
  \A j \in 1..Len(msgs) : IsReply(msgs[j]) =>
    /\ msgs[j].read \in Nat /\ msgs[j].read < j
    /\ \A i \in 1..(j - 1) : IsReply(msgs[i]) => i <= msgs[j].read

\* The history that a stream answers still is the last one with a reply in it.
Reads(v, row) ==
  row.made = "yes" => /\ v.read <= Len(row.msgs)
                      /\ \A i \in 1..Len(row.msgs) : IsReply(row.msgs[i]) => i <= v.read

LockHeld == \A s \in Streams : Locked(stream[s]) => stream[s].conv \in aiStreams
LockAlone ==
  \A s, t \in Streams :
    Locked(stream[s]) /\ Locked(stream[t]) /\ stream[s].conv = stream[t].conv => s = t
LockMade ==
  \A s \in Streams :
    stream[s].pc = "lock" \/ Locked(stream[s]) => conv[stream[s].conv].made # "no"
OneStream == LockHeld /\ LockAlone /\ LockMade

Turns1 ==
  /\ \A c \in Convs : Ordered(conv[c].msgs)
  /\ \A s \in Streams : stream[s].pc = "stream" => Reads(stream[s], conv[stream[s].conv])

LEMMA OrderedAppend ==
  ASSUME NEW q \in Seq(Msgs), Ordered(q), NEW m \in Msgs,
         IsReply(m) => /\ m.read \in Nat /\ m.read <= Len(q)
                       /\ \A i \in 1..Len(q) : IsReply(q[i]) => i <= m.read
  PROVE  /\ Ordered(Append(q, m)) /\ Len(Append(q, m)) = Len(q) + 1 /\ Len(q) \in Nat
         /\ \A i \in 1..Len(Append(q, m)) : IsReply(Append(q, m)[i]) =>
              (i \in 1..Len(q) /\ IsReply(q[i])) \/ (i = Len(q) + 1 /\ IsReply(m))
<1> DEFINE n == Len(q)
           r == Append(q, m)
<1>1. n \in Nat /\ Len(r) = n + 1 /\ \A i \in 1..n : r[i] = q[i]
  BY AppendProperties
<1>2. r[n + 1] = m
  OBVIOUS
<1>3. Ordered(q) <=> \A j \in 1..n : IsReply(q[j]) =>
                        /\ q[j].read \in Nat /\ q[j].read < j
                        /\ \A i \in 1..(j - 1) : IsReply(q[i]) => i <= q[j].read
  BY DEF Ordered
<1>4. IsReply(m) => /\ m.read \in Nat /\ m.read <= n
                    /\ \A i \in 1..n : IsReply(q[i]) => i <= m.read
  OBVIOUS
<1> HIDE DEF n, r
<1>5. \A i \in 1..(n + 1) : i \in 1..n \/ i = n + 1
  BY <1>1
<1>6. Ordered(r)
  <2> SUFFICES ASSUME NEW j \in 1..(n + 1), IsReply(r[j])
               PROVE  /\ r[j].read \in Nat /\ r[j].read < j
                      /\ \A i \in 1..(j - 1) : IsReply(r[i]) => i <= r[j].read
    BY <1>1 DEF Ordered
  <2>1. CASE j \in 1..n
    <3>1. r[j] = q[j] /\ \A i \in 1..(j - 1) : i \in 1..n /\ r[i] = q[i]
      BY <1>1, <2>1
    <3> QED
      BY <1>3, <2>1, <3>1
  <2>2. CASE j = n + 1
    <3>1. r[j] = m /\ j - 1 = n /\ \A i \in 1..n : r[i] = q[i]
      BY <1>1, <1>2, <2>2
    <3>2. m.read \in Nat /\ m.read <= n /\ \A i \in 1..n : IsReply(q[i]) => i <= m.read
      BY <1>4, <3>1
    <3> QED
      BY <1>1, <2>2, <3>1, <3>2
  <2> QED
    BY <1>5, <2>1, <2>2
<1>7. \A i \in 1..(n + 1) : IsReply(r[i]) => (i \in 1..n /\ IsReply(q[i])) \/ (i = n + 1 /\ IsReply(m))
  BY <1>1, <1>2, <1>5
<1> QED
  BY <1>1, <1>6, <1>7 DEF n, r

\* The steps of the page leave the rows and the streams that hold a lock.
PageLeaves ==
  /\ UNCHANGED <<conv, aiStreams>>
  /\ \A s \in Streams :
       \/ stream'[s].pc \in {"unused", "sent", "done"}
       \/ /\ stream'[s].pc = stream[s].pc /\ stream'[s].conv = stream[s].conv
          /\ stream'[s].read = stream[s].read

LEMMA GeneratingLeaves ==
  ASSUME ConvBase, NEW p \in View, NEW s \in Streams, NEW text, Generating(p, s, text)
  PROVE  \A t \in Streams : \/ stream'[t].pc = "sent"
                            \/ /\ stream'[t].pc = stream[t].pc /\ stream'[t].conv = stream[t].conv
                               /\ stream'[t].read = stream[t].read
<1>1. ConvTyped /\ Aborted \in [Streams -> Request]
  BY AbortedStreams DEF ConvBase
<1>2. stream' = [Aborted EXCEPT ![s].pc = "sent", ![s].conv = p.active, ![s].text = text]
  BY DEF Generating
<1>3. \A t \in Streams : (t # s => stream'[t] = Aborted[t]) /\ (t = s => stream'[t].pc = "sent")
  <2> HIDE DEF Aborted
  <2> QED
    BY <1>1, <1>2 DEF Request
<1> QED
  BY <1>1, <1>3, AbortedStreams

LEMMA PageLeavesLocks ==
  ASSUME ConvBase,
         \/ \E s \in Streams : SendMessage(s) \/ Receive(s)
         \/ \E c \in Convs : Open(c) \/ Delete(c)
         \/ \E op \in {"chat", "context"} : NewConversation(op)
         \/ Clear \/ FetchConversations \/ ConvIdle
         \/ \E call \in calls :
              OpenAnswered(call) \/ CreateAnswered(call) \/ RemoveAnswered(call) \/ ListAnswered(call)
  PROVE  PageLeaves
<1>0. ConvTyped /\ page \in View
  BY DEF ConvBase, ConvTyped
<1>1. ASSUME stream' = Aborted \/ stream' = stream, UNCHANGED <<conv, aiStreams>> PROVE PageLeaves
  BY <1>0, <1>1, AbortedStreams DEF PageLeaves
<1>2. ASSUME NEW s \in Streams, SendMessage(s) PROVE PageLeaves
  <2>1. [page EXCEPT !.shown = Append(page.shown, Turn(page.active))] \in View
    <3>1. Append(page.shown, Turn(page.active)) \in Seq(Msgs)
      <4>1. page.active \in Convs /\ page.shown \in Seq(Msgs)
        BY <1>0, <1>2 DEF View, SendMessage
      <4> QED
        BY <4>1, MsgTyped, AppendProperties
    <3> QED
      BY <1>0, <3>1 DEF View
  <2>2. Generating([page EXCEPT !.shown = Append(page.shown, Turn(page.active))], s, TRUE)
        /\ UNCHANGED <<conv, aiStreams>>
    BY <1>2 DEF SendMessage
  <2> QED
    BY <2>1, <2>2, GeneratingLeaves DEF PageLeaves
<1>3. ASSUME NEW s \in Streams, Receive(s) PROVE PageLeaves
  <2>1. /\ stream' = [stream EXCEPT ![s].wire = Tail(stream[s].wire),
                                    ![s].final = stream[s].final \/ Head(stream[s].wire) = "done"]
        /\ UNCHANGED <<conv, aiStreams>>
    BY <1>3 DEF Receive
  <2>2. \A t \in Streams : /\ stream'[t].pc = stream[t].pc /\ stream'[t].conv = stream[t].conv
                           /\ stream'[t].read = stream[t].read
    BY <1>0, <2>1 DEF ConvTyped, Request
  <2> QED
    BY <2>1, <2>2 DEF PageLeaves
<1>4. ASSUME NEW call \in calls, CreateAnswered(call) PROVE PageLeaves
  <2>1. CASE stream' = stream
    BY <1>1, <1>4, <2>1 DEF CreateAnswered
  <2>2. CASE stream' # stream
    <3>1. PICK s \in Streams : Generating(Created(call), s, FALSE)
      BY <1>4, <2>2 DEF CreateAnswered
    <3>2. call.at = "answered" /\ call.op = "context" /\ UNCHANGED <<conv, aiStreams>>
      BY <1>4, <2>2 DEF CreateAnswered
    <3>3. Created(call) \in View
      <4>1. call \in Asked /\ call.conv \in Convs
        BY <3>2 DEF ConvBase, ConvTyped, Addressed
      <4>2. page.list \cup {call.conv} \in SUBSET Convs /\ call.got \in Seq(Msgs) /\ <<>> \in Seq(Convs)
        BY <1>0, <4>1 DEF View, Asked
      <4> QED
        BY <1>0, <4>1, <4>2 DEF Created, View
    <3> QED
      BY <3>1, <3>2, <3>3, GeneratingLeaves DEF PageLeaves
  <2> QED
    BY <2>1, <2>2
<1>5. ASSUME NEW call \in calls, OpenAnswered(call) \/ RemoveAnswered(call) \/ ListAnswered(call)
      PROVE  PageLeaves
  BY <1>1, <1>5 DEF OpenAnswered, RemoveAnswered, ListAnswered
<1>6. ASSUME \/ \E c \in Convs : Open(c) \/ Delete(c)
             \/ \E op \in {"chat", "context"} : NewConversation(op)
             \/ Clear \/ FetchConversations \/ ConvIdle
      PROVE  PageLeaves
  BY <1>1, <1>6 DEF Open, Delete, NewConversation, Clear, FetchConversations, ConvIdle, convVars
<1> QED
  BY <1>2, <1>3, <1>4, <1>5, <1>6

\* A row that moves on stays in order, whether a page asks or the stream that read it
\* replies, and never comes back to where no conversation was.
LEMMA AskKeepsRow ==
  ASSUME ConvBase, Turns1, NEW c \in Convs, RowMoves(c, Asks)
  PROVE  /\ Ordered(conv'[c].msgs)
         /\ conv[c].made # "no" => conv'[c].made # "no"
         /\ conv[c].made # "no" =>
              \A s \in Streams : Reads(stream[s], conv[c]) => Reads(stream[s], conv'[c])
<1>1. conv[c].msgs \in Seq(Msgs) /\ Ordered(conv[c].msgs) /\ conv[c].made \in {"no", "yes", "gone"}
  BY DEF ConvBase, ConvTyped, Row1, Turns1
<1>2. Ordered(<<>>)
  BY DEF Ordered
<1>3. ASSUME NEW m \in Asks, conv'[c].msgs = Append(conv[c].msgs, m),
             conv[c].made = "yes", conv'[c].made = "yes"
      PROVE  /\ Ordered(conv'[c].msgs)
             /\ \A s \in Streams : Reads(stream[s], conv[c]) => Reads(stream[s], conv'[c])
  <2>1. m \in Msgs /\ ~IsReply(m)
    BY <1>3 DEF Asks, IsReply
  <2> DEFINE q == conv[c].msgs
  <2>2. /\ Ordered(Append(q, m)) /\ Len(Append(q, m)) = Len(q) + 1 /\ Len(q) \in Nat
        /\ \A i \in 1..Len(Append(q, m)) : IsReply(Append(q, m)[i]) => i \in 1..Len(q) /\ IsReply(q[i])
    BY <1>1, <2>1, OrderedAppend
  <2>3. ASSUME NEW s \in Streams, Reads(stream[s], conv[c]) PROVE Reads(stream[s], conv'[c])
    <3>1. stream[s].read \in Nat
      BY DEF ConvBase, ConvTyped, Request
    <3>2. /\ stream[s].read <= Len(q)
          /\ \A i \in 1..Len(q) : IsReply(q[i]) => i <= stream[s].read
      BY <1>3, <2>3 DEF Reads
    <3> HIDE DEF q
    <3>3. conv'[c].msgs = Append(q, m)
      BY <1>3 DEF q
    <3> QED
      BY <2>2, <3>1, <3>2, <3>3 DEF Reads
  <2> QED
    BY <1>3, <2>2, <2>3
<1>4. CASE conv'[c] = conv[c]
  BY <1>1, <1>4
<1>5. CASE conv[c].made = "no" /\ conv'[c].made = "yes" /\ conv'[c].msgs = conv[c].msgs
  BY <1>1, <1>5
<1>6. CASE /\ conv[c].made = "yes" /\ conv'[c].made = "yes"
           /\ \E m \in Asks : m.conv = c /\ conv'[c].msgs = Append(conv[c].msgs, m)
  BY <1>3, <1>6
<1>7. CASE conv[c].made = "yes" /\ conv'[c].made = "gone" /\ conv'[c].msgs = <<>>
  BY <1>2, <1>7 DEF Reads
<1> QED
  BY <1>4, <1>5, <1>6, <1>7 DEF RowMoves

\* What the steps of a handler do with the lock and the row.
LEMMA HandlerLocks ==
  ASSUME ConvBase, OneStream, Turns1, NEW s \in Streams, HandlerStep(s)
  PROVE  LET c == stream[s].conv IN
         /\ \A d \in Convs : d # c => conv'[d] = conv[d]
         /\ conv' = conv \/ Locked(stream[s])
         /\ Ordered(conv'[c].msgs) /\ conv'[c].made = conv[c].made
         /\ stream'[s].pc = "stream" => Reads(stream'[s], conv'[c])
         /\ stream'[s].pc = "lock" => conv[c].made # "no"
         /\ Locked(stream'[s]) =>
              /\ c \in aiStreams'
              /\ \/ Locked(stream[s])
                 \/ stream[s].pc = "lock" /\ c \notin aiStreams
         /\ \A d \in Convs : d \in aiStreams /\ (d # c \/ ~Locked(stream[s])) => d \in aiStreams'
<1> DEFINE c == stream[s].conv
           q == conv[c].msgs
<1>0. /\ c \in Convs /\ conv \in [Convs -> Row1] /\ stream \in [Streams -> Request]
      /\ stream[s] \in Request /\ q \in Seq(Msgs) /\ Ordered(q) /\ stream[s].read \in Nat
      /\ Len(q) \in Nat
  <2>1. c \in Convs
    BY HandlerEffect DEF ConvBase
  <2>2. q \in Seq(Msgs) /\ Ordered(q)
    BY <2>1 DEF ConvBase, ConvTyped, Row1, Turns1
  <2>3. stream[s] \in Request
    BY DEF ConvBase, ConvTyped
  <2>4. stream[s].read \in Nat /\ Len(q) \in Nat
    BY <2>2, <2>3 DEF Request
  <2> QED
    BY <2>1, <2>2, <2>3, <2>4 DEF ConvBase, ConvTyped
<1>a. ASSUME NEW m \in Msgs, NEW t \in Streams \cup {"", "context"}, conv' = Appended(c, m, t)
      PROVE  /\ \A d \in Convs : d # c => conv'[d] = conv[d]
             /\ conv'[c].made = conv[c].made /\ conv'[c].msgs = Append(q, m)
  BY <1>0, <1>a, AppendedTyped DEF ConvBase
<1>1. CASE StreamReads(s)
  <2>1. /\ UNCHANGED <<conv, aiStreams>> /\ stream[s].pc = "sent"
        /\ stream'[s].pc = IF Exists(c) THEN "lock" ELSE "done"
    BY <1>0, <1>1 DEF StreamReads, Request
  <2> QED
    BY <1>0, <2>1 DEF Locked, Exists
<1>2. CASE StreamLocks(s)
  <2>1. /\ UNCHANGED conv /\ stream[s].pc = "lock" /\ aiStreams' = aiStreams \cup {c}
        /\ stream'[s].pc = IF c \in aiStreams THEN "done" ELSE "append"
    BY <1>0, <1>2 DEF StreamLocks, Request
  <2> QED
    BY <1>0, <2>1 DEF Locked
<1>3. CASE StreamAppends(s)
  <2>0. stream[s].pc = "append" /\ Locked(stream[s])
    BY <1>3 DEF StreamAppends, Locked
  <2>1. \/ stream'[s].pc = "list" /\ aiStreams' = aiStreams
        \/ stream'[s].pc = "done" /\ aiStreams' = aiStreams \ {c}
    <3>1. CASE stream' = [stream EXCEPT ![s].pc = "list"] /\ UNCHANGED aiStreams
      BY <1>0, <3>1
    <3>2. CASE stream' = [stream EXCEPT ![s].pc = "done", ![s].wire = Send(s, "refused")] /\ Unlocked(s)
      BY <1>0, <3>2 DEF Request, Unlocked
    <3> QED
      BY <1>3, <3>1, <3>2 DEF StreamAppends
  <2>2. c \in aiStreams
    BY <2>0 DEF OneStream, LockHeld, LockAlone, LockMade
  <2>3. CASE conv' = conv
    BY <1>0, <2>0, <2>1, <2>2, <2>3 DEF Locked
  <2>4. CASE conv' # conv
    <3>1. conv' = Appended(c, Turn(c), IF stream[s].untitled THEN s ELSE "")
      BY <1>3, <2>4 DEF StreamAppends
    <3>2. Turn(c) \in Msgs /\ ~IsReply(Turn(c))
      BY <1>0, MsgTyped DEF IsReply
    <3>3. /\ \A d \in Convs : d # c => conv'[d] = conv[d]
          /\ conv'[c].made = conv[c].made /\ conv'[c].msgs = Append(q, Turn(c))
      BY <1>a, <3>1, <3>2
    <3>4. Ordered(conv'[c].msgs)
      BY <1>0, <3>2, <3>3, OrderedAppend
    <3> QED
      BY <2>0, <2>1, <2>2, <3>3, <3>4 DEF Locked
  <2> QED
    BY <2>3, <2>4
<1>4. CASE StreamLists(s)
  <2>0. stream[s].pc = "list" /\ Locked(stream[s]) /\ conv' = conv
    BY <1>4 DEF StreamLists, Locked
  <2>1. \/ stream'[s].pc = "stream" /\ stream'[s].read = Len(q) /\ aiStreams' = aiStreams
        \/ stream'[s].pc = "done" /\ aiStreams' = aiStreams \ {c}
    BY <1>0, <1>4 DEF StreamLists, Request, Unlocked
  <2>2. c \in aiStreams
    BY <2>0 DEF OneStream, LockHeld, LockAlone, LockMade
  <2>3. stream'[s].pc = "stream" => Reads(stream'[s], conv'[c])
    BY <1>0, <2>0, <2>1 DEF Reads
  <2> QED
    BY <1>0, <2>0, <2>1, <2>2, <2>3 DEF Locked
<1>5. CASE Delta(s)
  <2>1. /\ UNCHANGED <<conv, aiStreams>> /\ stream[s].pc = "stream" /\ stream'[s].pc = "stream"
        /\ stream'[s].read = stream[s].read
    BY <1>0, <1>5 DEF Delta, Request
  <2>2. Reads(stream[s], conv[c]) /\ c \in aiStreams
    BY <2>1 DEF Turns1, OneStream, LockHeld, LockMade, Locked
  <2> QED
    BY <1>0, <2>1, <2>2 DEF Locked, Reads
<1>6. CASE Persist(s)
  <2>1. stream[s].pc = "stream" /\ Locked(stream[s]) /\ aiStreams' = aiStreams /\ stream'[s].pc = "unlock"
    <3>1. PICK last \in {"error", "done", "nothing"} :
              stream' = [stream EXCEPT ![s].pc = "unlock", ![s].wire = Send(s, last)]
      BY <1>6 DEF Persist
    <3>2. stream'[s].pc = "unlock"
      BY <1>0, <3>1 DEF Request
    <3> QED
      BY <1>6, <3>2 DEF Persist, Locked
  <2>2. Reads(stream[s], conv[c]) /\ c \in aiStreams
    BY <2>1 DEF Turns1, OneStream, LockHeld
  <2>3. CASE conv' = conv
    BY <1>0, <2>1, <2>2, <2>3 DEF Locked
  <2>4. CASE conv' # conv
    <3> DEFINE m == Reply(c, stream[s].read)
    <3>1. Exists(c) /\ conv' = Appended(c, m, "")
      BY <1>6, <2>4 DEF Persist
    <3>2. m \in Msgs /\ m.read = stream[s].read
      BY <1>0, MsgTyped
    <3> HIDE DEF m
    <3>3. /\ \A d \in Convs : d # c => conv'[d] = conv[d]
          /\ conv'[c].made = conv[c].made /\ conv'[c].msgs = Append(q, m)
      BY <1>a, <3>1, <3>2
    <3>4. m.read \in Nat /\ m.read <= Len(q) /\ \A i \in 1..Len(q) : IsReply(q[i]) => i <= m.read
      BY <1>0, <2>2, <3>1, <3>2 DEF Reads, Exists
    <3>5. Ordered(conv'[c].msgs)
      BY <1>0, <3>2, <3>3, <3>4, OrderedAppend
    <3> QED
      BY <2>1, <2>2, <3>3, <3>5 DEF Locked
  <2> QED
    BY <2>3, <2>4
<1>7. CASE Unlock(s)
  <2>1. /\ UNCHANGED conv /\ stream[s].pc = "unlock" /\ Locked(stream[s]) /\ aiStreams' = aiStreams \ {c}
        /\ stream'[s].pc = "done"
    BY <1>0, <1>7 DEF Unlock, Unlocked, Request, Locked
  <2> QED
    BY <1>0, <2>1 DEF Locked
<1> QED
  BY <1>1, <1>2, <1>3, <1>4, <1>5, <1>6, <1>7 DEF HandlerStep

LEMMA OneReplyStep ==
  ConvBase /\ OneStream /\ Turns1 /\ [ConvNext]_convVars => OneStream' /\ Turns1'
<1> SUFFICES ASSUME ConvBase, OneStream, Turns1, [ConvNext]_convVars PROVE OneStream' /\ Turns1'
  OBVIOUS
<1>0. \A s \in Streams : stream[s].pc # "unused" => stream[s].conv \in Convs
  BY DEF ConvBase, ConvTyped
<1>1. ASSUME PageLeaves PROVE OneStream' /\ Turns1'
  <2>1. \A s \in Streams : stream'[s].pc = "lock" \/ Locked(stream'[s]) =>
          /\ stream'[s].pc = stream[s].pc /\ stream'[s].conv = stream[s].conv
          /\ stream'[s].read = stream[s].read /\ (Locked(stream'[s]) => Locked(stream[s]))
    BY <1>1 DEF PageLeaves, Locked
  <2>2. conv' = conv /\ aiStreams' = aiStreams
    BY <1>1 DEF PageLeaves
  <2>3. OneStream'
    <3>1. LockHeld'
      BY <2>1, <2>2 DEF OneStream, LockHeld
    <3>2. LockAlone'
      BY <2>1 DEF OneStream, LockAlone
    <3>3. LockMade'
      BY <2>1, <2>2 DEF OneStream, LockMade
    <3> QED
      BY <3>1, <3>2, <3>3 DEF OneStream
  <2>4. ASSUME NEW s \in Streams, stream'[s].pc = "stream"
        PROVE  Reads(stream'[s], conv'[stream'[s].conv])
    <3>1. Locked(stream'[s])
      BY <2>4 DEF Locked
    <3> QED
      BY <2>1, <2>2, <2>4, <3>1 DEF Turns1, Reads
  <2> QED
    BY <2>2, <2>3, <2>4 DEF Turns1
<1>2. ASSUME NEW call \in calls, ServeCreate(call) \/ ServeOther(call) PROVE OneStream' /\ Turns1'
  <2>1. stream' = stream /\ aiStreams' = aiStreams /\ \A c \in Convs : RowMoves(c, Asks)
    BY <1>2, ServeEffect
  <2>2. \A c \in Convs : /\ Ordered(conv'[c].msgs)
                         /\ conv[c].made # "no" => conv'[c].made # "no"
                         /\ conv[c].made # "no" =>
                              \A s \in Streams : Reads(stream[s], conv[c]) => Reads(stream[s], conv'[c])
    BY <2>1, AskKeepsRow
  <2>3. OneStream'
    BY <1>0, <2>1, <2>2 DEF OneStream, LockHeld, LockAlone, LockMade, Locked
  <2>4. ASSUME NEW s \in Streams, stream[s].pc = "stream" PROVE Reads(stream[s], conv'[stream[s].conv])
    <3>1. stream[s].conv \in Convs /\ conv[stream[s].conv].made # "no" /\ Reads(stream[s], conv[stream[s].conv])
      BY <1>0, <2>4 DEF OneStream, LockHeld, LockAlone, LockMade, Locked, Turns1
    <3> QED
      BY <2>2, <3>1
  <2> QED
    BY <2>1, <2>2, <2>3, <2>4 DEF Turns1
<1>3. ASSUME NEW s \in Streams, HandlerStep(s) PROVE OneStream' /\ Turns1'
  <2> DEFINE c == stream[s].conv
  <2>1. /\ \A d \in Convs : d # c => conv'[d] = conv[d]
        /\ conv' = conv \/ Locked(stream[s])
        /\ Ordered(conv'[c].msgs) /\ conv'[c].made = conv[c].made
        /\ stream'[s].pc = "stream" => Reads(stream'[s], conv'[c])
        /\ stream'[s].pc = "lock" => conv[c].made # "no"
        /\ Locked(stream'[s]) => /\ c \in aiStreams'
                                 /\ \/ Locked(stream[s])
                                    \/ stream[s].pc = "lock" /\ c \notin aiStreams
        /\ \A d \in Convs : d \in aiStreams /\ (d # c \/ ~Locked(stream[s])) => d \in aiStreams'
    BY <1>3, HandlerLocks
  <2>2. /\ c \in Convs /\ stream'[s].conv = c
        /\ \A t \in Streams : t # s => stream'[t] = stream[t]
    <3>1. stream' = [stream EXCEPT ![s] = stream'[s]] /\ stream'[s].conv = c /\ c \in Convs
      BY <1>3, HandlerEffect DEF ConvBase
    <3>2. stream \in [Streams -> Request]
      BY DEF ConvBase, ConvTyped
    <3> QED
      BY <3>1, <3>2
  <2> HIDE DEF c
  <2>c. c = stream[s].conv
    BY DEF c
  <2>3. \A t \in Streams : t # s /\ Locked(stream[t]) /\ stream[t].conv = c => ~Locked(stream[s]) /\ c \in aiStreams
    BY <2>c DEF OneStream, LockHeld, LockAlone, LockMade
  <2>4. \A t \in Streams : Locked(stream'[t]) => stream'[t].conv \in aiStreams'
    <3>1. ASSUME NEW t \in Streams, t # s, Locked(stream[t]) PROVE stream[t].conv \in aiStreams'
      <4>1. stream[t].conv \in Convs /\ stream[t].conv \in aiStreams
        BY <1>0, <3>1 DEF OneStream, LockHeld, LockAlone, LockMade, Locked
      <4> QED
        BY <2>1, <2>3, <3>1, <4>1
    <3> QED
      BY <2>1, <2>2, <3>1
  <2>5. ASSUME NEW t \in Streams, NEW u \in Streams, Locked(stream'[t]), Locked(stream'[u]),
               stream'[t].conv = stream'[u].conv
        PROVE  t = u
    <3>1. ASSUME NEW x \in Streams, x # s, Locked(stream'[x]), stream'[x].conv = c PROVE ~Locked(stream'[s])
      BY <2>1, <2>2, <2>3, <3>1
    <3>2. CASE t # s /\ u # s
      BY <2>2, <2>5, <3>2 DEF OneStream, LockHeld, LockAlone, LockMade
    <3>3. CASE t = s \/ u = s
      BY <2>2, <2>5, <3>1, <3>3
    <3> QED
      BY <3>2, <3>3
  <2>6. ASSUME NEW t \in Streams, stream'[t].pc = "lock" \/ Locked(stream'[t])
        PROVE  conv'[stream'[t].conv].made # "no"
    <3>1. CASE t # s
      <4>1. stream'[t] = stream[t] /\ conv[stream[t].conv].made # "no" /\ stream[t].conv \in Convs
        BY <1>0, <2>2, <2>6, <3>1 DEF OneStream, LockHeld, LockAlone, LockMade, Locked
      <4> QED
        BY <2>1, <4>1
    <3>2. CASE t = s
      <4>1. conv[c].made # "no"
        BY <2>1, <2>6, <2>c, <3>2 DEF OneStream, LockHeld, LockAlone, LockMade
      <4> QED
        BY <2>1, <2>2, <3>2, <4>1
    <3> QED
      BY <3>1, <3>2
  <2>7. OneStream'
    <3>1. LockHeld'
      BY <2>4 DEF LockHeld
    <3>2. LockAlone'
      BY <2>5 DEF LockAlone
    <3>3. LockMade'
      BY <2>6 DEF LockMade
    <3> QED
      BY <3>1, <3>2, <3>3 DEF OneStream
  <2>8. \A d \in Convs : Ordered(conv'[d].msgs)
    BY <2>1 DEF Turns1
  <2>9. ASSUME NEW t \in Streams, stream'[t].pc = "stream" PROVE Reads(stream'[t], conv'[stream'[t].conv])
    <3>1. CASE t = s
      BY <2>1, <2>2, <2>9, <3>1
    <3>2. CASE t # s
      <4>1. stream'[t] = stream[t] /\ stream[t].conv \in Convs /\ Locked(stream[t])
            /\ Reads(stream[t], conv[stream[t].conv])
        BY <1>0, <2>2, <2>9, <3>2 DEF Locked, Turns1
      <4>2. conv'[stream[t].conv] = conv[stream[t].conv]
        BY <2>1, <2>3, <3>2, <4>1
      <4> QED
        BY <4>1, <4>2
    <3> QED
      BY <3>1, <3>2
  <2> QED
    BY <2>7, <2>8, <2>9 DEF Turns1
<1>4. CASE UNCHANGED convVars
  <2>1. PageLeaves
    BY <1>4 DEF convVars, PageLeaves
  <2> QED
    BY <1>1, <2>1
<1> QED
  BY <1>1, <1>2, <1>3, <1>4, PageLeavesLocks DEF ConvNext, Answers

\* Two replies never answer the same history: the lock of a conversation is held until
\* the reply is stored (StreamAIMessage).
THEOREM RepliesAnswerOnce == ConvSpec => []OneReplyPerTurn
<1>1. ConvInit => OneStream /\ Turns1
  <2> SUFFICES ASSUME ConvInit PROVE OneStream /\ Turns1
    OBVIOUS
  <2>1. \A s \in Streams : stream[s].pc = "unused"
    BY DEF ConvInit
  <2>2. \A c \in Convs : conv[c].msgs = <<>>
    BY DEF ConvInit
  <2>3. Ordered(<<>>)
    BY DEF Ordered
  <2>4. \A s \in Streams : ~Locked(stream[s]) /\ stream[s].pc # "lock" /\ stream[s].pc # "stream"
    BY <2>1 DEF Locked
  <2>5. Turns1
    BY <2>2, <2>3, <2>4 DEF Turns1
  <2> QED
    BY <2>4, <2>5 DEF OneStream, LockHeld, LockAlone, LockMade
<1>2. ConvBase /\ Turns1 => OneReplyPerTurn
  <2> SUFFICES ASSUME ConvBase, Turns1, NEW c \in Convs,
                      NEW i \in DOMAIN conv[c].msgs, NEW j \in DOMAIN conv[c].msgs, i # j,
                      conv[c].msgs[i].role = "assistant", conv[c].msgs[j].role = "assistant"
               PROVE  conv[c].msgs[i].read # conv[c].msgs[j].read
    BY DEF OneReplyPerTurn
  <2> DEFINE q == conv[c].msgs
  <2>1. q \in Seq(Msgs) /\ Ordered(q) /\ IsReply(q[i]) /\ IsReply(q[j])
    BY DEF ConvBase, ConvTyped, Row1, Turns1, IsReply
  <2>2. i \in 1..Len(q) /\ j \in 1..Len(q) /\ Len(q) \in Nat
    BY <2>1
  <2> HIDE DEF q
  <2>3. /\ q[i].read \in Nat /\ q[j].read \in Nat /\ q[i].read < i /\ q[j].read < j
        /\ i < j => i <= q[j].read
        /\ j < i => j <= q[i].read
    BY <2>1, <2>2 DEF Ordered
  <2>4. i < j \/ j < i
    BY <2>2
  <2> QED
    BY <2>2, <2>3, <2>4 DEF q
<1> QED
  BY <1>1, <1>2, PageOneInit, PageOneStep, OneReplyStep, PTL DEF ConvSpec

-----------------------------------------------------------------------------
\* Callbacks: what the page lists.

LEMMA Newest ==
  ASSUME NEW S \in SUBSET Caught
  PROVE  /\ NewestFirst(S) \in Seq(Caught)
         /\ IsInjective(NewestFirst(S))
         /\ ToSet(NewestFirst(S)) = S
<1> DEFINE n == Cardinality(S)
<1>1. IsFiniteSet(S) /\ S \in SUBSET Nat /\ n \in Nat
  BY CbAssumption, FS_Subset, FS_CardinalityType
<1>2. PICK r \in [1..n -> S] : \A j, k \in 1..n : j < k => r[j] < r[k]
  BY <1>1, Enumerated
<1> HIDE DEF n
<1> DEFINE s == [k \in 1..n |-> r[n + 1 - k]]
<1>3. \A k \in 1..n : n + 1 - k \in 1..n
  BY <1>1
<1>4. s \in [1..n -> S]
  BY <1>2, <1>3
<1>5. ASSUME NEW j \in 1..n, NEW k \in 1..n, j < k PROVE s[j] > s[k]
  <2>1. n + 1 - k \in 1..n /\ n + 1 - j \in 1..n /\ n + 1 - k < n + 1 - j
    BY <1>5, <1>1
  <2>2. r[n + 1 - k] < r[n + 1 - j]
    BY <2>1, <1>2
  <2>3. r[n + 1 - k] \in Nat /\ r[n + 1 - j] \in Nat
    BY <2>1, <1>2, <1>1
  <2> QED
    BY <2>2, <2>3
<1> HIDE DEF s
<1>6. \A t \in [1..n -> S] :
        (\A j, k \in 1..n : j < k => t[j] > t[k]) => \A j, k \in 1..n : j # k => t[j] # t[k]
  <2> SUFFICES ASSUME NEW t \in [1..n -> S], \A j, k \in 1..n : j < k => t[j] > t[k],
                      NEW j \in 1..n, NEW k \in 1..n, j # k
               PROVE  t[j] # t[k]
    OBVIOUS
  <2>1. t[j] \in Nat /\ t[k] \in Nat
    BY <1>1
  <2>2. j < k \/ k < j
    BY <1>1
  <2> QED
    BY <2>1, <2>2
<1>7. DOMAIN s = 1..n /\ \A j, k \in 1..n : j # k => s[j] # s[k]
  BY <1>4, <1>5, <1>6
<1>8. s \in SetToSeqs(S) /\ \A j, k \in DOMAIN s : j < k => s[j] > s[k]
  BY <1>4, <1>5, <1>7 DEF SetToSeqs, n
<1> DEFINE w == NewestFirst(S)
<1>9. w \in SetToSeqs(S) /\ \A j, k \in DOMAIN w : j < k => w[j] > w[k]
  BY <1>8 DEF NewestFirst
<1> HIDE DEF w
<1>10. w \in [1..n -> S] /\ \A j, k \in 1..n : j # k => w[j] # w[k]
  BY <1>9 DEF SetToSeqs, n
<1>11. S = {w[k] : k \in 1..n}
  BY <1>1, <1>10, NamesAll DEF n
<1>12. w \in Seq(Caught)
  <2>1. w \in [1..n -> Caught] /\ n \in Nat
    BY <1>1, <1>10 DEF n
  <2> QED
    BY <2>1, SeqDef
<1>13. DOMAIN w = 1..n
  BY <1>10
<1> QED
  BY <1>10, <1>11, <1>12, <1>13 DEF ToSet, IsInjective, w

\* What is caught, what the page asks for, and what it shows.
Counts == UNION {[D -> Nat] : D \in SUBSET Tokens}
Labels == {""} \cup {TokenOf(name) : name \in Names}
OobCalls ==
  oobCalls \subseteq
    [op : {"fetch", "generate", "clear"}, at : {"sent", "listed", "counted", "both"},
     list : Seq(Caught), counts : Counts, token : Tokens \cup {""}]
Minted == \A call \in oobCalls : call.op = "generate" /\ call.at = "both" => call.token \in Tokens
Arrived ==
  caught \in [Caught -> [at : {"none", "store", "notify", "over"},
                        proto : {"", "dns", "http"}, token : Labels]]
Listed == oobView \in [shown : Seq(Caught), badges : Counts]
Stored1 == /\ payloads \subseteq Tokens /\ rows \subseteq Caught /\ wire \in Seq(Caught)
           /\ missed \in BOOLEAN /\ asked \in 0..MaxAsked

\* Nothing is caught, and nothing listed, by a server that is off.
CbOff == ~Enabled => /\ \A i \in Caught : caught[i].at = "none"
                     /\ wire = <<>> /\ rows = {} /\ oobView.shown = <<>>

CbBase == OobCalls /\ Minted /\ Arrived /\ Listed /\ Stored1 /\ CbOff

LEMMA Nothing ==
  /\ \A S : <<>> \in Seq(S)
  /\ DOMAIN <<>> = {} /\ IsInjective(<<>>)
  /\ <<>> \in Counts
<1>1. \A S : <<>> \in Seq(S) /\ Len(<<>>) = 0
  BY EmptySeq
<1>2. <<>> \in [1..Len(<<>>) -> Nat] /\ DOMAIN <<>> = 1..Len(<<>>)
  BY <1>1, LenProperties
<1>3. 1..0 = {}
  OBVIOUS
<1>4. <<>> \in [{} -> Nat] /\ DOMAIN <<>> = {}
  BY <1>1, <1>2, <1>3
<1>5. {} \in SUBSET Tokens
  OBVIOUS
<1> QED
  BY <1>1, <1>4, <1>5 DEF Counts, IsInjective

LEMMA CbBaseInit == CbInit => CbBase /\ ShownOnce
<1> SUFFICES ASSUME CbInit PROVE CbBase /\ ShownOnce
  OBVIOUS
<1>1. OobCalls /\ Minted
  BY DEF CbInit, OobCalls, Minted
<1>2. Arrived
  BY DEF CbInit, Arrived, Labels
<1>3. wire = <<>> /\ oobView = [shown |-> <<>>, badges |-> <<>>] /\ rows = {}
  BY DEF CbInit
<1>4. Listed /\ ShownOnce
  <2>1. oobView.shown = <<>>
    BY <1>3
  <2>2. [shown |-> <<>>, badges |-> <<>>] \in [shown : Seq(Caught), badges : Counts]
    BY Nothing
  <2> QED
    BY <1>3, <2>1, <2>2, Nothing DEF Listed, ShownOnce
<1>5. Stored1
  <2>1. payloads \subseteq Tokens /\ missed \in BOOLEAN /\ asked \in 0..MaxAsked
    <3>1. payloads = {} /\ missed = FALSE
      BY DEF CbInit
    <3>2. asked = 0 /\ MaxAsked \in Nat
      BY CbAssumption DEF CbInit
    <3>3. asked \in 0..MaxAsked
      BY <3>2
    <3> QED
      BY <3>1, <3>3
  <2> QED
    BY <1>3, <2>1, Nothing DEF Stored1
<1>6. CbOff
  BY DEF CbInit, CbOff
<1> QED
  BY <1>1, <1>2, <1>4, <1>5, <1>6 DEF CbBase

\* What arrives.
LEMMA ArrivalKeeps ==
  ASSUME CbBase, NEW i \in Caught,
         \/ \E proto \in {"dns", "http"}, name \in Names : Arrives(i, proto, name)
         \/ StoreCallback(i) \/ NotifyCallback(i)
  PROVE  CbBase' /\ UNCHANGED oobView
<1>1. UNCHANGED <<domain, payloads, oobCalls, oobView, missed, asked>>
  BY DEF Arrives, StoreCallback, NotifyCallback
<1>2. OobCalls' /\ Minted' /\ Listed' /\ Labels' = Labels
  BY <1>1 DEF CbBase, OobCalls, Minted, Listed, Labels, TokenOf
<1>3. CASE \E proto \in {"dns", "http"}, name \in Names : Arrives(i, proto, name)
  <2>1. PICK proto \in {"dns", "http"}, name \in Names : Arrives(i, proto, name)
    BY <1>3
  <2>2. TokenOf(name) \in Labels /\ "" \in Labels
    BY DEF Labels
  <2>3. Arrived'
    BY <2>1, <2>2, <1>2 DEF Arrives, Arrived, CbBase
  <2>4. Stored1' /\ CbOff'
    BY <2>1 DEF Arrives, Stored1, CbOff, CbBase, Enabled
  <2> QED
    BY <1>1, <1>2, <2>3, <2>4 DEF CbBase
<1>4. CASE StoreCallback(i)
  <2>1. Arrived'
    <3>1. caught' \in {[caught EXCEPT ![i].at = "notify"],
                       [caught EXCEPT ![i].at = "over", ![i].proto = ""]}
      BY <1>4 DEF StoreCallback
    <3>2. Arrived
      BY DEF CbBase
    <3>3. caught[i] \in [at : {"none", "store", "notify", "over"},
                         proto : {"", "dns", "http"}, token : Labels]
      BY <3>2 DEF Arrived
    <3>4. [caught[i] EXCEPT !.at = "over", !.proto = ""] \in
            [at : {"none", "store", "notify", "over"},
             proto : {"", "dns", "http"}, token : Labels]
      BY <3>3
    <3>5. [caught[i] EXCEPT !.at = "notify"] \in
            [at : {"none", "store", "notify", "over"},
             proto : {"", "dns", "http"}, token : Labels]
      BY <3>3
    <3>6. caught' \in {[caught EXCEPT ![i] = [caught[i] EXCEPT !.at = "notify"]],
                       [caught EXCEPT ![i] = [caught[i] EXCEPT !.at = "over", !.proto = ""]]}
      BY <1>4, <3>2, <3>3 DEF StoreCallback, Arrived
    <3> QED
      BY <1>2, <3>2, <3>4, <3>5, <3>6 DEF Arrived
  <2>2. Stored1'
    BY <1>4 DEF StoreCallback, Stored1, CbBase
  <2>3. Enabled'
    BY <1>4 DEF StoreCallback, CbOff, CbBase, Enabled
  <2> QED
    BY <1>1, <1>2, <2>1, <2>2, <2>3 DEF CbBase, CbOff
<1>5. CASE NotifyCallback(i)
  <2>1. Arrived'
    <3> DEFINE new == [caught[i] EXCEPT !.at = "over", !.proto = ""]
    <3>1. caught[i] \in [at : {"none", "store", "notify", "over"},
                         proto : {"", "dns", "http"}, token : Labels]
      BY <1>2 DEF Arrived, CbBase
    <3>2. new \in [at : {"none", "store", "notify", "over"},
                   proto : {"", "dns", "http"}, token : Labels]
      BY <3>1
    <3>3. caught' = [caught EXCEPT ![i] = new]
      BY <1>5, <3>1 DEF NotifyCallback
    <3> HIDE DEF new
    <3> QED
      BY <1>2, <3>2, <3>3 DEF Arrived, CbBase
  <2>2. Stored1'
    <3>1. wire \in Seq(Caught)
      BY DEF Stored1, CbBase
    <3>2. Append(wire, i) \in Seq(Caught)
      BY <3>1
    <3> QED
      BY <1>5, <3>2 DEF NotifyCallback, Stored1, CbBase
  <2>3. Enabled'
    BY <1>5 DEF NotifyCallback, CbOff, CbBase, Enabled
  <2> QED
    BY <1>1, <1>2, <2>1, <2>2, <2>3 DEF CbBase, CbOff
<1> QED
  BY <1>3, <1>4, <1>5

\* A call that is asked for, or read at the server, and not answered yet.
LEMMA ServerKeeps ==
  ASSUME CbBase,
         \/ CutStream
         \/ \E op \in {"fetch", "generate", "clear"} : AskOob(op)
         \/ \E call \in oobCalls :
              \/ ReadPayloads(call) \/ ReadInteractions(call) \/ DeleteInteractions(call)
              \/ \E t \in Tokens : SavePayload(call, t)
  PROVE  CbBase' /\ UNCHANGED oobView
<1> USE CbAssumption
<1>1. UNCHANGED <<domain, caught, oobView>>
  BY DEF CutStream, AskOob, ReadPayloads, ReadInteractions, DeleteInteractions, SavePayload
<1>2. Arrived' /\ Listed'
  <2>1. Labels' = Labels
    BY <1>1 DEF Labels, TokenOf
  <2> QED
    BY <1>1, <2>1 DEF CbBase, Arrived, Listed
<1>3. Stored1'
  <2>1. CASE CutStream
    BY <2>1 DEF CbBase, Stored1, CutStream
  <2>2. CASE \E op \in {"fetch", "generate", "clear"} : AskOob(op)
    BY <2>2 DEF CbBase, Stored1, AskOob
  <2>3. ASSUME NEW call \in oobCalls, ReadPayloads(call) \/ ReadInteractions(call)
        PROVE  Stored1'
    BY <2>3 DEF CbBase, Stored1, ReadPayloads, ReadInteractions
  <2>4. ASSUME NEW call \in oobCalls, DeleteInteractions(call) PROVE Stored1'
    BY <2>4 DEF CbBase, Stored1, DeleteInteractions
  <2>5. ASSUME NEW call \in oobCalls, NEW t \in Tokens, SavePayload(call, t) PROVE Stored1'
    BY <2>5 DEF CbBase, Stored1, SavePayload
  <2> QED
    BY <2>1, <2>2, <2>3, <2>4, <2>5
<1>4. CbOff'
  BY <1>1 DEF CbBase, CbOff, Enabled, CutStream, AskOob, ReadPayloads, ReadInteractions,
              DeleteInteractions, SavePayload
<1>5. OobCalls' /\ Minted'
  <2>1. CASE CutStream
    BY <2>1 DEF CutStream, CbBase, OobCalls, Minted
  <2>2. ASSUME NEW op \in {"fetch", "generate", "clear"}, AskOob(op) PROVE OobCalls' /\ Minted'
    <3>1. OobCall(op) \in [op : {"fetch", "generate", "clear"}, list : Seq(Caught),
                          at : {"sent", "listed", "counted", "both"},
                          counts : Counts, token : Tokens \cup {""}]
      BY Nothing DEF OobCall
    <3>2. OobCall(op).at = "sent"
      BY DEF OobCall
    <3>3. oobCalls' = oobCalls \cup {OobCall(op)}
      BY <2>2 DEF AskOob
    <3> QED
      BY <3>1, <3>2, <3>3 DEF CbBase, OobCalls, Minted
  <2>3. ASSUME NEW call \in oobCalls, ReadPayloads(call) PROVE OobCalls' /\ Minted'
    <3> DEFINE c == [t \in payloads |-> Cardinality({i \in rows : caught[i].token = t})]
    <3>1. \A t \in payloads : Cardinality({i \in rows : caught[i].token = t}) \in Nat
      <4> SUFFICES ASSUME NEW t \in payloads
                   PROVE  Cardinality({i \in rows : caught[i].token = t}) \in Nat
        OBVIOUS
      <4>1. {i \in rows : caught[i].token = t} \in SUBSET Caught
        BY DEF CbBase, Stored1
      <4>2. IsFiniteSet({i \in rows : caught[i].token = t})
        BY <4>1, FS_Subset
      <4> QED
        BY <4>2, FS_CardinalityType
    <3>2. c \in [payloads -> Nat] /\ payloads \in SUBSET Tokens
      BY <3>1 DEF CbBase, Stored1
    <3>3. c \in Counts
      BY <3>2 DEF Counts
    <3>4. oobCalls' = (oobCalls \ {call}) \cup
            {[call EXCEPT !.at = IF @ = "sent" THEN "counted" ELSE "both", !.counts = c]}
      BY <2>3 DEF ReadPayloads, Turns
    <3> HIDE DEF c
    <3>5. call.op = "fetch"
      BY <2>3 DEF ReadPayloads
    <3> QED
      BY <3>3, <3>4, <3>5 DEF CbBase, OobCalls, Minted
  <2>4. ASSUME NEW call \in oobCalls, ReadInteractions(call) PROVE OobCalls' /\ Minted'
    <3>1. NewestFirst(rows) \in Seq(Caught)
      BY Newest DEF CbBase, Stored1
    <3> QED
      BY <2>4, <3>1 DEF ReadInteractions, Turns, CbBase, OobCalls, Minted
  <2>5. ASSUME NEW call \in oobCalls, DeleteInteractions(call) PROVE OobCalls' /\ Minted'
    BY <2>5 DEF DeleteInteractions, Turns, CbBase, OobCalls, Minted
  <2>6. ASSUME NEW call \in oobCalls, NEW t \in Tokens, SavePayload(call, t)
        PROVE  OobCalls' /\ Minted'
    BY <2>6 DEF SavePayload, Turns, CbBase, OobCalls, Minted
  <2> QED
    BY <2>1, <2>2, <2>3, <2>4, <2>5, <2>6
<1> QED
  BY <1>1, <1>2, <1>3, <1>4, <1>5 DEF CbBase

\* Only an answered clear takes anything out of the list.
KeepsList ==
  \/ ToSet(oobView.shown) \subseteq ToSet(oobView'.shown)
  \/ \E call \in oobCalls : call.op = "clear" /\ call \notin oobCalls'

\* A broadcast is put in front, unless it is listed.
LEMMA BroadcastKeeps ==
  ASSUME CbBase, ShownOnce, ApplyCallback
  PROVE  CbBase' /\ ShownOnce' /\ KeepsList
<1> DEFINE i == Head(wire)
           s == oobView.shown
           t == <<i>> \o s
<1>1. /\ wire \in Seq(Caught) /\ wire # <<>> /\ wire' = Tail(wire)
      /\ UNCHANGED <<domain, payloads, rows, caught, oobCalls, missed, asked>>
  BY DEF ApplyCallback, CbBase, Stored1
<1>2. i \in Caught /\ Tail(wire) \in Seq(Caught)
  BY <1>1
<1>3. s \in Seq(Caught) /\ IsInjective(s) /\ oobView.badges \in Counts
  BY DEF CbBase, Listed, ShownOnce
<1>4. \/ oobView' = oobView /\ i \in ToSet(s)
      \/ /\ i \notin ToSet(s)
         /\ oobView'.shown = t /\ oobView' = [shown |-> t, badges |-> oobView'.badges]
         /\ oobView'.badges \in {oobView.badges}
              \cup {[oobView.badges EXCEPT ![k] = @ + 1] : k \in DOMAIN oobView.badges}
  BY DEF ApplyCallback
<1>5. /\ t \in Seq(Caught) /\ DOMAIN t = 1..(Len(s) + 1) /\ t[1] = i
      /\ \A k \in 2..(Len(s) + 1) : t[k] = s[k - 1] /\ k - 1 \in 1..Len(s)
      /\ \A k \in 1..Len(s) : t[k + 1] = s[k] /\ k + 1 \in 1..(Len(s) + 1)
  BY <1>2, <1>3
<1>6. DOMAIN s = 1..Len(s) /\ Len(s) \in Nat
  BY <1>3
<1> HIDE DEF i, s, t
<1>7. ASSUME i \notin ToSet(s) PROVE IsInjective(t)
  <2>1. \A k \in 1..Len(s) : s[k] # i
    BY <1>6, <1>7 DEF ToSet
  <2> SUFFICES ASSUME NEW j \in 1..(Len(s) + 1), NEW k \in 1..(Len(s) + 1), t[j] = t[k]
               PROVE  j = k
    BY <1>5 DEF IsInjective
  <2>2. CASE j = 1 \/ k = 1
    <3>1. j \in {1} \cup 2..(Len(s) + 1) /\ k \in {1} \cup 2..(Len(s) + 1)
      BY <1>6
    <3> QED
      BY <3>1, <2>1, <2>2, <1>5
  <2>3. CASE j # 1 /\ k # 1
    <3>1. j \in 2..(Len(s) + 1) /\ k \in 2..(Len(s) + 1)
      BY <2>3, <1>6
    <3>2. s[j - 1] = s[k - 1] /\ j - 1 \in DOMAIN s /\ k - 1 \in DOMAIN s
      BY <3>1, <1>5, <1>6
    <3>3. j - 1 = k - 1
      BY <3>2, <1>3 DEF IsInjective
    <3> QED
      BY <3>1, <3>3
  <2> QED
    BY <2>2, <2>3
<1>8. ToSet(s) \subseteq ToSet(t)
  <2> SUFFICES ASSUME NEW k \in 1..Len(s) PROVE s[k] \in ToSet(t)
    BY <1>6 DEF ToSet
  <2>1. t[k + 1] = s[k] /\ k + 1 \in DOMAIN t
    BY <1>5
  <2> QED
    BY <2>1 DEF ToSet
<1>9. ShownOnce' /\ KeepsList
  BY <1>3, <1>4, <1>7, <1>8 DEF ShownOnce, KeepsList, s
<1>10. Listed'
  <2>1. CASE oobView' = oobView
    BY <2>1 DEF CbBase, Listed
  <2>2. CASE /\ oobView' = [shown |-> t, badges |-> oobView'.badges]
             /\ oobView'.badges \in {oobView.badges}
                  \cup {[oobView.badges EXCEPT ![k] = @ + 1] : k \in DOMAIN oobView.badges}
    <3>1. PICK D \in SUBSET Tokens : oobView.badges \in [D -> Nat]
      BY <1>3 DEF Counts
    <3>2. oobView'.badges \in [D -> Nat]
      BY <2>2, <3>1
    <3>3. oobView'.badges \in Counts
      BY <3>2 DEF Counts
    <3> QED
      BY <2>2, <3>3, <1>5 DEF Listed
  <2> QED
    BY <1>4, <2>1, <2>2
<1>11. OobCalls' /\ Minted' /\ Arrived'
  <2>1. Labels' = Labels
    BY <1>1 DEF Labels, TokenOf
  <2> QED
    BY <1>1, <2>1 DEF CbBase, OobCalls, Minted, Arrived
<1>12. Stored1'
  BY <1>1, <1>2 DEF CbBase, Stored1, i
<1>13. CbOff'
  BY <1>1 DEF CbBase, CbOff, Enabled
<1> QED
  BY <1>9, <1>10, <1>11, <1>12, <1>13 DEF CbBase

\* An answer merges with what is listed; a clear empties it.
LEMMA AnswerKeeps ==
  ASSUME CbBase, ShownOnce, NEW call \in oobCalls,
         FetchAnswered(call) \/ GenerateAnswered(call) \/ ClearAnswered(call)
  PROVE  CbBase' /\ ShownOnce' /\ KeepsList
<1>1. /\ UNCHANGED <<domain, payloads, rows, caught, wire, asked>>
      /\ oobCalls' = oobCalls \ {call}
  BY DEF FetchAnswered, GenerateAnswered, ClearAnswered
<1>2. OobCalls' /\ Minted' /\ Arrived'
  <2>1. Labels' = Labels
    BY <1>1 DEF Labels, TokenOf
  <2> QED
    BY <1>1, <2>1 DEF CbBase, OobCalls, Minted, Arrived
<1>3. missed' \in BOOLEAN
  BY DEF FetchAnswered, GenerateAnswered, ClearAnswered, CbBase, Stored1
<1>4. Stored1'
  BY <1>1, <1>3 DEF CbBase, Stored1
<1>5. call.list \in Seq(Caught) /\ call.counts \in Counts /\ call.token \in Tokens \cup {""}
  BY DEF CbBase, OobCalls
<1>6. /\ oobView.shown \in Seq(Caught) /\ oobView.badges \in Counts
      /\ oobView = [shown |-> oobView.shown, badges |-> oobView.badges]
      /\ IsInjective(oobView.shown)
  BY DEF CbBase, Listed, ShownOnce
<1>7. PICK D \in SUBSET Tokens : oobView.badges \in [D -> Nat]
  BY <1>6 DEF Counts
<1>8. \A shown, badges : shown \in Seq(Caught) /\ badges \in Counts
                          /\ oobView' = [shown |-> shown, badges |-> badges] => Listed'
  BY DEF Listed
<1>9. CASE FetchAnswered(call)
  <2>1. CASE Enabled /\ oobView' = [shown |-> MergeInteractions(call.list, oobView.shown),
                                    badges |-> call.counts]
    <3> DEFINE m == ToSet(call.list) \cup ToSet(oobView.shown)
    <3>1. m \in SUBSET Caught
      <4>1. \A q \in Seq(Caught) : ToSet(q) \in SUBSET Caught
        <5> SUFFICES ASSUME NEW q \in Seq(Caught), NEW k \in DOMAIN q PROVE q[k] \in Caught
          BY DEF ToSet
        <5> QED
          OBVIOUS
      <4> QED
        BY <1>5, <1>6, <4>1
    <3>2. oobView'.shown = NewestFirst(m)
      BY <2>1 DEF MergeInteractions
    <3>3. /\ NewestFirst(m) \in Seq(Caught) /\ IsInjective(NewestFirst(m))
          /\ ToSet(NewestFirst(m)) = m
      BY <3>1, Newest
    <3>4. ShownOnce' /\ KeepsList
      BY <3>2, <3>3 DEF ShownOnce, KeepsList
    <3>5. Listed'
      BY <2>1, <3>3, <1>5, <1>8 DEF MergeInteractions
    <3>6. CbOff'
      BY <1>1, <2>1 DEF CbOff, Enabled
    <3> QED
      BY <1>2, <1>4, <3>4, <3>5, <3>6 DEF CbBase
  <2>2. CASE ~Enabled /\ oobView' = [shown |-> <<>>, badges |-> <<>>]
    <3>1. oobView.shown = <<>> /\ oobView'.shown = <<>>
      BY <2>2 DEF CbBase, CbOff
    <3>2. ShownOnce' /\ KeepsList
      BY <3>1, Nothing DEF ShownOnce, KeepsList
    <3>3. Listed'
      BY <2>2, Nothing, <1>8
    <3>4. CbOff'
      BY <1>1, <3>1 DEF CbBase, CbOff, Enabled
    <3> QED
      BY <1>2, <1>4, <3>2, <3>3, <3>4 DEF CbBase
  <2> QED
    BY <1>9, <2>1, <2>2 DEF FetchAnswered
<1>10. CASE GenerateAnswered(call)
  <2>1. oobView'.shown = oobView.shown
    BY <1>6, <1>10 DEF GenerateAnswered
  <2>2. ShownOnce' /\ KeepsList
    BY <2>1 DEF ShownOnce, KeepsList
  <2>3. CbOff'
    BY <1>1, <2>1 DEF CbBase, CbOff, Enabled
  <2>4. Listed'
    <3>1. CASE UNCHANGED oobView
      BY <3>1 DEF CbBase, Listed
    <3>2. CASE ~UNCHANGED oobView
      <4> DEFINE b == [t \in D \cup {call.token} |->
                         IF t = call.token THEN 0 ELSE oobView.badges[t]]
      <4>1. call.at = "both" /\ call.op = "generate"
        BY <1>10, <3>2 DEF GenerateAnswered
      <4>2. D \cup {call.token} \in SUBSET Tokens
        BY <4>1 DEF CbBase, Minted
      <4>3. b \in [D \cup {call.token} -> Nat]
        BY <1>7
      <4>4. b \in Counts
        BY <4>2, <4>3 DEF Counts
      <4>5. DOMAIN oobView.badges = D
        BY <1>7
      <4>6. oobView' = [oobView EXCEPT !.badges = b]
        BY <1>10, <3>2, <4>5 DEF GenerateAnswered
      <4>7. oobView' = [shown |-> oobView.shown, badges |-> b]
        BY <4>6, <1>6
      <4> QED
        BY <4>4, <4>7, <1>6, <1>8
    <3> QED
      BY <3>1, <3>2
  <2> QED
    BY <1>2, <1>4, <2>2, <2>3, <2>4 DEF CbBase
<1>11. CASE ClearAnswered(call)
  <2> DEFINE b == [t \in DOMAIN oobView.badges |-> 0]
  <2>1. oobView' = [shown |-> <<>>, badges |-> b] /\ oobView'.shown = <<>>
        /\ call.op = "clear" /\ call \notin oobCalls'
    BY <1>11 DEF ClearAnswered
  <2>2. ShownOnce' /\ KeepsList
    BY <2>1, Nothing DEF ShownOnce, KeepsList
  <2>3. b \in Counts
    <3>1. b \in [D -> Nat]
      BY <1>7
    <3> QED
      BY <3>1 DEF Counts
  <2>4. Listed'
    BY <2>1, <2>3, Nothing, <1>8
  <2>5. CbOff'
    BY <1>1, <2>1 DEF CbBase, CbOff, Enabled
  <2> QED
    BY <1>2, <1>4, <2>2, <2>4, <2>5 DEF CbBase
<1> QED
  BY <1>9, <1>10, <1>11

LEMMA CallbackStep ==
  CbBase /\ ShownOnce /\ [CbNext]_cbVars => CbBase' /\ ShownOnce' /\ (KeepsList \/ UNCHANGED cbVars)
<1> SUFFICES ASSUME CbBase, ShownOnce, [CbNext]_cbVars
             PROVE  CbBase' /\ ShownOnce' /\ (KeepsList \/ UNCHANGED cbVars)
  OBVIOUS
<1>1. CASE UNCHANGED cbVars
  <2>1. Labels' = Labels
    BY <1>1 DEF cbVars, Labels, TokenOf
  <2> QED
    BY <1>1, <2>1 DEF cbVars, CbBase, ShownOnce, OobCalls, Minted, Arrived, Listed, Stored1,
                      CbOff, Enabled
<1>2. ASSUME UNCHANGED oobView PROVE ShownOnce' /\ KeepsList
  BY <1>2 DEF ShownOnce, KeepsList
<1>3. ASSUME NEW i \in Caught,
             \/ \E proto \in {"dns", "http"}, name \in Names : Arrives(i, proto, name)
             \/ StoreCallback(i) \/ NotifyCallback(i)
      PROVE  CbBase' /\ ShownOnce' /\ KeepsList
  BY <1>2, <1>3, ArrivalKeeps
<1>4. ASSUME \/ CutStream
             \/ \E op \in {"fetch", "generate", "clear"} : AskOob(op)
             \/ \E call \in oobCalls :
                  \/ ReadPayloads(call) \/ ReadInteractions(call) \/ DeleteInteractions(call)
                  \/ \E t \in Tokens : SavePayload(call, t)
      PROVE  CbBase' /\ ShownOnce' /\ KeepsList
  BY <1>2, <1>4, ServerKeeps
<1>5. CASE ApplyCallback
  BY <1>5, BroadcastKeeps
<1>6. ASSUME NEW call \in oobCalls, OobAnswers(call) PROVE CbBase' /\ ShownOnce' /\ KeepsList
  BY <1>4, <1>6, AnswerKeeps DEF OobAnswers
<1> QED
  BY <1>1, <1>3, <1>4, <1>5, <1>6 DEF CbNext, CbIdle

CbInv == CbBase /\ ShownOnce

\* A reload and the live frames never list an interaction twice.
THEOREM ListedOnce == CbSpec => []ShownOnce
<1>1. CbInit => CbInv
  BY CbBaseInit DEF CbInv
<1>2. CbInv /\ [CbNext]_cbVars => CbInv'
  BY CallbackStep DEF CbInv
<1>3. CbInv => ShownOnce
  BY DEF CbInv
<1> QED
  BY <1>1, <1>2, <1>3, PTL DEF CbSpec

\* No snapshot, however old, takes a listed interaction away: only a clear does.
THEOREM LiveStays == CbSpec => LiveSurvives
<1>1. CbInit => CbInv
  BY CbBaseInit DEF CbInv
<1>2. CbInv /\ [CbNext]_cbVars => CbInv'
  BY CallbackStep DEF CbInv
<1>3. CbInv /\ [CbNext]_cbVars =>
        [\/ ToSet(oobView.shown) \subseteq ToSet(oobView'.shown)
         \/ \E call \in oobCalls : call.op = "clear" /\ call \notin oobCalls']_cbVars
  BY CallbackStep DEF CbInv, KeepsList
<1> QED
  BY <1>1, <1>2, <1>3, PTL DEF CbSpec, LiveSurvives

-----------------------------------------------------------------------------
\* TaskPage: the pane of the selected item.

Statuses == {"", "idle", "running", "over"}
Lists == UNION {[D -> Statuses] : D \in SUBSET PageItems}
Spots == PageItems \cup {NoItem}
PaneRows == [item : Spots, n : Numbers]
PageCalls ==
  [op : {"load", "refresh", "save", "start", "delete", "list"}, item : Spots, token : Nat,
   at : {"sent", "answered", "failed"}, status : Statuses, rows : SUBSET Numbers, list : Lists]
Panes ==
  [selected : Spots, token : Nat, shown : Seq(PaneRows), loading : BOOLEAN,
   loaded : BOOLEAN, busy : BOOLEAN, list : Lists]
Feed == [item : PageItems, row : 0..MaxRows, status : {"running", "over"}]
Served == [made : {"yes", "gone"}, status : {"idle", "running", "over"}, rows : SUBSET Numbers]

ServerTyped ==
  /\ kind \in Kinds /\ server \in [PageItems -> Served] /\ frames \in Seq(Feed)
  /\ pmade \in 0..MaxPageCalls
CallsTyped == pcalls \subseteq PageCalls
PaneTyped == pg \in Panes
PageTyped == ServerTyped /\ CallsTyped /\ PaneTyped

\* Rows with no numbers of their own are counted; a tab never runs and has no frames.
Counted ==
  /\ kind # "intruder" => \A i \in PageItems : \E k \in 0..MaxRows : server[i].rows = 1..k
  /\ kind = "repeater" => frames = <<>> /\ \A i \in PageItems : server[i].status # "running"

\* What a call that carries the pane's token is about.
Timely(call) == call.token = pg.token
Begins(call) == call.op \in {"save", "start"}
PageFresh ==
  \A call \in pcalls :
    /\ call.token <= pg.token
    /\ call.op \in {"load", "save", "start"} /\ Timely(call) /\ pg.selected # NoItem
         => call.item = pg.selected
    /\ call.op = "refresh" => kind = "sequencer"
    /\ call.op # "list" => call.item \in PageItems

\* One detail is asked for per selection, and nothing is started before it came.
LoadAlone ==
  \A call \in pcalls : call.op = "load" /\ Timely(call) =>
    /\ ~pg.loaded
    /\ \A other \in pcalls : other.op = "load" /\ Timely(other) => other = call
    /\ \A other \in pcalls : Begins(other) => ~Timely(other)

\* The stores that wait for a start have one under way.
AskAlone ==
  SelectsNext => \A call \in pcalls : Begins(call) =>
    /\ pg.busy
    /\ \A other \in pcalls : Begins(other) => other = call

\* A tab: what is shown and what was answered is at the server, and apart.
Entries ==
  kind = "repeater" =>
    /\ pg.selected # NoItem /\ Lives(pg.selected) =>
         \A k \in 1..Len(pg.shown) : pg.shown[k].n \in server[pg.selected].rows
    /\ \A call \in pcalls :
         /\ call.at = "answered" /\ call.op \in {"load", "start"} /\ Lives(call.item)
              => call.rows \subseteq server[call.item].rows
         /\ Begins(call) /\ Timely(call) /\ pg.selected = NoItem => pg.shown = <<>>
         /\ call.at = "answered" /\ call.op = "start" /\ Timely(call) =>
              \A k \in 1..Len(pg.shown) : pg.shown[k].n \notin call.rows

PageBase == PageTyped /\ Counted /\ PageFresh /\ LoadAlone /\ AskAlone /\ Entries

LEMMA NoList == <<>> \in Lists
<1>1. <<>> \in Seq(Statuses) /\ Len(<<>>) = 0
  BY EmptySeq
<1>2. <<>> \in [1..Len(<<>>) -> Statuses]
  BY <1>1, LenProperties
<1>3. 1..0 = {} /\ {} \in SUBSET PageItems
  OBVIOUS
<1> QED
  BY <1>1, <1>2, <1>3 DEF Lists

LEMMA PageBaseInit == PageInit => PageBase /\ RowsOfSelection /\ RowsOnce
<1> SUFFICES ASSUME PageInit PROVE PageBase /\ RowsOfSelection /\ RowsOnce
  OBVIOUS
<1>1. /\ kind \in Kinds /\ frames = <<>> /\ pcalls = {} /\ pmade = 0
      /\ pg.shown = <<>> /\ pg.selected = NoItem
      /\ server = [i \in PageItems |-> [made |-> "yes", status |-> "over", rows |-> {1}]]
  BY DEF PageInit
<1>2. MaxRows \in Nat \ {0} /\ MaxPageCalls \in Nat
  BY PageAssumption
<1>3. 1 \in Numbers /\ {1} = 1..1 /\ 1 \in 0..MaxRows
  BY <1>2 DEF Numbers
<1>4. ServerTyped
  <2>1. frames \in Seq(Feed)
    BY <1>1, EmptySeq
  <2>2. server \in [PageItems -> Served]
    BY <1>1, <1>3 DEF Served
  <2>3. pmade \in 0..MaxPageCalls
    BY <1>1, <1>2
  <2> QED
    BY <1>1, <2>1, <2>2, <2>3 DEF ServerTyped
<1>5. PaneTyped
  <2>1. <<>> \in Seq(PaneRows)
    BY EmptySeq
  <2>2. [i \in PageItems |-> "over"] \in Lists
    <3>1. [i \in PageItems |-> "over"] \in [PageItems -> Statuses]
      BY DEF Statuses
    <3> QED
      BY <3>1 DEF Lists
  <2> QED
    BY <2>1, <2>2 DEF PageInit, PaneTyped, Panes, Spots
<1>6. CallsTyped /\ PageFresh /\ LoadAlone /\ AskAlone /\ Entries
  BY <1>1 DEF CallsTyped, PageFresh, LoadAlone, AskAlone, Entries
<1>7. Counted
  BY <1>1, <1>3 DEF Counted
<1>8. RowsOfSelection /\ RowsOnce
  <2>1. Len(pg.shown) = 0 /\ IsInjective(pg.shown)
    BY <1>1, EmptySeq, Nothing
  <2> QED
    BY <1>1, <2>1 DEF RowsOfSelection, RowsOnce
<1> QED
  BY <1>4, <1>5, <1>6, <1>7, <1>8 DEF PageBase, PageTyped

\* The rows of an answer come in the order of their numbers.
LEMMA InOrderRows ==
  ASSUME NEW S \in SUBSET Numbers, NEW i \in Spots
  PROVE  /\ InOrder(S, i) \in Seq(PaneRows)
         /\ \A k \in 1..Len(InOrder(S, i)) : /\ InOrder(S, i)[k].item = i
                                             /\ InOrder(S, i)[k].n \in S
         /\ \A j, k \in 1..Len(InOrder(S, i)) : j < k => InOrder(S, i)[j].n < InOrder(S, i)[k].n
         /\ IsInjective(InOrder(S, i))
<1> DEFINE n == Cardinality(S)
           w == ByNumber(S)
           t == InOrder(S, i)
<1>1. IsFiniteSet(S) /\ S \in SUBSET Nat /\ n \in Nat
  <2>1. MaxRows \in Nat
    BY PageAssumption
  <2>2. IsFiniteSet(Numbers) /\ Numbers \subseteq Nat
    BY <2>1, UpTo DEF Numbers
  <2> QED
    BY <2>2, FS_Subset, FS_CardinalityType
<1>2. PICK s \in [1..n -> S] : \A j, k \in 1..n : j < k => s[j] < s[k]
  BY <1>1, Enumerated
<1> HIDE DEF n
<1>3. \A j, k \in 1..n : j # k => s[j] # s[k]
  <2> SUFFICES ASSUME NEW j \in 1..n, NEW k \in 1..n, j # k PROVE s[j] # s[k]
    OBVIOUS
  <2>1. s[j] \in Nat /\ s[k] \in Nat
    BY <1>1, <1>2
  <2>3. j < k \/ k < j
    BY <1>1
  <2> QED
    BY <2>1, <2>3, <1>2
<1>4. s \in SetToSeqs(S) /\ \A j, k \in DOMAIN s : j < k => s[j] < s[k]
  BY <1>2, <1>3 DEF SetToSeqs, n
<1>5. w \in SetToSeqs(S) /\ \A j, k \in DOMAIN w : j < k => w[j] < w[k]
  BY <1>4 DEF ByNumber
<1> HIDE DEF w
<1>6. w \in [1..n -> S] /\ \A j, k \in 1..n : j < k => w[j] < w[k]
  BY <1>5 DEF SetToSeqs, n
<1>7. t = [k \in 1..n |-> Row(i, w[k])]
  BY DEF InOrder, n, w
<1> HIDE DEF t
<1>8. \A k \in 1..n : t[k] = [item |-> i, n |-> w[k]] /\ t[k] \in PaneRows
  BY <1>6, <1>7 DEF Row, PaneRows
<1>9. t \in [1..n -> PaneRows]
  BY <1>7, <1>8
<1>10. t \in Seq(PaneRows) /\ Len(t) = n /\ DOMAIN t = 1..n
  <2>1. t \in Seq(PaneRows)
    BY <1>1, <1>9, SeqDef
  <2> QED
    BY <1>1, <1>9, <2>1
<1>11. \A k \in 1..n : t[k].item = i /\ t[k].n = w[k] /\ w[k] \in S /\ w[k] \in Nat
  <2> SUFFICES ASSUME NEW k \in 1..n
               PROVE  t[k].item = i /\ t[k].n = w[k] /\ w[k] \in S /\ w[k] \in Nat
    OBVIOUS
  <2>1. w[k] \in S
    BY <1>6
  <2> QED
    <3>1. t[k] = [item |-> i, n |-> w[k]]
      BY <1>8
    <3>2. w[k] \in Nat
      BY <1>1, <2>1
    <3> QED
      BY <2>1, <3>1, <3>2
<1>12. \A j, k \in 1..n : j < k => t[j].n < t[k].n
  BY <1>6, <1>11
<1>13. IsInjective(t)
  <2> SUFFICES ASSUME NEW j \in 1..n, NEW k \in 1..n, t[j] = t[k], j # k PROVE FALSE
    BY <1>10 DEF IsInjective
  <2>1. j < k \/ k < j
    BY <1>1
  <2> QED
    BY <2>1, <1>11, <1>12
<1> QED
  BY <1>10, <1>11, <1>12, <1>13 DEF t

\* A call that is answered stays what it was about.
LEMMA CallMoves ==
  ASSUME CallsTyped, PageFresh, LoadAlone, AskAlone, UNCHANGED <<kind, pg>>,
         NEW call \in pcalls, NEW new \in PageCalls,
         new.op = call.op, new.item = call.item, new.token = call.token,
         pcalls' = (pcalls \ {call}) \cup {new}
  PROVE  CallsTyped' /\ PageFresh' /\ LoadAlone' /\ AskAlone'
<1>1. CallsTyped'
  BY DEF CallsTyped
<1>2. PageFresh'
  BY DEF PageFresh, Timely
<1>3. \A c \in pcalls' : \E d \in pcalls : /\ d.op = c.op /\ d.item = c.item /\ d.token = c.token
                                        /\ c = IF d = call THEN new ELSE d
  OBVIOUS
<1>4. LoadAlone'
  <2> SUFFICES ASSUME NEW c \in pcalls', c.op = "load", c.token = pg.token,
                      NEW e \in pcalls'
               PROVE  /\ ~pg.loaded
                      /\ e.op = "load" /\ e.token = pg.token => e = c
                      /\ Begins(e) => e.token # pg.token
    BY DEF LoadAlone, Timely, Begins
  <2>1. PICK d \in pcalls : /\ d.op = c.op /\ d.item = c.item /\ d.token = c.token
                           /\ c = IF d = call THEN new ELSE d
    BY <1>3
  <2>2. PICK f \in pcalls : /\ f.op = e.op /\ f.item = e.item /\ f.token = e.token
                           /\ e = IF f = call THEN new ELSE f
    BY <1>3
  <2>3. Begins(f) <=> Begins(e)
    BY <2>2 DEF Begins
  <2> QED
    BY <2>1, <2>2, <2>3 DEF LoadAlone, Timely
<1>5. AskAlone'
  <2> SUFFICES ASSUME SelectsNext, NEW c \in pcalls', Begins(c), NEW e \in pcalls'
               PROVE  pg.busy /\ (Begins(e) => e = c)
    BY DEF AskAlone, SelectsNext, Begins
  <2>1. PICK d \in pcalls : /\ d.op = c.op /\ d.item = c.item /\ d.token = c.token
                           /\ c = IF d = call THEN new ELSE d
    BY <1>3
  <2>2. PICK f \in pcalls : /\ f.op = e.op /\ f.item = e.item /\ f.token = e.token
                           /\ e = IF f = call THEN new ELSE f
    BY <1>3
  <2>3. (Begins(f) <=> Begins(e)) /\ Begins(d)
    BY <2>1, <2>2 DEF Begins
  <2> QED
    BY <2>1, <2>2, <2>3 DEF AskAlone
<1> QED
  BY <1>1, <1>2, <1>4, <1>5

\* The run of an item goes on, and its rows and its end are announced.
LEMMA RunKeeps ==
  ASSUME PageBase, NEW i, (i \in PageItems /\ (Produce(i) \/ Finish(i))) \/ Reconnect
  PROVE  PageBase' /\ UNCHANGED <<kind, pg>>
<1>1. UNCHANGED <<kind, pcalls, pg, pmade>>
  BY DEF Produce, Finish, Reconnect
<1>2. CallsTyped' /\ PaneTyped' /\ PageFresh' /\ LoadAlone' /\ AskAlone'
  BY <1>1 DEF PageBase, PageTyped, CallsTyped, PaneTyped, PageFresh, LoadAlone, AskAlone, Timely,
              Begins, SelectsNext
<1>3. /\ i \in PageItems => server[i] \in Served
      /\ server \in [PageItems -> Served] /\ DOMAIN server = PageItems /\ frames \in Seq(Feed)
  BY DEF PageBase, PageTyped, ServerTyped
<1>4. MaxRows \in Nat \ {0} /\ Numbers = 1..MaxRows
  BY PageAssumption DEF Numbers
<1>5. CASE i \in PageItems /\ Produce(i)
  <2>0. i \in PageItems /\ server[i] \in Served
    BY <1>3, <1>5
  <2>1. PICK n \in NewRows(server[i].rows) :
          /\ server' = [server EXCEPT ![i].rows = @ \cup {n}]
          /\ frames' = Append(frames, [item |-> i, row |-> n, status |-> "running"])
    BY <1>5 DEF Produce
  <2>2. n \in Numbers /\ kind # "repeater"
    BY <1>5 DEF Produce, NewRows
  <2>3. server' = [server EXCEPT ![i] = [server[i] EXCEPT !.rows = server[i].rows \cup {n}]]
    BY <1>3, <2>1
  <2>4. [server[i] EXCEPT !.rows = server[i].rows \cup {n}] \in Served
    BY <2>0, <2>2 DEF Served
  <2>5. [item |-> i, row |-> n, status |-> "running"] \in Feed
    BY <1>4, <2>0, <2>2 DEF Feed
  <2>6. ServerTyped'
    BY <1>1, <1>3, <2>0, <2>1, <2>3, <2>4, <2>5 DEF PageBase, PageTyped, ServerTyped
  <2>7. Counted'
    <3> SUFFICES ASSUME kind # "intruder", NEW j \in PageItems
                 PROVE  \E k \in 0..MaxRows : server'[j].rows = 1..k
      BY <1>1, <2>2 DEF Counted
    <3>1. PICK k \in 0..MaxRows : server[j].rows = 1..k
      BY DEF PageBase, Counted
    <3>2. CASE j = i
      <4>1. Cardinality(1..k) = k
        BY <1>4, UpTo
      <4>2. n = k + 1
        BY <3>1, <3>2, <4>1 DEF NewRows
      <4>3. server'[j].rows = 1..k \cup {n}
        BY <1>3, <2>3, <3>1, <3>2
      <4>4. k + 1 \in 0..MaxRows /\ 1..k \cup {k + 1} = 1..(k + 1)
        BY <1>4, <2>2, <4>2
      <4> QED
        BY <4>2, <4>3, <4>4
    <3>3. CASE j # i
      <4>1. server'[j] = server[j]
        BY <1>3, <2>3, <3>3
      <4> QED
        BY <3>1, <4>1
    <3> QED
      BY <3>2, <3>3
  <2>8. Entries'
    BY <1>1, <2>2 DEF Entries
  <2> QED
    BY <1>1, <1>2, <2>6, <2>7, <2>8 DEF PageBase, PageTyped
<1>6. CASE i \in PageItems /\ Finish(i)
  <2>0. i \in PageItems /\ server[i] \in Served
    BY <1>3, <1>6
  <2>1. /\ server' = [server EXCEPT ![i] = [server[i] EXCEPT !.status = "over"]]
        /\ frames' = Append(frames, [item |-> i, row |-> 0, status |-> "over"])
        /\ server[i].status = "running"
    BY <1>3, <1>6 DEF Finish
  <2>2. kind # "repeater"
    BY <2>0, <2>1 DEF PageBase, Counted
  <2>3. [server[i] EXCEPT !.status = "over"] \in Served
    BY <2>0 DEF Served
  <2>4. [item |-> i, row |-> 0, status |-> "over"] \in Feed
    BY <1>4, <2>0 DEF Feed
  <2>5. ServerTyped'
    BY <1>1, <1>3, <2>0, <2>1, <2>3, <2>4 DEF PageBase, PageTyped, ServerTyped
  <2>6. \A j \in PageItems : server'[j].rows = server[j].rows
    BY <1>3, <2>0, <2>1 DEF Served
  <2>7. Counted' /\ Entries'
    BY <1>1, <2>2, <2>6 DEF PageBase, Counted, Entries
  <2> QED
    BY <1>1, <1>2, <2>5, <2>7 DEF PageBase, PageTyped
<1>7. CASE Reconnect
  <2>1. frames' = <<>> /\ UNCHANGED server /\ <<>> \in Seq(Feed)
    BY <1>7, EmptySeq DEF Reconnect
  <2>2. ServerTyped' /\ Counted'
    BY <1>1, <2>1 DEF PageBase, PageTyped, ServerTyped, Counted
  <2>3. Entries'
    BY <1>1, <2>1 DEF PageBase, Entries, Timely, Begins, Lives
  <2> QED
    BY <1>1, <1>2, <2>2, <2>3 DEF PageBase, PageTyped
<1> QED
  BY <1>1, <1>5, <1>6, <1>7

\* The server answers a call, or the call fails.
LEMMA PageServedKeeps ==
  ASSUME PageBase, NEW call \in pcalls,
         \/ ServeRead(call) \/ ServeStart(call) \/ ServeSend(call) \/ ServeDelete(call)
         \/ ServeFailure(call)
  PROVE  PageBase' /\ UNCHANGED <<kind, pg>>
<1>1. UNCHANGED <<kind, frames, pg, pmade>> /\ call.at = "sent"
  BY DEF ServeRead, ServeStart, ServeSend, ServeDelete, ServeFailure
<1>2. call \in PageCalls /\ pcalls \subseteq PageCalls /\ server \in [PageItems -> Served]
  BY DEF PageBase, PageTyped, ServerTyped, CallsTyped
<1>3. PaneTyped'
  BY <1>1 DEF PageBase, PageTyped, PaneTyped
<1>4. \A new \in PageCalls :
        new.op = call.op /\ new.item = call.item /\ new.token = call.token
        /\ pcalls' = (pcalls \ {call}) \cup {new}
          => CallsTyped' /\ PageFresh' /\ LoadAlone' /\ AskAlone'
  BY <1>1, CallMoves DEF PageBase, PageTyped
<1>5. \A i \in PageItems : server[i] \in Served /\ server[i].status \in Statuses
  BY <1>2 DEF Served, Statuses
<1>6. ASSUME UNCHANGED server PROVE ServerTyped' /\ Counted'
  BY <1>1, <1>6 DEF PageBase, PageTyped, ServerTyped, Counted
<1>7. \A i \in PageItems, s \in Served : server' = [server EXCEPT ![i] = s] => ServerTyped'
  BY <1>1, <1>2 DEF PageBase, PageTyped, ServerTyped
<1>8. call.op # "list" => call.item \in PageItems
  BY DEF PageBase, PageFresh
<1>10. ASSUME NEW s \in Served, s.status \in Statuses
       PROVE  /\ Answered(call, s) \in PageCalls
              /\ Answered(call, s).op = call.op /\ Answered(call, s).item = call.item
              /\ Answered(call, s).token = call.token /\ Answered(call, s).rows = s.rows
  BY <1>2, <1>10 DEF Answered, PageCalls, Served
<1>11. ASSUME NEW new \in PageCalls, new.op = call.op, new.item = call.item,
              new.token = call.token, pcalls' = (pcalls \ {call}) \cup {new},
              \A i \in PageItems : Lives(i)' => Lives(i) /\ server[i].rows \subseteq server'[i].rows,
              new.at = "answered" /\ new.op \in {"load", "start"} /\ Lives(new.item)'
                => new.rows \subseteq server'[new.item].rows,
              new.at = "answered" /\ new.op = "start" /\ Timely(new) /\ kind = "repeater" =>
                \A k \in 1..Len(pg.shown) : pg.shown[k].n \notin new.rows
       PROVE  Entries'
  <2> SUFFICES ASSUME kind = "repeater" PROVE Entries'
    BY <1>1 DEF Entries
  <2>1. pg.selected \in Spots
    BY DEF PageBase, PageTyped, PaneTyped, Panes
  <2>2. ASSUME pg.selected # NoItem, server'[pg.selected].made = "yes", NEW k \in 1..Len(pg.shown)
        PROVE  pg.shown[k].n \in server'[pg.selected].rows
    <3>1. pg.selected \in PageItems
      BY <2>1, <2>2 DEF Spots
    <3>2. Lives(pg.selected) /\ server[pg.selected].rows \subseteq server'[pg.selected].rows
      BY <1>11, <2>2, <3>1 DEF Lives
    <3> QED
      BY <2>2, <3>2 DEF PageBase, Entries
  <2>3. ASSUME NEW c \in pcalls', c # new
        PROVE  /\ c.at = "answered" /\ c.op \in {"load", "start"} /\ Lives(c.item)'
                    => c.rows \subseteq server'[c.item].rows
               /\ Begins(c) /\ Timely(c) /\ pg.selected = NoItem => pg.shown = <<>>
               /\ c.at = "answered" /\ c.op = "start" /\ Timely(c) =>
                    \A k \in 1..Len(pg.shown) : pg.shown[k].n \notin c.rows
    <3>1. c \in pcalls
      BY <1>11, <2>3
    <3>2. c.op \in {"load", "start"} => c.item \in PageItems
      BY <3>1 DEF PageBase, PageFresh
    <3> QED
      BY <1>11, <3>1, <3>2 DEF PageBase, Entries
  <2>4. Begins(new) /\ Timely(new) /\ pg.selected = NoItem => pg.shown = <<>>
    BY <1>11 DEF PageBase, Entries, Begins, Timely
  <2> QED
    BY <1>1, <1>11, <2>2, <2>3, <2>4 DEF Entries, Begins, Timely, Lives
<1>12. ASSUME UNCHANGED server, NEW new \in PageCalls, new.op = call.op, new.item = call.item,
              new.token = call.token, pcalls' = (pcalls \ {call}) \cup {new},
              new.at = "answered" => new.op # "start" /\ (new.op = "load" => new.rows = server[new.item].rows)
       PROVE  PageBase'
  <2>1. Entries'
    BY <1>11, <1>12 DEF Lives
  <2> QED
    BY <1>3, <1>4, <1>6, <1>12, <2>1 DEF PageBase, PageTyped
<1>13. CASE ServeRead(call)
  <2>1. CASE /\ call.op \in {"load", "refresh", "save"}
             /\ pcalls' = (pcalls \ {call}) \cup {Answered(call, server[call.item])}
             /\ UNCHANGED server
    <3>1. call.item \in PageItems
      BY <1>8, <2>1
    <3> QED
      BY <1>1, <1>5, <1>10, <1>12, <2>1, <3>1
  <2>2. CASE /\ call.op = "list"
             /\ pcalls' = (pcalls \ {call}) \cup {[call EXCEPT !.at = "answered", !.list = Snapshot]}
             /\ UNCHANGED server
    <3> DEFINE new == [call EXCEPT !.at = "answered", !.list = Snapshot]
    <3>1. Snapshot \in [{j \in PageItems : Lives(j)} -> Statuses]
      BY <1>5 DEF Snapshot
    <3>2. Snapshot \in Lists
      BY <3>1 DEF Lists
    <3>3. new \in PageCalls /\ new.op = call.op /\ new.item = call.item /\ new.token = call.token
      BY <1>2, <3>2 DEF PageCalls
    <3> HIDE DEF new
    <3> QED
      BY <1>1, <1>12, <2>2, <3>3 DEF new
  <2> QED
    BY <1>13, <2>1, <2>2 DEF ServeRead, Changes
<1>14. CASE ServeFailure(call)
  <2> DEFINE new == [call EXCEPT !.at = "failed"]
  <2>1. pcalls' = (pcalls \ {call}) \cup {new} /\ UNCHANGED server
    BY <1>14 DEF ServeFailure, Changes
  <2>2. /\ new \in PageCalls /\ new.op = call.op /\ new.item = call.item /\ new.token = call.token
        /\ new.at = "failed"
    BY <1>2 DEF PageCalls
  <2> HIDE DEF new
  <2> QED
    BY <1>1, <1>12, <2>1, <2>2
<1>15. CASE ServeStart(call)
  <2> DEFINE i == call.item
             begun == [server[i] EXCEPT !.status = "running",
                                        !.rows = IF kind = "scanner" THEN @ ELSE {}]
  <2>1. /\ call.op = "start" /\ kind # "repeater" /\ server' = [server EXCEPT ![i] = begun]
        /\ pcalls' = (pcalls \ {call}) \cup {Answered(call, begun)}
    BY <1>15 DEF ServeStart, Changes
  <2>2. i \in PageItems
    BY <1>8, <2>1
  <2>3. begun \in Served /\ begun.status \in Statuses
        /\ (begun.rows = {} \/ begun.rows = server[i].rows)
    BY <1>2, <2>2 DEF Served, Statuses
  <2> HIDE DEF begun, i
  <2>4. ServerTyped'
    BY <1>7, <2>1, <2>2, <2>3
  <2>5. Counted'
    <3>1. MaxRows \in Nat /\ 0 \in 0..MaxRows /\ 1..0 = {}
      BY PageAssumption
    <3> SUFFICES ASSUME kind # "intruder", NEW j \in PageItems
                 PROVE  \E k \in 0..MaxRows : server'[j].rows = 1..k
      BY <1>1, <2>1 DEF Counted
    <3>2. PICK k \in 0..MaxRows : server[j].rows = 1..k
      BY DEF PageBase, Counted
    <3> QED
      BY <1>2, <2>1, <2>2, <2>3, <3>1, <3>2
  <2>6. CallsTyped' /\ PageFresh' /\ LoadAlone' /\ AskAlone'
    BY <1>4, <1>10, <2>1, <2>3
  <2> QED
    BY <1>1, <1>3, <2>1, <2>4, <2>5, <2>6 DEF PageBase, PageTyped, Entries
<1>16. CASE ServeDelete(call)
  <2> DEFINE i == call.item
             gone == [made |-> "gone", status |-> "idle", rows |-> {}]
             new == [call EXCEPT !.at = "answered"]
  <2>1. /\ call.op = "delete" /\ server' = [server EXCEPT ![i] = gone]
        /\ pcalls' = (pcalls \ {call}) \cup {new}
    BY <1>16 DEF ServeDelete, Changes
  <2>2. i \in PageItems
    BY <1>8, <2>1
  <2>3. gone \in Served /\ gone.made = "gone" /\ gone.rows = {} /\ gone.status = "idle"
    BY DEF Served
  <2>4. new \in PageCalls /\ new.op = call.op /\ new.item = call.item /\ new.token = call.token
    BY <1>2 DEF PageCalls
  <2> HIDE DEF gone, i, new
  <2>5. ServerTyped'
    BY <1>7, <2>1, <2>2, <2>3
  <2>6. Counted'
    <3>1. MaxRows \in Nat /\ 0 \in 0..MaxRows /\ 1..0 = {}
      BY PageAssumption
    <3>2. \A j \in PageItems : server'[j] = IF j = i THEN gone ELSE server[j]
      BY <1>2, <2>1, <2>2
    <3>3. kind # "intruder" => \A j \in PageItems : \E k \in 0..MaxRows : server'[j].rows = 1..k
      BY <2>3, <3>1, <3>2 DEF PageBase, Counted
    <3>4. kind = "repeater" => frames' = <<>> /\ \A j \in PageItems : server'[j].status # "running"
      BY <1>1, <2>3, <3>2 DEF PageBase, Counted
    <3> QED
      BY <1>1, <3>3, <3>4 DEF Counted
  <2>7. \A j \in PageItems : Lives(j)' => Lives(j) /\ server[j].rows \subseteq server'[j].rows
    BY <1>2, <2>1, <2>2, <2>3 DEF Lives
  <2>8. Entries'
    BY <1>11, <2>1, <2>4, <2>7
  <2>9. CallsTyped' /\ PageFresh' /\ LoadAlone' /\ AskAlone'
    BY <1>4, <2>1, <2>4
  <2> QED
    BY <1>1, <1>3, <2>5, <2>6, <2>8, <2>9 DEF PageBase, PageTyped
<1>17. CASE ServeSend(call)
  <2> DEFINE i == call.item
  <2>1. PICK n \in NewRows(server[i].rows) :
          /\ server' = [server EXCEPT ![i].rows = @ \cup {n}]
          /\ pcalls' = (pcalls \ {call}) \cup {[call EXCEPT !.at = "answered", !.rows = {n}]}
    BY <1>17 DEF ServeSend, Changes
  <2>2. call.op = "start" /\ kind = "repeater" /\ Lives(i) /\ n \in Numbers
    BY <1>17 DEF ServeSend, NewRows
  <2>3. i \in PageItems
    BY <1>8, <2>2
  <2> DEFINE new == [call EXCEPT !.at = "answered", !.rows = {n}]
             more == [server[i] EXCEPT !.rows = server[i].rows \cup {n}]
  <2>4. /\ new \in PageCalls /\ new.op = call.op /\ new.item = call.item /\ new.token = call.token
        /\ new.rows = {n}
    BY <1>2, <2>2 DEF PageCalls
  <2>5. server' = [server EXCEPT ![i] = more]
    BY <1>2, <2>1
  <2>6. /\ more \in Served /\ more.rows = server[i].rows \cup {n}
        /\ more.status = server[i].status /\ more.made = server[i].made
    BY <1>2, <2>2, <2>3 DEF Served
  <2>7. pcalls' = (pcalls \ {call}) \cup {new}
    BY <2>1
  <2>8. PICK k \in 0..MaxRows : server[i].rows = 1..k
    BY <2>2, <2>3 DEF PageBase, Counted
  <2>9. MaxRows \in Nat /\ Numbers = 1..MaxRows
    BY PageAssumption DEF Numbers
  <2>10. n = k + 1
    <3>1. Cardinality(server[i].rows) = k
      BY <2>8, <2>9, UpTo
    <3> QED
      BY <2>2, <3>1 DEF NewRows
  <2>11. n \notin server[i].rows /\ more.rows = 1..(k + 1) /\ k + 1 \in 0..MaxRows
    BY <2>2, <2>6, <2>8, <2>9, <2>10
  <2> HIDE DEF new, more, i
  <2>12. \A j \in PageItems : server'[j] = IF j = i THEN more ELSE server[j]
    BY <1>2, <2>3, <2>5
  <2>13. ServerTyped'
    BY <1>7, <2>3, <2>5, <2>6
  <2>14. Counted'
    BY <1>1, <2>2, <2>3, <2>6, <2>11, <2>12 DEF PageBase, Counted
  <2>15. CallsTyped' /\ PageFresh' /\ LoadAlone' /\ AskAlone'
    BY <1>4, <2>4, <2>7
  <2>16. ASSUME Timely(new), NEW m \in 1..Len(pg.shown) PROVE pg.shown[m].n # n
    <3>1. Timely(call) /\ Begins(call)
      BY <2>2, <2>4, <2>16 DEF Timely, Begins
    <3>2. CASE pg.selected = NoItem
      <4>1. pg.shown = <<>>
        BY <2>2, <3>1, <3>2 DEF PageBase, Entries
      <4> QED
        BY <4>1, <2>16, EmptySeq
    <3>3. CASE pg.selected # NoItem
      <4>1. i = pg.selected
        BY <2>2, <3>1, <3>3 DEF PageBase, PageFresh, i
      <4>2. pg.shown[m].n \in server[i].rows
        BY <2>2, <3>3, <4>1 DEF PageBase, Entries
      <4> QED
        BY <2>11, <4>2
    <3> QED
      BY <3>2, <3>3
  <2>17. \A j \in PageItems : Lives(j)' => Lives(j) /\ server[j].rows \subseteq server'[j].rows
    BY <2>6, <2>12 DEF Lives
  <2>18. new.rows \subseteq server'[new.item].rows
    BY <2>3, <2>4, <2>6, <2>12 DEF i
  <2>19. Entries'
    BY <1>11, <2>4, <2>7, <2>16, <2>17, <2>18
  <2> QED
    BY <1>1, <1>3, <2>13, <2>14, <2>15, <2>19 DEF PageBase, PageTyped
<1> QED
  BY <1>1, <1>13, <1>14, <1>15, <1>16, <1>17


LEMMA NoRows ==
  ASSUME pg'.shown = <<>> PROVE RowsOfSelection' /\ RowsOnce'
<1>1. Len(pg'.shown) = 0 /\ IsInjective(pg'.shown)
  BY EmptySeq, Nothing
<1> QED
  BY <1>1 DEF RowsOfSelection, RowsOnce

\* What no step of the page changes at the server.
LEMMA ServerStays ==
  ASSUME PageBase, UNCHANGED <<kind, server>>, pmade' \in 0..MaxPageCalls,
         frames' = frames \/ (kind # "repeater" /\ frames' \in Seq(Feed))
  PROVE  ServerTyped' /\ Counted'
BY DEF PageBase, PageTyped, ServerTyped, Counted

\* A selection: the calls before it are stale, and its detail is asked for.
LEMMA SelectingKeeps ==
  ASSUME PageBase, UNCHANGED <<kind, server, frames>>, pmade' \in 0..MaxPageCalls,
         NEW p \in Panes, p.token = pg.token, p.busy = pg.busy, NEW i \in PageItems,
         NEW S \in SUBSET pcalls, pg' = Selecting(p, i), pcalls' = S \cup Calls(p, i)
  PROVE  PageBase' /\ RowsOfSelection' /\ RowsOnce'
<1> DEFINE new == PCall("load", i, pg.token + 1)
<1>1. pg.token \in Nat /\ pg.busy \in BOOLEAN /\ pcalls \subseteq PageCalls
  BY DEF PageBase, PageTyped, PaneTyped, CallsTyped, Panes
<1>2. new \in PageCalls
  <2>1. i \in Spots /\ pg.token + 1 \in Nat
    BY <1>1 DEF Spots
  <2> QED
    BY <2>1, NoList DEF PCall, PageCalls, Statuses
<1>3. /\ new.op = "load" /\ new.item = i /\ new.token = pg.token + 1 /\ new.at = "sent"
      /\ pcalls' = S \cup {new}
  BY DEF PCall, Calls
<1> HIDE DEF new
<1>4. /\ pg' \in Panes /\ pg'.selected = i /\ pg'.token = pg.token + 1 /\ pg'.shown = <<>>
      /\ pg'.busy = pg.busy /\ pg'.loaded = FALSE
  <2>1. <<>> \in Seq(PaneRows)
    BY EmptySeq
  <2>2. i \in Spots
    BY DEF Spots
  <2>3. pg' = [selected |-> i, token |-> pg.token + 1, shown |-> <<>>, loading |-> TRUE,
               loaded |-> FALSE, busy |-> pg.busy, list |-> p.list]
    BY DEF Selecting, Panes
  <2>4. p.list \in Lists
    BY DEF Panes
  <2> QED
    BY <1>1, <2>1, <2>2, <2>3, <2>4 DEF Panes
<1>5. PageTyped' /\ Counted'
  BY <1>1, <1>2, <1>3, <1>4, ServerStays DEF PageTyped, CallsTyped, PaneTyped
<1>6. \A c \in pcalls' : c = new \/ (c \in pcalls /\ c.token \in Nat /\ c.token <= pg.token
                                    /\ c.token # pg'.token)
  BY <1>1, <1>3, <1>4 DEF PageBase, PageFresh, PageCalls
<1>7. PageFresh'
  BY <1>1, <1>3, <1>4, <1>6 DEF PageBase, PageFresh, Timely
<1>8. LoadAlone'
  BY <1>3, <1>4, <1>6 DEF LoadAlone, Timely, Begins
<1>9. AskAlone'
  BY <1>3, <1>4, <1>6 DEF PageBase, AskAlone, SelectsNext, Begins
<1>10. Entries'
  <2> SUFFICES ASSUME kind = "repeater" PROVE Entries'
    BY DEF Entries
  <2>1. Len(pg'.shown) = 0
    BY <1>4, EmptySeq
  <2>2. \A c \in pcalls' : c.at = "answered" /\ c.op \in {"load", "start"} /\ Lives(c.item)'
                            => c.rows \subseteq server'[c.item].rows
    BY <1>3, <1>6 DEF PageBase, Entries, Lives
  <2> QED
    BY <1>4, <2>1, <2>2 DEF Entries
<1> QED
  BY <1>4, <1>5, <1>7, <1>8, <1>9, <1>10, NoRows DEF PageBase

\* The blank pane.
LEMMA BlankPane ==
  ASSUME NEW p \in Panes
  PROVE  /\ Cleared(p) \in Panes /\ Cleared(p).selected = NoItem
         /\ Cleared(p).token \in {p.token, p.token + 1}
         /\ Cleared(p).shown = <<>> /\ Cleared(p).busy = p.busy /\ Cleared(p).loaded = FALSE
<1> DEFINE b == Blanked(p)
           t == [b EXCEPT !.token = @ + 1]
<1>1. <<>> \in Seq(PaneRows) /\ NoItem \in Spots
  BY EmptySeq DEF Spots
<1>2. b \in Panes
  BY <1>1 DEF Blanked, Panes
<1>3. /\ b.selected = NoItem /\ b.token = p.token /\ b.shown = <<>>
      /\ b.busy = p.busy /\ b.loaded = FALSE
  BY DEF Blanked, Panes
<1>4. t \in Panes /\ p.token \in Nat
  <2> HIDE DEF b
  <2> QED
    BY <1>2 DEF Panes
<1>5. /\ t.selected = NoItem /\ t.token = p.token + 1 /\ t.shown = <<>>
      /\ t.busy = p.busy /\ t.loaded = FALSE
  <2> HIDE DEF b
  <2> QED
    BY <1>2, <1>3 DEF Panes
<1>6. Cleared(p) = b \/ Cleared(p) = t
  BY DEF Cleared
<1> HIDE DEF b, t
<1> QED
  BY <1>2, <1>3, <1>4, <1>5, <1>6

LEMMA ClearedKeeps ==
  ASSUME PageBase, UNCHANGED <<kind, server, frames>>, pmade' \in 0..MaxPageCalls,
         NEW p \in Panes, p.token = pg.token, p.busy = pg.busy,
         pg' = Cleared(p), pcalls' \subseteq pcalls
  PROVE  PageBase' /\ RowsOfSelection' /\ RowsOnce'
<1>1. pg.token \in Nat /\ pg.busy \in BOOLEAN /\ pcalls \subseteq PageCalls
  BY DEF PageBase, PageTyped, PaneTyped, CallsTyped, Panes
<1>2. /\ pg' \in Panes /\ pg'.selected = NoItem /\ pg'.token \in {pg.token, pg.token + 1}
      /\ pg'.shown = <<>> /\ pg'.busy = pg.busy /\ pg'.loaded = FALSE
  BY BlankPane
<1>3. PageTyped' /\ Counted'
  BY <1>1, <1>2, ServerStays DEF PageTyped, CallsTyped, PaneTyped
<1>4. \A c \in pcalls' : /\ c \in pcalls /\ c.token \in Nat /\ c.token <= pg.token
                         /\ c.token = pg'.token => c.token = pg.token
  BY <1>1, <1>2 DEF PageBase, PageFresh, PageCalls
<1>5. PageFresh'
  BY <1>1, <1>2, <1>4 DEF PageBase, PageFresh, Timely
<1>6. LoadAlone'
  BY <1>2, <1>4 DEF PageBase, LoadAlone, Timely
<1>7. AskAlone'
  BY <1>2, <1>4 DEF PageBase, AskAlone, SelectsNext
<1>8. Entries'
  <2> SUFFICES ASSUME kind = "repeater" PROVE Entries'
    BY DEF Entries
  <2>1. Len(pg'.shown) = 0
    BY <1>2, EmptySeq
  <2>2. \A c \in pcalls' : c.at = "answered" /\ c.op \in {"load", "start"} /\ Lives(c.item)'
                            => c.rows \subseteq server'[c.item].rows
    BY <1>4 DEF PageBase, Entries, Lives
  <2> QED
    BY <1>2, <2>1, <2>2 DEF Entries
<1> QED
  BY <1>2, <1>3, <1>5, <1>6, <1>7, <1>8, NoRows DEF PageBase

\* Calls end; the pane shows the same rows of the same selection.
LEMMA PaneStays ==
  ASSUME PageBase, RowsOfSelection, RowsOnce, UNCHANGED <<kind, server>>,
         frames' = frames \/ (kind # "repeater" /\ frames' \in Seq(Feed)),
         pmade' \in 0..MaxPageCalls, pg' \in Panes, pcalls' \subseteq pcalls,
         pg'.selected = pg.selected, pg'.token = pg.token, pg'.shown = pg.shown,
         SelectsNext => (pg'.busy = pg.busy \/ \A c \in pcalls' : ~Begins(c)),
         pg'.loaded = pg.loaded
  PROVE  PageBase' /\ RowsOfSelection' /\ RowsOnce'
<1>1. PageTyped' /\ Counted'
  BY ServerStays DEF PageBase, PageTyped, CallsTyped, PaneTyped
<1>2. PageFresh'
  BY DEF PageBase, PageFresh, Timely
<1>3. LoadAlone'
  BY DEF PageBase, LoadAlone, Timely
<1>4. AskAlone'
  BY DEF PageBase, AskAlone, SelectsNext, Begins
<1>5. Entries'
  BY DEF PageBase, Entries, Timely, Lives
<1>6. RowsOfSelection' /\ RowsOnce'
  BY DEF RowsOfSelection, RowsOnce
<1> QED
  BY <1>1, <1>2, <1>3, <1>4, <1>5, <1>6 DEF PageBase

\* A call that is not for the detail.
LEMMA AskedKeeps ==
  ASSUME PageBase, RowsOfSelection, RowsOnce, UNCHANGED <<kind, server>>,
         frames' = frames \/ (kind # "repeater" /\ frames' \in Seq(Feed)),
         pmade' \in 0..MaxPageCalls, pg' \in Panes,
         NEW op \in {"refresh", "save", "start", "delete", "list"}, NEW i \in Spots,
         NEW S \in SUBSET pcalls, pcalls' = S \cup {PCall(op, i, pg.token)},
         pg'.selected = pg.selected, pg'.token = pg.token, pg'.shown = pg.shown,
         pg'.loaded = pg.loaded,
         op = "refresh" => kind = "sequencer",
         op # "list" => i \in PageItems,
         op \in {"save", "start"} =>
           /\ i = pg.selected \/ (pg.selected = NoItem /\ (kind = "repeater" => pg.shown = <<>>))
           /\ \A c \in pcalls : c.op = "load" => ~Timely(c)
           /\ \A c \in S : SelectsNext => ~Begins(c)
           /\ SelectsNext => pg'.busy,
         op \notin {"save", "start"} => pg'.busy = pg.busy
  PROVE  PageBase' /\ RowsOfSelection' /\ RowsOnce'
<1> DEFINE new == PCall(op, i, pg.token)
<1>1. pg.token \in Nat /\ pcalls \subseteq PageCalls
  BY DEF PageBase, PageTyped, PaneTyped, CallsTyped, Panes
<1>2. new \in PageCalls
  BY <1>1, NoList DEF PCall, PageCalls, Statuses
<1>3. new.op = op /\ new.item = i /\ new.token = pg.token /\ new.at = "sent"
  BY DEF PCall
<1>4. pcalls' = S \cup {new}
  OBVIOUS
<1> HIDE DEF new
<1>5. PageTyped' /\ Counted'
  BY <1>1, <1>2, <1>4, ServerStays DEF PageTyped, CallsTyped, PaneTyped
<1>6. PageFresh'
  BY <1>1, <1>3, <1>4 DEF PageBase, PageFresh, Timely
<1>7. LoadAlone'
  BY <1>3, <1>4 DEF PageBase, LoadAlone, Timely, Begins
<1>8. AskAlone'
  BY <1>3, <1>4 DEF PageBase, AskAlone, SelectsNext, Begins
<1>9. Entries'
  <2> SUFFICES ASSUME kind = "repeater" PROVE Entries'
    BY DEF Entries
  <2>1. pg'.selected # NoItem /\ server'[pg'.selected].made = "yes" =>
          \A k \in 1..Len(pg'.shown) : pg'.shown[k].n \in server'[pg'.selected].rows
    BY DEF PageBase, Entries, Lives
  <2>2. ASSUME NEW c \in pcalls', c # new
        PROVE  /\ c.at = "answered" /\ c.op \in {"load", "start"} /\ Lives(c.item)'
                    => c.rows \subseteq server'[c.item].rows
               /\ Begins(c) /\ Timely(c)' /\ pg'.selected = NoItem => pg'.shown = <<>>
               /\ c.at = "answered" /\ c.op = "start" /\ Timely(c)' =>
                    \A k \in 1..Len(pg'.shown) : pg'.shown[k].n \notin c.rows
    <3>1. c \in pcalls
      BY <1>4, <2>2
    <3> QED
      BY <3>1 DEF PageBase, Entries, Timely, Lives, Begins
  <2>3. Begins(new) /\ pg'.selected = NoItem => pg'.shown = <<>>
    <3>1. ASSUME Begins(new), pg'.selected = NoItem PROVE pg'.shown = <<>>
      <4>1. op \in {"save", "start"}
        BY <1>3, <3>1 DEF Begins
      <4>2. i \in PageItems /\ pg.selected = NoItem
        BY <4>1, <3>1
      <4> QED
        BY <4>1, <4>2, PageAssumption
    <3> QED
      BY <3>1
  <2>4. new \in pcalls' => new.at # "answered"
    BY <1>3
  <2>5. kind' = "repeater" => Entries'
    BY <1>3, <2>1, <2>2, <2>3, <2>4 DEF Entries, Lives
  <2> QED
    BY <2>5
<1>10. RowsOfSelection' /\ RowsOnce'
  BY DEF RowsOfSelection, RowsOnce
<1> QED
  BY <1>5, <1>6, <1>7, <1>8, <1>9, <1>10 DEF PageBase


PageRight == PageBase /\ RowsOfSelection /\ RowsOnce

LEMMA RoomLeft ==
  ASSUME PageBase, Room(1), pmade' = pmade + 1 PROVE pmade' \in 0..MaxPageCalls
BY PageAssumption DEF Room, PageBase, PageTyped, ServerTyped

\* The list holds items, and the first of them is one.
LEMMA FirstListed ==
  ASSUME NEW list \in Lists
  PROVE  /\ DOMAIN list \subseteq PageItems
         /\ DOMAIN list # {} => First(list) \in PageItems
         /\ \A j, status : status \in Statuses =>
              [k \in DOMAIN list |-> IF k = j THEN status ELSE list[k]] \in Lists
         /\ \A j : [k \in DOMAIN list \ {j} |-> list[k]] \in Lists
<1>1. PICK D \in SUBSET PageItems : list \in [D -> Statuses]
  BY DEF Lists
<1>2. DOMAIN list # {} => First(list) \in PageItems
  <2> SUFFICES ASSUME D # {} PROVE First(list) \in PageItems
    BY <1>1
  <2>1. D \in SUBSET Nat
    BY PageAssumption
  <2>2. \E j \in D : \A k \in D : j <= k
    BY <2>1, LeastOf
  <2>3. First(list) \in D
    BY <1>1, <2>2 DEF First
  <2> QED
    BY <2>3
<1>3. ASSUME NEW j, NEW status \in Statuses
      PROVE  [k \in DOMAIN list |-> IF k = j THEN status ELSE list[k]] \in Lists
  <2>1. [k \in DOMAIN list |-> IF k = j THEN status ELSE list[k]] \in [D -> Statuses]
    BY <1>1
  <2> QED
    BY <2>1 DEF Lists
<1>4. ASSUME NEW j PROVE [k \in DOMAIN list \ {j} |-> list[k]] \in Lists
  <2>1. [k \in DOMAIN list \ {j} |-> list[k]] \in [D \ {j} -> Statuses]
    BY <1>1
  <2>2. D \ {j} \in SUBSET PageItems
    OBVIOUS
  <2> QED
    BY <2>1, <2>2 DEF Lists
<1> QED
  BY <1>1, <1>2, <1>3, <1>4

\* A list that replaces the one of a pane.
LEMMA ListedPane ==
  ASSUME NEW p \in Panes, NEW list \in Lists
  PROVE  /\ [p EXCEPT !.list = list] \in Panes
         /\ [p EXCEPT !.list = list].selected = p.selected
         /\ [p EXCEPT !.list = list].token = p.token
         /\ [p EXCEPT !.list = list].shown = p.shown
         /\ [p EXCEPT !.list = list].loading = p.loading
         /\ [p EXCEPT !.list = list].loaded = p.loaded
         /\ [p EXCEPT !.list = list].busy = p.busy
         /\ [p EXCEPT !.list = list].list = list
BY DEF Panes

LEMMA AskingPageKeeps ==
  ASSUME PageRight,
         \/ \E i \in PageItems : Select(i) \/ Delete1(i)
         \/ Start \/ FetchAll \/ Close
  PROVE  PageRight'
<1>1. pg \in Panes /\ pg.list \in Lists /\ pg.token \in Nat /\ pg.selected \in Spots
  BY DEF PageRight, PageBase, PageTyped, PaneTyped, Panes
<1> USE DEF PageRight
<1>2. ASSUME NEW i \in PageItems, Select(i) PROVE PageRight'
  <2>1. /\ UNCHANGED <<kind, server, frames>>
        /\ pg' = Selecting(pg, i) /\ pcalls' = pcalls \cup Calls(pg, i)
    BY <1>2 DEF Select
  <2>2. pmade' \in 0..MaxPageCalls
    BY <1>2, RoomLeft DEF Select
  <2> QED
    BY <1>1, <2>1, <2>2, SelectingKeeps
<1>3. ASSUME NEW i \in PageItems, Delete1(i) PROVE PageRight'
  <2>1. /\ UNCHANGED <<kind, server, frames, pg>>
        /\ pcalls' = pcalls \cup {PCall("delete", i, pg.token)}
    BY <1>3 DEF Delete1, Ask1
  <2>2. pmade' \in 0..MaxPageCalls
    BY <1>3, RoomLeft DEF Delete1, Ask1
  <2>3. i \in Spots
    BY DEF Spots
  <2> QED
    BY <1>1, <2>1, <2>2, <2>3, AskedKeeps
<1>4. CASE FetchAll
  <2>1. /\ UNCHANGED <<kind, server, frames, pg>>
        /\ pcalls' = pcalls \cup {PCall("list", NoItem, pg.token)}
    BY <1>4 DEF FetchAll, Ask1
  <2>2. pmade' \in 0..MaxPageCalls
    BY <1>4, RoomLeft DEF FetchAll, Ask1
  <2>3. NoItem \in Spots
    BY DEF Spots
  <2> QED
    BY <1>1, <2>1, <2>2, <2>3, AskedKeeps
<1>5. CASE Close
  <2>1. UNCHANGED <<kind, server, frames, pcalls, pmade>> /\ pg' = Cleared(pg)
    BY <1>5 DEF Close
  <2>2. pmade' \in 0..MaxPageCalls
    BY <2>1 DEF PageBase, PageTyped, ServerTyped
  <2> QED
    BY <1>1, <2>1, <2>2, ClearedKeeps
<1>6. CASE Start
  <2> DEFINE op == IF SavesFirst THEN "save" ELSE "start"
  <2>1. /\ UNCHANGED <<kind, server, frames>> /\ pg.selected # NoItem /\ pg.loaded /\ ~pg.busy
        /\ pg' = [pg EXCEPT !.busy = SelectsNext]
        /\ pcalls' = pcalls \cup {PCall(op, pg.selected, pg.token)}
    BY <1>6 DEF Start, Ask1
  <2>2. pmade' \in 0..MaxPageCalls
    BY <1>6, RoomLeft DEF Start, Ask1
  <2>3. SelectsNext \in BOOLEAN
    BY DEF SelectsNext
  <2>4. /\ pg' \in Panes /\ pg'.selected = pg.selected /\ pg'.token = pg.token
        /\ pg'.shown = pg.shown /\ pg'.loaded = pg.loaded /\ pg'.busy = SelectsNext
    BY <1>1, <2>1, <2>3 DEF Panes
  <2>5. pg.selected \in PageItems
    BY <1>1, <2>1 DEF Spots
  <2>6. \A c \in pcalls : c.op = "load" => ~Timely(c)
    BY <2>1 DEF PageBase, LoadAlone
  <2>7. \A c \in pcalls : SelectsNext => ~Begins(c)
    BY <2>1 DEF PageBase, AskAlone
  <2>8. op \in {"save", "start"}
    OBVIOUS
  <2> HIDE DEF op
  <2>9. op \in {"refresh", "save", "start", "delete", "list"} /\ op # "refresh"
    BY <2>8
  <2>10. PageBase' /\ RowsOfSelection' /\ RowsOnce'
    BY <1>1, <2>1, <2>2, <2>4, <2>5, <2>6, <2>7, <2>8, <2>9, AskedKeeps
  <2> QED
    BY <2>10
<1> QED
  BY <1>2, <1>3, <1>4, <1>5, <1>6


\* One element between two sequences.
LEMMA Inserted ==
  ASSUME NEW S, NEW a \in Seq(S), NEW b \in Seq(S), NEW r \in S
  PROVE  /\ a \o <<r>> \o b \in Seq(S)
         /\ Len(a \o <<r>> \o b) = Len(a) + 1 + Len(b)
         /\ \A k \in 1..Len(a) : (a \o <<r>> \o b)[k] = a[k]
         /\ (a \o <<r>> \o b)[Len(a) + 1] = r
         /\ \A k \in 1..Len(b) : (a \o <<r>> \o b)[Len(a) + 1 + k] = b[k]
<1> DEFINE c == a \o <<r>>
<1>1. <<r>> \in Seq(S) /\ Len(<<r>>) = 1 /\ <<r>>[1] = r
  OBVIOUS
<1>2. /\ c \in Seq(S) /\ Len(c) = Len(a) + 1
      /\ \A k \in 1..Len(a) : c[k] = a[k]
      /\ c[Len(a) + 1] = r
  BY <1>1
<1> HIDE DEF c
<1> DEFINE t == c \o b
<1>3. /\ t \in Seq(S) /\ Len(t) = Len(c) + Len(b)
      /\ \A k \in 1..Len(c) : t[k] = c[k]
      /\ \A k \in 1..Len(b) : t[Len(c) + k] = b[k]
  BY <1>2
<1>4. a \o <<r>> \o b = t
  BY DEF c
<1> HIDE DEF t
<1>5. 1..Len(a) \subseteq 1..Len(c) /\ Len(a) + 1 \in 1..Len(c)
  BY <1>2
<1> QED
  BY <1>2, <1>3, <1>4, <1>5

\* A live row joins the pane once, and the rows of an attack keep their order.
LEMMA JoinedRows ==
  ASSUME pg \in Panes, RowsOnce, NEW r \in PaneRows
  PROVE  /\ Joined(r) \in Seq(PaneRows)
         /\ IsInjective(Joined(r))
         /\ kind = "intruder" =>
              \A k \in 1..(Len(Joined(r)) - 1) : Joined(r)[k].n < Joined(r)[k + 1].n
         /\ \A k \in 1..Len(Joined(r)) : Joined(r)[k] = r \/ Joined(r)[k] \in ToSet(pg.shown)
<1> DEFINE s == pg.shown
           N == Len(s)
<1>1. /\ s \in Seq(PaneRows) /\ N \in Nat /\ DOMAIN s = 1..N
      /\ \A k \in 1..N : s[k] \in PaneRows /\ s[k] \in ToSet(s)
  <2>1. s \in Seq(PaneRows)
    BY DEF Panes
  <2> QED
    BY <2>1, LenProperties DEF ToSet
<1>2. IsInjective(s)
  BY DEF RowsOnce
<1>3. \A x \in PaneRows : x.n \in Nat
  BY PageAssumption DEF PaneRows, Numbers
<1> HIDE DEF s
<1>4. CASE kind # "intruder"
  <2>1. CASE Shows(r)
    <3>1. Joined(r) = s
      BY <1>4, <2>1 DEF Joined, s
    <3> QED
      BY <1>1, <1>2, <1>4, <3>1 DEF s
  <2>2. CASE ~Shows(r)
    <3> DEFINE t == Append(s, r)
    <3>1. Joined(r) = t
      BY <1>4, <2>2 DEF Joined, s
    <3>2. /\ t \in Seq(PaneRows) /\ Len(t) = N + 1 /\ DOMAIN t = 1..(N + 1)
          /\ t[N + 1] = r /\ \A k \in 1..N : t[k] = s[k]
      BY <1>1
    <3>3. \A k \in 1..N : s[k] # r
      BY <1>1, <2>2 DEF Shows, s
    <3> HIDE DEF t
    <3>4. \A k \in 1..(N + 1) : k \in 1..N \/ k = N + 1
      BY <1>1
    <3>5. \A j, k \in 1..(N + 1) : t[j] = t[k] => j = k
      BY <1>1, <1>2, <3>2, <3>3, <3>4 DEF IsInjective
    <3>6. IsInjective(t)
      BY <3>2, <3>5 DEF IsInjective
    <3>7. \A k \in 1..(N + 1) : t[k] = r \/ t[k] \in ToSet(s)
      BY <1>1, <3>2, <3>4
    <3> QED
      BY <1>4, <3>1, <3>2, <3>6, <3>7 DEF s
  <2> QED
    BY <2>1, <2>2
<1>5. CASE kind = "intruder"
  <2>1. \A k \in 1..(N - 1) : s[k].n < s[k + 1].n
    BY <1>5 DEF RowsOnce, s
  <2>2. \A x \in Seq(PaneRows) :
          (\A k \in 1..(Len(x) - 1) : x[k].n < x[k + 1].n) => IsInjective(x)
    <3> SUFFICES ASSUME NEW x \in Seq(PaneRows), \A k \in 1..(Len(x) - 1) : x[k].n < x[k + 1].n
                 PROVE  IsInjective(x)
      OBVIOUS
    <3> DEFINE T == {d \in Nat : \A k \in 1..Len(x) : k + d + 1 \in 1..Len(x) =>
                                   x[k].n < x[k + d + 1].n}
    <3>1. Len(x) \in Nat /\ DOMAIN x = 1..Len(x) /\ \A k \in 1..Len(x) : x[k].n \in Nat
      BY <1>3, LenProperties
    <3>2. 0 \in T
      BY <3>1
    <3>3. ASSUME NEW d \in Nat, d \in T PROVE d + 1 \in T
      <4> SUFFICES ASSUME NEW k \in 1..Len(x), k + (d + 1) + 1 \in 1..Len(x)
                   PROVE  x[k].n < x[k + (d + 1) + 1].n
        OBVIOUS
      <4>1. k + d + 1 \in 1..Len(x) /\ k + d + 1 \in 1..(Len(x) - 1)
            /\ k + (d + 1) + 1 = (k + d + 1) + 1
        BY <3>1
      <4>2. x[k].n < x[k + d + 1].n /\ x[k + d + 1].n < x[(k + d + 1) + 1].n
        BY <3>3, <4>1
      <4>3. x[k].n \in Nat /\ x[k + d + 1].n \in Nat /\ x[(k + d + 1) + 1].n \in Nat
        BY <3>1, <4>1
      <4> QED
        BY <4>1, <4>2, <4>3
    <3> HIDE DEF T
    <3>4. Nat \subseteq T
      BY <3>2, <3>3, Induct
    <3>5. \A j, k \in 1..Len(x) : j < k => x[j].n < x[k].n
      <4> SUFFICES ASSUME NEW j \in 1..Len(x), NEW k \in 1..Len(x), j < k PROVE x[j].n < x[k].n
        OBVIOUS
      <4>1. k - j - 1 \in Nat /\ j + (k - j - 1) + 1 = k
        BY <3>1
      <4>2. k - j - 1 \in T
        BY <3>4, <4>1
      <4> QED
        BY <4>1, <4>2 DEF T
    <3>6. \A j, k \in 1..Len(x) : j # k => x[j] # x[k]
      <4> SUFFICES ASSUME NEW j \in 1..Len(x), NEW k \in 1..Len(x), j # k, x[j] = x[k] PROVE FALSE
        OBVIOUS
      <4>1. j < k \/ k < j
        BY <3>1
      <4>2. x[j].n < x[k].n \/ x[k].n < x[j].n
        BY <3>5, <4>1
      <4> QED
        BY <3>1, <4>2
    <3> QED
      BY <3>1, <3>6 DEF IsInjective
  <2>3. CASE \E q \in ToSet(s) : q.n = r.n
    <3> DEFINE t == [k \in 1..N |-> IF s[k].n = r.n THEN r ELSE s[k]]
    <3>1. Joined(r) = t
      BY <1>1, <1>5, <2>3 DEF Joined, s
    <3>2. t \in [1..N -> PaneRows] /\ \A k \in 1..N : t[k].n = s[k].n
      BY <1>1
    <3>3. t \in Seq(PaneRows) /\ Len(t) = N
      <4>1. t \in Seq(PaneRows)
        BY <1>1, <3>2, SeqDef
      <4> QED
        BY <1>1, <3>2, <4>1
    <3>4. \A k \in 1..N : t[k] = r \/ t[k] \in ToSet(s)
      BY <1>1
    <3> HIDE DEF t
    <3>5. \A k \in 1..(Len(t) - 1) : t[k].n < t[k + 1].n
      BY <1>1, <2>1, <3>2, <3>3
    <3>6. IsInjective(t)
      BY <2>2, <3>3, <3>5
    <3> QED
      BY <3>1, <3>3, <3>4, <3>5, <3>6 DEF s
  <2>4. CASE ~\E q \in ToSet(s) : q.n = r.n
    <3> DEFINE A == {k \in 1..(N + 1) : \A j \in k..N : s[j].n > r.n}
               p == PlaceOf(r.n)
               t == SubSeq(s, 1, p - 1) \o <<r>> \o SubSeq(s, p, N)
    <3>1. PICK m \in A : \A k \in A : m <= k
      <4>1. N + 1 \in A
        BY <1>1
      <4>2. A \in SUBSET Nat /\ A # {}
        BY <1>1, <4>1
      <4> HIDE DEF A
      <4> QED
        BY <4>2, LeastOf
    <3>2. m = 1 \/ s[m - 1].n <= r.n
      <4> SUFFICES ASSUME m # 1, ~(s[m - 1].n <= r.n) PROVE FALSE
        OBVIOUS
      <4>1. m \in 2..(N + 1) /\ m - 1 \in 1..N
        BY <1>1
      <4>2. s[m - 1].n \in Nat /\ r.n \in Nat
        BY <1>1, <1>3, <4>1
      <4>3. \A j \in (m - 1)..N : j = m - 1 \/ j \in m..N
        BY <1>1, <4>1
      <4>4. m - 1 \in A
        BY <1>1, <4>1, <4>2, <4>3
      <4> QED
        BY <3>1, <4>1, <4>4
    <3>3. /\ p \in 1..(N + 1) /\ (p = 1 \/ s[p - 1].n <= r.n)
          /\ \A j \in p..N : s[j].n > r.n
      BY <3>1, <3>2 DEF PlaceOf, s
    <3> HIDE DEF A, p
    <3>4. Joined(r) = t
      BY <1>5, <2>4 DEF Joined, InsertAt, p, s
    <3>5. /\ t \in Seq(PaneRows) /\ Len(t) = N + 1
          /\ \A k \in 1..(p - 1) : t[k] = s[k]
          /\ t[p] = r
          /\ \A k \in (p + 1)..(N + 1) : t[k] = s[k - 1]
      <4>1. p \in Nat \ {0} /\ p <= N + 1
        BY <1>1, <3>3
      <4>2. /\ SubSeq(s, 1, p - 1) \in Seq(PaneRows) /\ Len(SubSeq(s, 1, p - 1)) = p - 1
            /\ \A k \in 1..(p - 1) : SubSeq(s, 1, p - 1)[k] = s[k]
        BY <1>1, <4>1, SubSeqProperties
      <4>3. /\ SubSeq(s, p, N) \in Seq(PaneRows) /\ Len(SubSeq(s, p, N)) = N - p + 1
            /\ \A k \in 1..(N - p + 1) : SubSeq(s, p, N)[k] = s[p + k - 1]
        BY <1>1, <4>1, SubSeqProperties
      <4> DEFINE a == SubSeq(s, 1, p - 1)
                 b == SubSeq(s, p, N)
      <4>4. /\ a \in Seq(PaneRows) /\ Len(a) = p - 1 /\ \A k \in 1..(p - 1) : a[k] = s[k]
            /\ b \in Seq(PaneRows) /\ Len(b) = N - p + 1
            /\ \A k \in 1..(N - p + 1) : b[k] = s[p + k - 1]
        BY <4>2, <4>3
      <4>5. t = a \o <<r>> \o b
        OBVIOUS
      <4> HIDE DEF a, b, t
      <4>6. /\ t \in Seq(PaneRows) /\ Len(t) = N + 1 /\ t[p] = r
            /\ \A k \in 1..(p - 1) : t[k] = a[k]
            /\ \A k \in (p + 1)..(N + 1) : t[k] = b[k - p] /\ k - p \in 1..(N - p + 1)
        <5>1. /\ t \in Seq(PaneRows) /\ Len(t) = (p - 1) + 1 + (N - p + 1)
              /\ \A k \in 1..(p - 1) : t[k] = a[k]
              /\ t[(p - 1) + 1] = r
              /\ \A k \in 1..(N - p + 1) : t[(p - 1) + 1 + k] = b[k]
          <6>1. a \in Seq(PaneRows) /\ b \in Seq(PaneRows)
            BY <4>4
          <6>2. /\ t \in Seq(PaneRows) /\ Len(t) = Len(a) + 1 + Len(b)
                /\ \A k \in 1..Len(a) : t[k] = a[k]
                /\ t[Len(a) + 1] = r
                /\ \A k \in 1..Len(b) : t[Len(a) + 1 + k] = b[k]
            <7>1. r \in PaneRows
              OBVIOUS
            <7>2. /\ a \o <<r>> \o b \in Seq(PaneRows)
                  /\ Len(a \o <<r>> \o b) = Len(a) + 1 + Len(b)
                  /\ \A k \in 1..Len(a) : (a \o <<r>> \o b)[k] = a[k]
                  /\ (a \o <<r>> \o b)[Len(a) + 1] = r
                  /\ \A k \in 1..Len(b) : (a \o <<r>> \o b)[Len(a) + 1 + k] = b[k]
              BY <6>1, <7>1, Inserted
            <7> QED
              BY <4>5, <7>2, Zenon
          <6>3. Len(a) = p - 1 /\ Len(b) = N - p + 1
            BY <4>4
          <6> QED
            BY <6>2, <6>3
        <5>2. \A k \in (p + 1)..(N + 1) : k - p \in 1..(N - p + 1) /\ (p - 1) + 1 + (k - p) = k
          BY <1>1, <4>1
        <5>3. (p - 1) + 1 = p /\ (p - 1) + 1 + (N - p + 1) = N + 1
          BY <1>1, <4>1
        <5> QED
          BY <5>1, <5>2, <5>3
      <4>7. \A k \in (p + 1)..(N + 1) : t[k] = s[k - 1]
        <5> SUFFICES ASSUME NEW k \in (p + 1)..(N + 1) PROVE t[k] = s[k - 1]
          OBVIOUS
        <5>1. b[k - p] = s[p + (k - p) - 1] /\ p + (k - p) - 1 = k - 1
          BY <1>1, <4>1, <4>4
        <5> QED
          BY <4>6, <5>1
      <4> QED
        BY <4>4, <4>6, <4>7
    <3>6. \A k \in 1..N : s[k].n # r.n /\ s[k].n \in Nat /\ r.n \in Nat
      BY <1>1, <1>3, <2>4
    <3> HIDE DEF t
    <3>7. \A k \in 1..(N + 1) : t[k] = r \/ t[k] \in ToSet(s)
      <4> SUFFICES ASSUME NEW k \in 1..(N + 1) PROVE t[k] = r \/ t[k] \in ToSet(s)
        OBVIOUS
      <4>1. k \in 1..(p - 1) \/ k = p \/ (k \in (p + 1)..(N + 1) /\ k - 1 \in 1..N)
        BY <1>1, <3>3
      <4>2. k \in 1..(p - 1) => k \in 1..N
        BY <1>1, <3>3
      <4> QED
        BY <1>1, <3>5, <4>1, <4>2
    <3>8. ASSUME NEW k \in 1..N PROVE t[k].n < t[k + 1].n
      <4>1. CASE k < p - 1
        <5>1. k \in 1..(p - 1) /\ k + 1 \in 1..(p - 1) /\ k \in 1..(N - 1)
          BY <1>1, <3>3, <4>1
        <5> QED
          BY <2>1, <3>5, <5>1
      <4>2. CASE k = p - 1
        <5>1. k \in 1..(p - 1) /\ k + 1 = p /\ p # 1
          BY <1>1, <3>3, <4>2
        <5>2. t[k] = s[p - 1] /\ t[k + 1] = r /\ s[k].n <= r.n
          BY <3>3, <3>5, <4>2, <5>1
        <5> QED
          BY <3>6, <4>2, <5>2
      <4>3. CASE k = p
        <5>1. k + 1 \in (p + 1)..(N + 1) /\ (k + 1) - 1 = p /\ p \in p..N
          BY <1>1, <3>3, <4>3
        <5>2. t[k] = r /\ t[k + 1] = s[p] /\ s[p].n > r.n
          BY <3>3, <3>5, <4>3, <5>1
        <5> QED
          BY <3>6, <4>3, <5>2
      <4>4. CASE k > p
        <5>1. /\ k \in (p + 1)..(N + 1) /\ k + 1 \in (p + 1)..(N + 1) /\ k - 1 \in 1..(N - 1)
              /\ (k + 1) - 1 = (k - 1) + 1
          BY <1>1, <3>3, <4>4
        <5>2. t[k] = s[k - 1] /\ t[k + 1] = s[(k - 1) + 1]
          BY <3>5, <5>1
        <5> QED
          BY <2>1, <5>1, <5>2
      <4> QED
        BY <1>1, <3>3, <4>1, <4>2, <4>3, <4>4
    <3>9. \A k \in 1..(Len(t) - 1) : t[k].n < t[k + 1].n
      BY <1>1, <3>5, <3>8
    <3>10. IsInjective(t)
      BY <2>2, <3>5, <3>9
    <3> QED
      BY <3>4, <3>5, <3>7, <3>9, <3>10 DEF s
  <2> QED
    BY <2>3, <2>4
<1> QED
  BY <1>4, <1>5


\* An answer of the selection fills the pane.
LEMMA FillsPane ==
  ASSUME PageRight, NEW call \in pcalls, UNCHANGED <<kind, server, frames, pmade>>,
         pcalls' = pcalls \ {call}, Timely(call), call.at = "answered",
         call.op = "load" \/ (call.op = "refresh" /\ pg.selected = call.item),
         pg' \in Panes, pg'.selected = pg.selected, pg'.token = pg.token,
         pg'.busy = pg.busy, pg'.loaded = (pg.loaded \/ call.op = "load"),
         pg'.shown = InOrder(call.rows, call.item)
  PROVE  PageRight'
<1> USE DEF PageRight
<1>1. call \in PageCalls /\ call.rows \in SUBSET Numbers /\ call.item \in Spots
  BY DEF PageBase, PageTyped, CallsTyped, PageCalls
<1>2. PageTyped' /\ Counted'
  <2>1. pmade' \in 0..MaxPageCalls
    BY DEF PageBase, PageTyped, ServerTyped
  <2> QED
    BY <2>1, ServerStays DEF PageBase, PageTyped, CallsTyped, PaneTyped
<1>3. PageFresh'
  BY DEF PageBase, PageFresh, Timely
<1>4. LoadAlone'
  BY DEF PageBase, LoadAlone, Timely
<1>5. AskAlone'
  BY DEF PageBase, AskAlone, SelectsNext
<1> DEFINE t == InOrder(call.rows, call.item)
<1>6. /\ t \in Seq(PaneRows) /\ IsInjective(t)
      /\ \A k \in 1..Len(t) : t[k].item = call.item /\ t[k].n \in call.rows
      /\ \A j, k \in 1..Len(t) : j < k => t[j].n < t[k].n
  BY <1>1, InOrderRows
<1>7. pg'.shown = t /\ Len(t) \in Nat
  BY <1>6
<1> HIDE DEF t
<1>8. pg.selected # NoItem => call.item = pg.selected
  BY DEF PageBase, PageFresh
<1>9. RowsOfSelection'
  BY <1>6, <1>7, <1>8 DEF RowsOfSelection
<1>10. \A k \in 1..(Len(t) - 1) : t[k].n < t[k + 1].n
  <2>1. \A k \in 1..(Len(t) - 1) : k \in 1..Len(t) /\ k + 1 \in 1..Len(t) /\ k < k + 1
    BY <1>7
  <2> QED
    BY <1>6, <2>1
<1>11. RowsOnce'
  BY <1>6, <1>7, <1>10 DEF RowsOnce
<1>12. Entries'
  <2> SUFFICES ASSUME kind = "repeater" PROVE Entries'
    BY DEF Entries
  <2>1. call.op = "load" /\ pg'.selected = pg.selected
    BY DEF PageBase, PageFresh
  <2>2. \A c \in pcalls' : c \in pcalls /\ (Begins(c) => ~Timely(c)) /\ ~(Begins(c) /\ Timely(c)')
    BY <2>1 DEF PageBase, LoadAlone, Timely
  <2>3. pg.selected # NoItem /\ Lives(pg.selected) =>
          \A k \in 1..Len(t) : t[k].n \in server[pg.selected].rows
    BY <1>6, <1>8, <2>1 DEF PageBase, Entries
  <2>4. server'[pg'.selected].made = "yes" <=> Lives(pg.selected)
    BY DEF Lives
  <2>5. \A c \in pcalls' : c.at = "answered" /\ c.op \in {"load", "start"} /\ Lives(c.item)'
                            => c.rows \subseteq server'[c.item].rows
    BY <2>2 DEF PageBase, Entries, Lives
  <2>6. \A c \in pcalls' : c.op = "start" => Begins(c)
    BY DEF Begins
  <2> QED
    BY <1>7, <2>2, <2>3, <2>4, <2>5, <2>6 DEF Entries, Lives, Begins
<1> QED
  BY <1>2, <1>3, <1>4, <1>5, <1>9, <1>11, <1>12 DEF PageBase

\* The selection moves on, or the pane is left blank.
LEMMA MovesOnKeeps ==
  ASSUME PageRight, NEW call \in pcalls, UNCHANGED <<kind, server, frames, pmade>>,
         NEW p \in Panes, p.token = pg.token, p.busy = pg.busy, MovesOn(p, call)
  PROVE  PageRight'
<1> USE DEF PageRight
<1>1. pmade' \in 0..MaxPageCalls
  BY DEF PageBase, PageTyped, ServerTyped
<1>2. CASE SelectsNext /\ DOMAIN p.list # {}
  <2>1. p.list \in Lists
    BY DEF Panes
  <2>2. First(p.list) \in PageItems
    BY <1>2, <2>1, FirstListed
  <2>3. pg' = Selecting(p, First(p.list)) /\ pcalls' = (pcalls \ {call}) \cup Calls(p, First(p.list))
    BY <1>2 DEF MovesOn
  <2>4. pcalls \ {call} \in SUBSET pcalls
    OBVIOUS
  <2> QED
    BY <1>1, <2>2, <2>3, <2>4, SelectingKeeps
<1>3. CASE ~(SelectsNext /\ DOMAIN p.list # {})
  <2>1. pg' = Cleared(p) /\ pcalls' = pcalls \ {call}
    BY <1>3 DEF MovesOn
  <2> QED
    BY <1>1, <2>1, ClearedKeeps
<1> QED
  BY <1>2, <1>3

\* A list row is replaced.
LEMMA PatchedPane ==
  ASSUME NEW p \in Panes, NEW i, NEW status \in Statuses
  PROVE  /\ Patched(p, i, status) \in Panes
         /\ Patched(p, i, status).selected = p.selected /\ Patched(p, i, status).token = p.token
         /\ Patched(p, i, status).shown = p.shown /\ Patched(p, i, status).busy = p.busy
         /\ Patched(p, i, status).loaded = p.loaded
<1> DEFINE list == [j \in DOMAIN p.list |-> IF j = i THEN status ELSE p.list[j]]
<1>1. p.list \in Lists
  BY DEF Panes
<1>2. list \in Lists
  BY <1>1, FirstListed
<1>3. Patched(p, i, status) = [p EXCEPT !.list = list]
  BY DEF Patched
<1> HIDE DEF list
<1> QED
  BY <1>2, <1>3, ListedPane

LEMMA LoadedKeeps ==
  ASSUME PageRight, NEW call \in pcalls,
         LoadAnswered(call) \/ RefreshAnswered(call) \/ DeleteAnswered(call) \/ ListAnswered1(call)
  PROVE  PageRight'
<1> USE DEF PageRight
<1>1. /\ UNCHANGED <<kind, server, frames, pmade>> /\ pmade' \in 0..MaxPageCalls
      /\ Over(call)
  BY DEF LoadAnswered, RefreshAnswered, DeleteAnswered, ListAnswered1, Settled,
         PageBase, PageTyped, ServerTyped
<1>2. /\ pg \in Panes /\ call \in PageCalls /\ call.status \in Statuses /\ call.list \in Lists
      /\ call.rows \in SUBSET Numbers /\ call.item \in Spots
  BY DEF PageBase, PageTyped, PaneTyped, CallsTyped, PageCalls
<1>3. pcalls \ {call} \subseteq pcalls
  OBVIOUS
<1>4. InOrder(call.rows, call.item) \in Seq(PaneRows)
  BY <1>2, InOrderRows
<1> DEFINE q == Patched(pg, call.item, call.status)
<1>5. /\ q \in Panes /\ q.selected = pg.selected /\ q.token = pg.token /\ q.shown = pg.shown
      /\ q.busy = pg.busy /\ q.loaded = pg.loaded
  BY <1>2, PatchedPane
<1> HIDE DEF q
<1>6. CASE LoadAnswered(call)
  <2>1. call.op = "load" /\ pcalls' = pcalls \ {call}
    BY <1>6 DEF LoadAnswered, Settled
  <2>2. CASE Stale(call)
    <3>1. pg' = pg
      BY <1>6, <2>2 DEF LoadAnswered
    <3> QED
      BY <1>1, <1>2, <2>1, <3>1, PaneStays
  <2>3. CASE ~Stale(call) /\ call.at = "failed"
    <3>1. pg' = [pg EXCEPT !.loading = FALSE]
      BY <1>6, <2>3 DEF LoadAnswered
    <3>2. /\ pg' \in Panes /\ pg'.selected = pg.selected /\ pg'.token = pg.token
          /\ pg'.shown = pg.shown /\ pg'.busy = pg.busy /\ pg'.loaded = pg.loaded
      BY <1>2, <3>1 DEF Panes
    <3> QED
      BY <1>1, <2>1, <3>2, PaneStays
  <2>4. CASE ~Stale(call) /\ call.at # "failed"
    <3>1. pg' = [q EXCEPT !.loading = FALSE, !.loaded = TRUE,
                          !.shown = InOrder(call.rows, call.item)]
      BY <1>6, <2>4 DEF LoadAnswered, q
    <3>2. /\ pg' \in Panes /\ pg'.selected = pg.selected /\ pg'.token = pg.token
          /\ pg'.shown = InOrder(call.rows, call.item) /\ pg'.busy = pg.busy /\ pg'.loaded = TRUE
      BY <1>4, <1>5, <3>1 DEF Panes
    <3>3. Timely(call) /\ call.at = "answered"
      BY <1>1, <2>4 DEF Stale, Timely, Over
    <3>4. pg'.loaded = (pg.loaded \/ call.op = "load")
      BY <2>1, <3>2
    <3> QED
      BY <1>1, <2>1, <3>2, <3>3, <3>4, FillsPane
  <2> QED
    BY <2>2, <2>3, <2>4
<1>7. CASE RefreshAnswered(call)
  <2>1. call.op = "refresh" /\ pcalls' = pcalls \ {call}
    BY <1>7 DEF RefreshAnswered, Settled
  <2>2. CASE Stale(call) \/ pg.selected # call.item \/ call.at = "failed"
    <3>1. pg' = pg
      BY <1>7, <2>2 DEF RefreshAnswered
    <3> QED
      BY <1>1, <1>2, <2>1, <3>1, PaneStays
  <2>3. CASE ~(Stale(call) \/ pg.selected # call.item \/ call.at = "failed")
    <3>1. pg' = [q EXCEPT !.shown = InOrder(call.rows, call.item)]
      BY <1>7, <2>3 DEF RefreshAnswered, q
    <3>2. /\ pg' \in Panes /\ pg'.selected = pg.selected /\ pg'.token = pg.token
          /\ pg'.shown = InOrder(call.rows, call.item) /\ pg'.busy = pg.busy
          /\ pg'.loaded = pg.loaded
      BY <1>4, <1>5, <3>1 DEF Panes
    <3>3. Timely(call) /\ call.at = "answered" /\ pg.selected = call.item
      BY <1>1, <2>3 DEF Stale, Timely, Over
    <3>4. pg.loaded \in BOOLEAN
      BY <1>2 DEF Panes
    <3>5. pg'.loaded = (pg.loaded \/ call.op = "load")
      BY <2>1, <3>2, <3>4
    <3> QED
      BY <1>1, <2>1, <3>2, <3>3, <3>5, FillsPane
  <2> QED
    BY <2>2, <2>3
<1>8. CASE DeleteAnswered(call)
  <2> DEFINE w == Without(pg, call.item)
             list == [j \in DOMAIN pg.list \ {call.item} |-> pg.list[j]]
  <2>1. list \in Lists
    <3>1. pg.list \in Lists
      BY <1>2 DEF Panes
    <3> QED
      BY <3>1, FirstListed
  <2>2. w = [pg EXCEPT !.list = list]
    BY DEF Without
  <2> HIDE DEF list
  <2>3. /\ w \in Panes /\ w.selected = pg.selected /\ w.token = pg.token /\ w.shown = pg.shown
        /\ w.busy = pg.busy /\ w.loaded = pg.loaded
    BY <1>2, <2>1, <2>2, ListedPane
  <2> HIDE DEF w
  <2>4. CASE MovesOn(w, call)
    BY <1>1, <2>3, <2>4, MovesOnKeeps
  <2>5. CASE pg' = w /\ pcalls' = pcalls \ {call}
    BY <1>1, <2>3, <2>5, PaneStays
  <2> QED
    BY <1>8, <2>4, <2>5 DEF DeleteAnswered, w
<1>9. CASE ListAnswered1(call)
  <2> DEFINE w == [pg EXCEPT !.list = call.list]
  <2>1. /\ w \in Panes /\ w.selected = pg.selected /\ w.token = pg.token /\ w.shown = pg.shown
        /\ w.busy = pg.busy /\ w.loaded = pg.loaded
    BY <1>2, ListedPane
  <2> HIDE DEF w
  <2>2. CASE MovesOn(w, call)
    BY <1>1, <2>1, <2>2, MovesOnKeeps
  <2>3. CASE pg' = w /\ pcalls' = pcalls \ {call}
    BY <1>1, <2>1, <2>3, PaneStays
  <2>4. CASE pg' = pg /\ pcalls' = pcalls \ {call}
    BY <1>1, <1>2, <2>4, PaneStays
  <2> QED
    BY <1>9, <2>2, <2>3, <2>4 DEF ListAnswered1, w
<1> QED
  BY <1>6, <1>7, <1>8, <1>9


\* Two panes of rows that are apart make one.
LEMMA Apart ==
  ASSUME NEW s \in Seq(PaneRows), NEW t \in Seq(PaneRows), IsInjective(s), IsInjective(t),
         \A j \in 1..Len(s), k \in 1..Len(t) : s[j] # t[k]
  PROVE  IsInjective(s \o t)
<1> DEFINE u == s \o t
<1>1. /\ u \in Seq(PaneRows) /\ Len(u) = Len(s) + Len(t) /\ DOMAIN u = 1..(Len(s) + Len(t))
      /\ \A k \in 1..(Len(s) + Len(t)) : u[k] = IF k <= Len(s) THEN s[k] ELSE t[k - Len(s)]
  BY ConcatProperties
<1>2. /\ Len(s) \in Nat /\ Len(t) \in Nat /\ DOMAIN s = 1..Len(s) /\ DOMAIN t = 1..Len(t)
  OBVIOUS
<1> HIDE DEF u
<1> SUFFICES ASSUME NEW j \in 1..(Len(s) + Len(t)), NEW k \in 1..(Len(s) + Len(t)), u[j] = u[k]
             PROVE  j = k
  BY <1>1 DEF IsInjective, u
<1>3. CASE j <= Len(s) /\ k <= Len(s)
  <2>1. j \in DOMAIN s /\ k \in DOMAIN s /\ s[j] = s[k]
    BY <1>1, <1>2, <1>3
  <2> QED
    BY <2>1 DEF IsInjective
<1>4. CASE j <= Len(s) /\ ~(k <= Len(s))
  <2>1. j \in 1..Len(s) /\ k - Len(s) \in 1..Len(t) /\ s[j] = t[k - Len(s)]
    BY <1>1, <1>2, <1>4
  <2> QED
    BY <2>1
<1>5. CASE ~(j <= Len(s)) /\ k <= Len(s)
  <2>1. k \in 1..Len(s) /\ j - Len(s) \in 1..Len(t) /\ s[k] = t[j - Len(s)]
    BY <1>1, <1>2, <1>5
  <2> QED
    BY <2>1
<1>6. CASE ~(j <= Len(s)) /\ ~(k <= Len(s))
  <2>1. j - Len(s) \in DOMAIN t /\ k - Len(s) \in DOMAIN t /\ t[j - Len(s)] = t[k - Len(s)]
    BY <1>1, <1>2, <1>6
  <2>2. j - Len(s) = k - Len(s)
    BY <2>1 DEF IsInjective
  <2> QED
    BY <1>2, <2>2
<1> QED
  BY <1>3, <1>4, <1>5, <1>6

\* The rows of the pane change, and no call is added.
LEMMA RowsChange ==
  ASSUME PageRight, UNCHANGED <<kind, server>>, pmade' \in 0..MaxPageCalls,
         frames' = frames \/ (kind # "repeater" /\ frames' \in Seq(Feed)),
         pcalls' \subseteq pcalls, pg' \in Panes, pg'.selected = pg.selected,
         pg'.token = pg.token, pg'.loaded = pg.loaded,
         SelectsNext => (pg'.busy = pg.busy \/ \A c \in pcalls' : ~Begins(c)),
         kind = "repeater" => Entries', RowsOfSelection', RowsOnce'
  PROVE  PageRight'
<1> USE DEF PageRight
<1>1. PageTyped' /\ Counted'
  BY ServerStays DEF PageBase, PageTyped, CallsTyped, PaneTyped
<1>2. PageFresh'
  BY DEF PageBase, PageFresh, Timely
<1>3. LoadAlone'
  BY DEF PageBase, LoadAlone, Timely
<1>4. AskAlone'
  BY DEF PageBase, AskAlone, SelectsNext, Begins
<1>5. Entries'
  BY DEF Entries
<1> QED
  BY <1>1, <1>2, <1>3, <1>4, <1>5 DEF PageBase

LEMMA SavedKeeps ==
  ASSUME PageRight, NEW call \in pcalls, SaveAnswered(call) PROVE PageRight'
<1> USE DEF PageRight
<1>1. /\ UNCHANGED <<kind, server, frames, pmade>> /\ pmade' \in 0..MaxPageCalls
      /\ call.op = "save"
  BY DEF SaveAnswered, PageBase, PageTyped, ServerTyped
<1>2. pg \in Panes /\ call \in PageCalls /\ call.status \in Statuses /\ call.item \in Spots
  BY DEF PageBase, PageTyped, PaneTyped, CallsTyped, PageCalls
<1>3. \A c \in pcalls \ {call} : SelectsNext => ~Begins(c)
  BY <1>1 DEF PageBase, AskAlone, Begins
<1>4. CASE pg' = [pg EXCEPT !.busy = FALSE] /\ pcalls' = pcalls \ {call}
  <2>1. /\ pg' \in Panes /\ pg'.selected = pg.selected /\ pg'.token = pg.token
        /\ pg'.shown = pg.shown /\ pg'.loaded = pg.loaded
    BY <1>2, <1>4 DEF Panes
  <2> QED
    BY <1>1, <1>3, <1>4, <2>1, PaneStays
<1>5. CASE /\ ~Stale(call) /\ pg' = Patched(pg, call.item, call.status)
           /\ pcalls' = (pcalls \ {call}) \cup {PCall("start", call.item, call.token)}
  <2>1. /\ pg' \in Panes /\ pg'.selected = pg.selected /\ pg'.token = pg.token
        /\ pg'.shown = pg.shown /\ pg'.loaded = pg.loaded /\ pg'.busy = pg.busy
    BY <1>2, <1>5, PatchedPane
  <2>2. call.token = pg.token /\ Timely(call) /\ Begins(call)
    BY <1>1, <1>5 DEF Stale, Timely, Begins
  <2>3. call.item = pg.selected \/ (pg.selected = NoItem /\ (kind = "repeater" => pg.shown = <<>>))
    BY <1>1, <2>2 DEF PageBase, PageFresh, Entries
  <2>4. \A c \in pcalls : c.op = "load" => ~Timely(c)
    BY <2>2 DEF PageBase, LoadAlone
  <2>5. SelectsNext => pg'.busy
    BY <2>1, <2>2 DEF PageBase, AskAlone
  <2>6. call.item \in PageItems
    BY <1>1 DEF PageBase, PageFresh
  <2>7. pcalls \ {call} \in SUBSET pcalls
        /\ pcalls' = (pcalls \ {call}) \cup {PCall("start", call.item, pg.token)}
    BY <1>5, <2>2
  <2>8. PageBase' /\ RowsOfSelection' /\ RowsOnce'
    BY <1>1, <1>2, <1>3, <2>1, <2>3, <2>4, <2>5, <2>6, <2>7, AskedKeeps
  <2> QED
    BY <2>8
<1> QED
  BY <1>4, <1>5 DEF SaveAnswered, Changes

LEMMA StartedKeeps ==
  ASSUME PageRight, NEW call \in pcalls, StartAnswered(call) PROVE PageRight'
<1> USE DEF PageRight
<1>1. /\ UNCHANGED <<kind, server, frames, pmade>> /\ pmade' \in 0..MaxPageCalls
      /\ call.op = "start" /\ pcalls' = pcalls \ {call} /\ Over(call)
  BY DEF StartAnswered, Settled, PageBase, PageTyped, ServerTyped
<1>2. /\ pg \in Panes /\ call \in PageCalls /\ call.status \in Statuses /\ call.item \in Spots
      /\ call.rows \in SUBSET Numbers
  BY DEF PageBase, PageTyped, PaneTyped, CallsTyped, PageCalls
<1>3. \A c \in pcalls' : SelectsNext => ~Begins(c)
  BY <1>1 DEF PageBase, AskAlone, Begins
<1>4. CASE pg' = [pg EXCEPT !.busy = FALSE]
  <2>1. /\ pg' \in Panes /\ pg'.selected = pg.selected /\ pg'.token = pg.token
        /\ pg'.shown = pg.shown /\ pg'.loaded = pg.loaded
    BY <1>2, <1>4 DEF Panes
  <2> QED
    BY <1>1, <1>3, <2>1, PaneStays
<1> DEFINE status == IF kind = "repeater" THEN "idle" ELSE call.status
           q == Patched(pg, call.item, status)
           started == [q EXCEPT !.busy = FALSE]
<1>5. status \in Statuses
  BY <1>2 DEF Statuses
<1>6. /\ q \in Panes /\ q.selected = pg.selected /\ q.token = pg.token /\ q.shown = pg.shown
      /\ q.loaded = pg.loaded
  <2> HIDE DEF status
  <2> QED
    BY <1>2, <1>5, PatchedPane
<1> HIDE DEF q
<1>7. /\ started \in Panes /\ started.selected = pg.selected /\ started.token = pg.token
      /\ started.shown = pg.shown /\ started.loaded = pg.loaded /\ started.busy = FALSE
  BY <1>6 DEF Panes
<1> HIDE DEF started
<1>8. \A rows1 \in Seq(PaneRows) :
        LET p == [started EXCEPT !.shown = rows1] IN
        /\ p \in Panes /\ p.selected = pg.selected /\ p.token = pg.token
        /\ p.shown = rows1 /\ p.loaded = pg.loaded /\ p.busy = FALSE
  BY <1>7 DEF Panes
<1>9. CASE pg' = started
  BY <1>1, <1>3, <1>7, <1>9, PaneStays
<1>10. CASE kind \in {"intruder", "crawler"} /\ pg' = [started EXCEPT !.shown = <<>>]
  <2>1. <<>> \in Seq(PaneRows)
    BY EmptySeq
  <2>2. /\ pg' \in Panes /\ pg'.selected = pg.selected /\ pg'.token = pg.token
        /\ pg'.shown = <<>> /\ pg'.loaded = pg.loaded
    BY <1>8, <1>10, <2>1
  <2>3. RowsOfSelection' /\ RowsOnce'
    BY <2>2, NoRows
  <2> QED
    BY <1>1, <1>3, <1>10, <2>2, <2>3, RowsChange
<1>11. CASE /\ kind = "repeater" /\ ~Stale(call) /\ call.at # "failed"
            /\ pg' = [started EXCEPT !.shown = @ \o InOrder(call.rows, call.item)]
  <2> DEFINE s == pg.shown
             t == InOrder(call.rows, call.item)
             u == s \o t
  <2>1. /\ t \in Seq(PaneRows) /\ IsInjective(t)
        /\ \A k \in 1..Len(t) : t[k].item = call.item /\ t[k].n \in call.rows
    BY <1>2, InOrderRows
  <2>2. s \in Seq(PaneRows) /\ IsInjective(s)
    BY <1>2 DEF Panes, RowsOnce
  <2> HIDE DEF t
  <2>3. u \in Seq(PaneRows) /\ pg' = [started EXCEPT !.shown = u]
    BY <1>7, <1>11, <2>1, <2>2 DEF t
  <2>4. /\ Len(u) = Len(s) + Len(t) /\ Len(s) \in Nat /\ Len(t) \in Nat
        /\ \A k \in 1..(Len(s) + Len(t)) : u[k] = IF k <= Len(s) THEN s[k] ELSE t[k - Len(s)]
    BY <2>1, <2>2, ConcatProperties
  <2>5. call.at = "answered" /\ Timely(call) /\ Begins(call)
    BY <1>1, <1>11 DEF Over, Stale, Timely, Begins
  <2>6. \A k \in 1..Len(s) : s[k].n \notin call.rows
    BY <1>1, <1>11, <2>5 DEF PageBase, Entries
  <2>7. \A j \in 1..Len(s), k \in 1..Len(t) : s[j] # t[k]
    BY <2>1, <2>6
  <2>8. IsInjective(u)
    BY <2>1, <2>2, <2>7, Apart
  <2> HIDE DEF u, s
  <2>9. /\ pg' \in Panes /\ pg'.selected = pg.selected /\ pg'.token = pg.token
        /\ pg'.shown = u /\ pg'.loaded = pg.loaded
    BY <1>8, <2>3
  <2>10. RowsOnce'
    BY <1>1, <1>11, <2>8, <2>9 DEF RowsOnce
  <2>11. ASSUME NEW k \in 1..Len(u)
         PROVE  (k \in 1..Len(s) /\ u[k] = s[k])
                  \/ (k - Len(s) \in 1..Len(t) /\ u[k] = t[k - Len(s)])
    BY <2>4
  <2>12. pg.selected # NoItem => call.item = pg.selected
    BY <1>1, <2>5 DEF PageBase, PageFresh
  <2>13. pg.selected # NoItem => \A k \in 1..Len(s) : s[k].item = pg.selected
    BY DEF RowsOfSelection, s
  <2>14. RowsOfSelection'
    BY <2>1, <2>9, <2>11, <2>12, <2>13 DEF RowsOfSelection
  <2>15. Entries'
    <3>1. SelectsNext
      BY <1>11 DEF SelectsNext
    <3>2. \A c \in pcalls' : c \in pcalls /\ ~Begins(c) /\ c.op # "start"
      BY <1>1, <1>3, <3>1 DEF Begins
    <3>3. \A c \in pcalls' : c.at = "answered" /\ c.op \in {"load", "start"} /\ Lives(c.item)'
                            => c.rows \subseteq server'[c.item].rows
      BY <1>1, <1>11, <3>2 DEF PageBase, Entries, Lives
    <3>4. ASSUME pg.selected # NoItem, Lives(pg.selected), NEW k \in 1..Len(u)
          PROVE  u[k].n \in server[pg.selected].rows
      <4>1. call.rows \subseteq server[call.item].rows /\ call.item = pg.selected
        BY <1>1, <1>11, <2>5, <2>12, <3>4 DEF PageBase, Entries
      <4>2. \A m \in 1..Len(s) : s[m].n \in server[pg.selected].rows
        BY <1>11, <3>4 DEF PageBase, Entries, s
      <4> QED
        BY <2>1, <2>11, <4>1, <4>2
    <3>5. server'[pg'.selected].made = "yes" <=> Lives(pg.selected)
      BY <1>1, <2>9 DEF Lives
    <3> QED
      BY <1>1, <2>9, <3>2, <3>3, <3>4, <3>5 DEF Entries, Lives, Begins
  <2> QED
    BY <1>1, <1>3, <2>9, <2>10, <2>14, <2>15, RowsChange
<1>12. CASE kind \in {"intruder", "crawler"} /\ pg' # [pg EXCEPT !.busy = FALSE]
  BY <1>10, <1>12 DEF StartAnswered, started, q, status
<1>13. CASE kind = "repeater" /\ pg' # [pg EXCEPT !.busy = FALSE]
  BY <1>11, <1>13 DEF StartAnswered, started, q, status
<1>14. CASE kind \notin {"intruder", "crawler", "repeater"} /\ pg' # [pg EXCEPT !.busy = FALSE]
  BY <1>9, <1>14 DEF StartAnswered, started, q, status
<1> QED
  BY <1>4, <1>12, <1>13, <1>14


LEMMA UpdateKeeps ==
  ASSUME PageRight, ApplyUpdate PROVE PageRight'
<1> USE DEF PageRight
<1> DEFINE f == Head(frames)
           q == Patched(pg, f.item, f.status)
           r == Row(f.item, f.row)
<1>1. /\ UNCHANGED <<kind, server, pmade>> /\ pmade' \in 0..MaxPageCalls
      /\ frames # <<>> /\ frames' = Tail(frames) /\ frames \in Seq(Feed)
  BY DEF ApplyUpdate, PageBase, PageTyped, ServerTyped
<1>2. f \in Feed /\ frames' \in Seq(Feed) /\ kind # "repeater"
  BY <1>1 DEF PageBase, Counted
<1>3. pg \in Panes
  BY DEF PageBase, PageTyped, PaneTyped
<1>4. f.item \in PageItems /\ f.status \in Statuses /\ f.row \in 0..MaxRows
  BY <1>2 DEF Feed, Statuses
<1>5. /\ q \in Panes /\ q.selected = pg.selected /\ q.token = pg.token /\ q.shown = pg.shown
      /\ q.loaded = pg.loaded /\ q.busy = pg.busy
  BY <1>3, <1>4, PatchedPane
<1> HIDE DEF q
<1>6. CASE pg' = q
  <2>1. CASE pcalls' = pcalls
    BY <1>1, <1>2, <1>5, <1>6, <2>1, PaneStays
  <2>2. CASE /\ kind = "sequencer" /\ f.item = pg.selected
             /\ pcalls' = pcalls \cup {PCall("refresh", f.item, pg.token)}
    <3>1. f.item \in Spots /\ pcalls \in SUBSET pcalls
      BY <1>4 DEF Spots
    <3> HIDE DEF f
    <3>2. PageBase' /\ RowsOfSelection' /\ RowsOnce'
      BY <1>1, <1>2, <1>4, <1>5, <1>6, <2>2, <3>1, AskedKeeps
    <3> QED
      BY <3>2
  <2> QED
    BY <2>1, <2>2 DEF ApplyUpdate
<1>7. CASE /\ f.row # 0 /\ f.item = pg.selected /\ kind # "sequencer"
           /\ pg' = [q EXCEPT !.shown = Joined(r)]
  <2>1. r \in PaneRows /\ r.item = pg.selected
    BY <1>4, <1>7, PageAssumption DEF Row, PaneRows, Spots, Numbers
  <2> HIDE DEF r
  <2> DEFINE t == Joined(r)
  <2>2. /\ t \in Seq(PaneRows) /\ IsInjective(t)
        /\ kind = "intruder" => \A k \in 1..(Len(t) - 1) : t[k].n < t[k + 1].n
        /\ \A k \in 1..Len(t) : t[k] = r \/ t[k] \in ToSet(pg.shown)
    BY <1>3, <2>1, JoinedRows
  <2> HIDE DEF t
  <2>3. /\ pg' \in Panes /\ pg'.selected = pg.selected /\ pg'.token = pg.token
        /\ pg'.shown = t /\ pg'.loaded = pg.loaded /\ pg'.busy = pg.busy
    <3>1. pg' = [q EXCEPT !.shown = t]
      BY <1>7 DEF t
    <3> QED
      BY <1>5, <2>2, <3>1 DEF Panes
  <2>4. RowsOnce'
    BY <1>1, <2>2, <2>3 DEF RowsOnce
  <2>5. pg.selected # NoItem => \A x \in ToSet(pg.shown) : x.item = pg.selected
    <3>1. DOMAIN pg.shown = 1..Len(pg.shown)
      BY <1>3, LenProperties DEF Panes
    <3> QED
      BY <3>1 DEF RowsOfSelection, ToSet
  <2>6. RowsOfSelection'
    BY <2>1, <2>2, <2>3, <2>5 DEF RowsOfSelection
  <2>7. pcalls' = pcalls
    BY <1>7 DEF ApplyUpdate
  <2> QED
    BY <1>1, <1>2, <2>3, <2>4, <2>6, <2>7, RowsChange
<1> QED
  BY <1>6, <1>7 DEF ApplyUpdate, q

LEMMA PageRightInit == PageInit => PageRight
BY PageBaseInit DEF PageRight

LEMMA PageRightStep == PageRight /\ [PageNext]_pageVars => PageRight'
<1> SUFFICES ASSUME PageRight, [PageNext]_pageVars PROVE PageRight'
  OBVIOUS
<1>1. CASE UNCHANGED pageVars
  <2>1. UNCHANGED <<kind, server, frames, pcalls, pg, pmade>>
    BY <1>1 DEF pageVars
  <2> USE DEF PageRight
  <2>2. pmade' \in 0..MaxPageCalls /\ pg' \in Panes
    BY <2>1 DEF PageBase, PageTyped, ServerTyped, PaneTyped
  <2> QED
    BY <2>1, <2>2, PaneStays
<1>2. ASSUME UNCHANGED <<kind, pg>>, PageBase' PROVE PageRight'
  BY <1>2 DEF PageRight, RowsOfSelection, RowsOnce
<1>3. ASSUME NEW i \in PageItems, Produce(i) \/ Finish(i) PROVE PageRight'
  BY <1>2, <1>3, RunKeeps DEF PageRight
<1>4. ASSUME Reconnect PROVE PageRight'
  BY <1>2, <1>4, RunKeeps DEF PageRight
<1>5. ASSUME NEW call \in pcalls, PageAnswers(call) PROVE PageRight'
  <2>1. CASE \/ ServeRead(call) \/ ServeStart(call) \/ ServeSend(call) \/ ServeDelete(call)
             \/ ServeFailure(call)
    BY <1>2, <2>1, PageServedKeeps DEF PageRight
  <2> QED
    BY <1>5, <2>1, LoadedKeeps, SavedKeeps, StartedKeeps DEF PageAnswers
<1> QED
  BY <1>1, <1>3, <1>4, <1>5, AskingPageKeeps, UpdateKeeps DEF PageNext, PageIdle

\* The rows in a pane are of the item selected, and none is there twice.
THEOREM PanesAreRight == PageSpec => [](RowsOfSelection /\ RowsOnce)
<1>1. PageRight => RowsOfSelection /\ RowsOnce
  BY DEF PageRight
<1> QED
  BY <1>1, PageRightInit, PageRightStep, PTL DEF PageSpec

-----------------------------------------------------------------------------
(* The parts side by side, as the run Services moves them.                 *)

LEMMA PartsStart ==
  ServicesInit => HubInit /\ PublishInit /\ ConvInit /\ SetInit /\ CbInit /\ PageInit
BY DEF ServicesInit

\* A step of the composition is one of a part, or leaves it alone.
LEMMA PartsMove ==
  [ServicesNext]_servicesVars =>
    /\ [HubNext]_allHubVars /\ [PublishNext]_allVars /\ [ConvNext]_convVars
    /\ [SetNext]_setVars /\ [CbNext]_cbVars /\ [PageNext]_pageVars
BY DEF ServicesNext, HubTurn, PublishTurn, ConvTurn, SetTurn, CbTurn, PageTurn, servicesVars

\* Every list of the page holds rows of the selected item only, and none twice
\* (apiClient.ts and the stores): PanesAreRight and ListedOnce, side by side.
THEOREM ListsStayRight == ServicesSpec => []ListsAreRight
<1>1. CbInit => CbInv
  BY CbBaseInit DEF CbInv
<1>2. CbInv /\ [CbNext]_cbVars => CbInv'
  BY CallbackStep DEF CbInv
<1>3. PageRight /\ CbInv => ListsAreRight
  BY DEF PageRight, CbInv, ListsAreRight
<1> QED
  BY <1>1, <1>2, <1>3, PageRightInit, PageRightStep, PartsStart, PartsMove, PTL DEF ServicesSpec

\* Nothing older undoes a title or a listed callback: TitleStays and LiveStays.
THEOREM NothingUndone == ServicesSpec => NothingIsUndone
<1>1. CbInit => CbInv
  BY CbBaseInit DEF CbInv
<1>2. CbInv /\ [CbNext]_cbVars => CbInv'
  BY CallbackStep DEF CbInv
<1>3. CbInv /\ [CbNext]_cbVars =>
        [\/ ToSet(oobView.shown) \subseteq ToSet(oobView'.shown)
         \/ \E call \in oobCalls : call.op = "clear" /\ call \notin oobCalls']_cbVars
  BY CallbackStep DEF CbInv, KeepsList
<1> QED
  BY <1>1, <1>2, <1>3, TitleStep, PageOneInit, PageOneStep, PartsStart, PartsMove, PTL
     DEF ServicesSpec, NothingIsUndone, TitleIsKept, LiveSurvives

-----------------------------------------------------------------------------
(* The token of a pane is bounded by the calls it made: a selection asks   *)
(* for a detail, or follows the answer of a deletion or of a list.         *)

Movers == {c \in pcalls : c.op \in {"delete", "list"}}
TokenBound ==
  IF SelectsNext THEN pg.token + Cardinality(Movers) <= pmade
  ELSE pg.token + (IF pg.selected = NoItem THEN 0 ELSE 1) <= 2 * pmade
Tokens1 == IsFiniteSet(Movers) /\ TokenBound

\* The calls of a page, after one of them changed, arrived or left.
LEMMA MoversChange ==
  ASSUME IsFiniteSet(Movers), NEW call \in pcalls, NEW new, new.op = call.op,
         pcalls' = (pcalls \ {call}) \cup {new}
  PROVE  IsFiniteSet(Movers') /\ Cardinality(Movers') <= Cardinality(Movers)
<1>1. CASE call \in Movers
  <2>1. Movers' = (Movers \ {call}) \cup {new}
    BY <1>1 DEF Movers
  <2> DEFINE S == Movers \ {call}
  <2>2. IsFiniteSet(S) /\ Cardinality(S) = Cardinality(Movers) - 1 /\ Cardinality(Movers) \in Nat
    BY <1>1, FS_RemoveElement, FS_CardinalityType
  <2>3. Movers' = S \cup {new}
    BY <2>1
  <2> HIDE DEF S
  <2>4. /\ IsFiniteSet(S \cup {new})
        /\ Cardinality(S \cup {new}) = IF new \in S THEN Cardinality(S) ELSE Cardinality(S) + 1
    BY <2>2, FS_AddElement
  <2> QED
    BY <2>2, <2>3, <2>4
<1>2. CASE call \notin Movers
  <2>1. Movers' = Movers
    BY <1>2 DEF Movers
  <2> QED
    BY <2>1, FS_CardinalityType
<1> QED
  BY <1>1, <1>2

LEMMA MoversShrink ==
  ASSUME IsFiniteSet(Movers), NEW call \in pcalls, pcalls' = pcalls \ {call}
  PROVE  /\ IsFiniteSet(Movers') /\ Cardinality(Movers') <= Cardinality(Movers)
         /\ call.op \in {"delete", "list"} => Cardinality(Movers') = Cardinality(Movers) - 1
<1>1. Movers' = Movers \ {call}
  BY DEF Movers
<1>2. call \in Movers <=> call.op \in {"delete", "list"}
  BY DEF Movers
<1>3. /\ IsFiniteSet(Movers \ {call}) /\ Cardinality(Movers) \in Nat
      /\ Cardinality(Movers \ {call}) =
           IF call \in Movers THEN Cardinality(Movers) - 1 ELSE Cardinality(Movers)
  BY FS_RemoveElement, FS_CardinalityType
<1> QED
  BY <1>1, <1>2, <1>3

LEMMA MoversGrow ==
  ASSUME IsFiniteSet(Movers), NEW new, pcalls' = pcalls \cup {new}
  PROVE  /\ IsFiniteSet(Movers') /\ Cardinality(Movers') <= Cardinality(Movers) + 1
         /\ new.op \notin {"delete", "list"} => Movers' = Movers
<1>1. CASE new.op \in {"delete", "list"}
  <2>1. Movers' = Movers \cup {new}
    BY <1>1 DEF Movers
  <2> QED
    BY <1>1, <2>1, FS_AddElement, FS_CardinalityType
<1>2. CASE new.op \notin {"delete", "list"}
  <2>1. Movers' = Movers
    BY <1>2 DEF Movers
  <2> QED
    BY <2>1, FS_CardinalityType
<1> QED
  BY <1>1, <1>2

LEMMA TokenStays ==
  ASSUME Tokens1, pg.token \in Nat, pmade \in Nat, UNCHANGED <<kind, pmade>>,
         pg'.token = pg.token, pg'.selected = pg.selected,
         IsFiniteSet(Movers'), Cardinality(Movers') <= Cardinality(Movers)
  PROVE  Tokens1'
BY FS_CardinalityType DEF Tokens1, TokenBound, SelectsNext

LEMMA TokenMoves ==
  ASSUME Tokens1, pg.token \in Nat, pmade \in Nat, NEW call \in pcalls, NEW p \in Panes,
         call.op \in {"delete", "list"}, p.token = pg.token, p.selected = pg.selected,
         SelectsNext \/ pg.selected # NoItem,
         UNCHANGED <<kind, pmade>>, MovesOn(p, call)
  PROVE  Tokens1'
<1>1. CASE SelectsNext /\ DOMAIN p.list # {}
  <2> DEFINE i == First(p.list)
             new == PCall("load", i, p.token + 1)
             S == pcalls \ {call}
  <2>1. pg' = Selecting(p, i) /\ pcalls' = S \cup {new} /\ new.op = "load"
    BY <1>1 DEF MovesOn, Calls, PCall
  <2>2. pg'.token = pg.token + 1
    BY <2>1 DEF Selecting, Panes
  <2> HIDE DEF new, i
  <2>3. Movers' = Movers \ {call} /\ call \in Movers
    BY <2>1 DEF Movers
  <2>4. IsFiniteSet(Movers') /\ Cardinality(Movers') = Cardinality(Movers) - 1
    BY <2>3, FS_RemoveElement DEF Tokens1
  <2> QED
    BY <1>1, <2>2, <2>4, FS_CardinalityType DEF Tokens1, TokenBound, SelectsNext
<1>2. CASE ~(SelectsNext /\ DOMAIN p.list # {})
  <2>1. pg' = Cleared(p) /\ pcalls' = pcalls \ {call}
    BY <1>2 DEF MovesOn
  <2>2. IsFiniteSet(Movers') /\ Cardinality(Movers') <= Cardinality(Movers)
    BY <2>1, MoversShrink DEF Tokens1
  <2>3. CASE SelectsNext
    <3>1. pg'.token = pg.token
      BY <2>1, <2>3 DEF Cleared, Blanked, Panes
    <3> QED
      BY <2>2, <2>3, <3>1, FS_CardinalityType DEF Tokens1, TokenBound, SelectsNext
  <2>4. CASE ~SelectsNext
    <3>1. pg'.token = pg.token + 1 /\ pg'.selected = NoItem
      BY <2>1, <2>4 DEF Cleared, Blanked, Panes
    <3> QED
      BY <2>2, <2>4, <3>1 DEF Tokens1, TokenBound, SelectsNext
  <2> QED
    BY <2>3, <2>4
<1> QED
  BY <1>1, <1>2

LEMMA TokensStep == PageRight /\ Tokens1 /\ [PageNext]_pageVars => Tokens1'
<1> SUFFICES ASSUME PageRight, Tokens1, PageNext PROVE Tokens1'
  BY DEF pageVars, Tokens1, TokenBound, Movers, SelectsNext
<1>1. /\ pg \in Panes /\ pg.token \in Nat /\ pmade \in Nat /\ pg.list \in Lists
      /\ pcalls \subseteq PageCalls /\ server \in [PageItems -> Served] /\ IsFiniteSet(Movers)
      /\ frames \in Seq(Feed)
  BY PageAssumption DEF PageRight, PageBase, PageTyped, PaneTyped, Panes, ServerTyped, CallsTyped, Tokens1
<1>2. ASSUME NEW i \in PageItems, Produce(i) \/ Finish(i) PROVE Tokens1'
  BY <1>2 DEF Produce, Finish, Tokens1, TokenBound, Movers, SelectsNext
<1>3. CASE Reconnect
  BY <1>3 DEF Reconnect, Tokens1, TokenBound, Movers, SelectsNext
<1>4. ASSUME NEW i \in PageItems, Select(i) PROVE Tokens1'
  <2> DEFINE new == PCall("load", i, pg.token + 1)
  <2>1. /\ pg' = Selecting(pg, i) /\ pcalls' = pcalls \cup {new} /\ new.op = "load"
        /\ pmade' = pmade + 1 /\ kind' = kind
    BY <1>4 DEF Select, Calls, PCall
  <2>2. pg'.token = pg.token + 1 /\ pg'.selected = i
    BY <1>1, <2>1 DEF Selecting, Panes
  <2> HIDE DEF new
  <2>3. Movers' = Movers
    BY <1>1, <2>1, MoversGrow
  <2> QED
    BY <1>1, <2>1, <2>2, <2>3, FS_CardinalityType DEF Tokens1, TokenBound, SelectsNext
<1>5. ASSUME NEW op, NEW i, Ask1(op, i), kind' = kind,
             pg'.token = pg.token, pg'.selected = pg.selected
      PROVE  Tokens1'
  <2> DEFINE new == PCall(op, i, pg.token)
  <2>1. pcalls' = pcalls \cup {new} /\ pmade' = pmade + 1
    BY <1>5 DEF Ask1
  <2> HIDE DEF new
  <2>2. IsFiniteSet(Movers') /\ Cardinality(Movers') <= Cardinality(Movers) + 1
    BY <1>1, <2>1, MoversGrow
  <2> QED
    BY <1>1, <1>5, <2>1, <2>2, FS_CardinalityType DEF Tokens1, TokenBound, SelectsNext
<1>6. CASE Start \/ FetchAll \/ \E i \in PageItems : Delete1(i)
  <2>1. CASE Start
    <3>1. pg'.token = pg.token /\ pg'.selected = pg.selected
      BY <1>1, <2>1 DEF Start, Panes
    <3> QED
      BY <1>5, <2>1, <3>1 DEF Start
  <2> QED
    BY <1>5, <1>6, <2>1 DEF FetchAll, Delete1
<1>7. CASE Close
  <2>1. /\ pg' = Cleared(pg) /\ ~SelectsNext /\ pg.selected # NoItem
        /\ UNCHANGED <<kind, pcalls, pmade>>
    BY <1>7 DEF Close
  <2>2. pg'.token = pg.token + 1 /\ pg'.selected = NoItem
    BY <1>1, <2>1 DEF Cleared, Blanked, Panes
  <2>3. Movers' = Movers
    BY <2>1 DEF Movers
  <2> QED
    BY <1>1, <2>1, <2>2, <2>3 DEF Tokens1, TokenBound, SelectsNext
<1>8. CASE ApplyUpdate
  <2> DEFINE f == Head(frames)
             q == Patched(pg, f.item, f.status)
             new == PCall("refresh", f.item, pg.token)
  <2>1. /\ UNCHANGED <<kind, pmade>>
        /\ pg' = q \/ pg' = [q EXCEPT !.shown = Joined(Row(f.item, f.row))]
        /\ pcalls' = pcalls \/ pcalls' = pcalls \cup {new}
        /\ new.op = "refresh"
    BY <1>8 DEF ApplyUpdate, PCall
  <2>2. q = [pg EXCEPT !.list = q.list]
    BY <1>1 DEF Patched, Panes
  <2> HIDE DEF f, q, new
  <2>3. pg'.token = pg.token /\ pg'.selected = pg.selected
    BY <1>1, <2>1, <2>2 DEF Panes
  <2>4. Movers' = Movers
    <3>1. CASE pcalls' = pcalls
      BY <3>1 DEF Movers
    <3>2. CASE pcalls' = pcalls \cup {new}
      BY <1>1, <2>1, <3>2, MoversGrow
    <3> QED
      BY <2>1, <3>1, <3>2
  <2>5. Cardinality(Movers') <= Cardinality(Movers) /\ IsFiniteSet(Movers')
    BY <1>1, <2>4, FS_CardinalityType
  <2> QED
    BY <1>1, <2>1, <2>3, <2>5, TokenStays
<1>9. ASSUME NEW call \in pcalls, PageAnswers(call) PROVE Tokens1'
  <2>1. ASSUME UNCHANGED <<kind, pmade>>, pg'.token = pg.token, pg'.selected = pg.selected,
               \/ pcalls' = pcalls \ {call}
               \/ \E new : new.op = call.op /\ pcalls' = (pcalls \ {call}) \cup {new}
               \/ call.op = "save" /\ \E new : new.op = "start" /\ pcalls' = (pcalls \ {call}) \cup {new}
        PROVE  Tokens1'
    <3>1. IsFiniteSet(Movers') /\ Cardinality(Movers') <= Cardinality(Movers)
      <4>1. CASE pcalls' = pcalls \ {call}
        BY <1>1, <4>1, MoversShrink
      <4>2. CASE \E new : new.op = call.op /\ pcalls' = (pcalls \ {call}) \cup {new}
        BY <1>1, <4>2, MoversChange
      <4>3. CASE call.op = "save" /\ \E new : new.op = "start" /\ pcalls' = (pcalls \ {call}) \cup {new}
        <5>1. Movers' = Movers
          BY <4>3 DEF Movers
        <5> QED
          BY <1>1, <5>1, FS_CardinalityType
      <4> QED
        BY <2>1, <4>1, <4>2, <4>3
    <3> QED
      BY <1>1, <2>1, <3>1, TokenStays
  <2>2. call \in PageCalls
    BY <1>1
  <2>3. CASE \/ ServeRead(call) \/ ServeStart(call) \/ ServeSend(call) \/ ServeDelete(call)
             \/ ServeFailure(call)
    <3>1. UNCHANGED <<kind, pmade, pg>> /\ \E new : new.op = call.op /\ Changes(call, new)
      BY <2>2, <2>3 DEF ServeRead, ServeStart, ServeSend, ServeDelete, ServeFailure, Answered, PageCalls
    <3> QED
      BY <2>1, <3>1 DEF Changes
  <2>4. ASSUME NEW i, NEW status
        PROVE  /\ Patched(pg, i, status) = [pg EXCEPT !.list = Patched(pg, i, status).list]
               /\ Patched(pg, i, status).token = pg.token
               /\ Patched(pg, i, status).selected = pg.selected
    BY <1>1 DEF Patched, Panes
  <2>5. CASE LoadAnswered(call) \/ RefreshAnswered(call)
    <3>1. pg'.token = pg.token /\ pg'.selected = pg.selected
      <4> DEFINE q == Patched(pg, call.item, call.status)
      <4>1. /\ q = [pg EXCEPT !.list = q.list] /\ q.token = pg.token /\ q.selected = pg.selected
        BY <2>4
      <4>2. \/ pg' = pg \/ pg' = [pg EXCEPT !.loading = FALSE]
            \/ pg' = [q EXCEPT !.loading = FALSE, !.loaded = TRUE,
                               !.shown = InOrder(call.rows, call.item)]
            \/ pg' = [q EXCEPT !.shown = InOrder(call.rows, call.item)]
        BY <2>5 DEF LoadAnswered, RefreshAnswered
      <4> HIDE DEF q
      <4> QED
        BY <1>1, <4>1, <4>2 DEF Panes
    <3> QED
      BY <2>1, <2>5, <3>1 DEF LoadAnswered, RefreshAnswered, Settled
  <2>6. CASE SaveAnswered(call)
    <3>1. pg'.token = pg.token /\ pg'.selected = pg.selected
      BY <1>1, <2>4, <2>6 DEF SaveAnswered, Panes
    <3>2. PCall("start", call.item, call.token).op = "start"
      BY DEF PCall
    <3> QED
      BY <2>1, <2>6, <3>1, <3>2 DEF SaveAnswered, Changes
  <2>7. CASE StartAnswered(call)
    <3>1. pg'.token = pg.token /\ pg'.selected = pg.selected
      <4> DEFINE q == Patched(pg, call.item, IF kind = "repeater" THEN "idle" ELSE call.status)
                 s == [q EXCEPT !.busy = FALSE]
      <4>1. /\ q = [pg EXCEPT !.list = q.list] /\ q.token = pg.token /\ q.selected = pg.selected
        BY <2>4
      <4>2. \/ pg' = [pg EXCEPT !.busy = FALSE] \/ pg' = s \/ \E x : pg' = [s EXCEPT !.shown = x]
        BY <2>7 DEF StartAnswered
      <4> HIDE DEF q
      <4> QED
        BY <1>1, <4>1, <4>2 DEF Panes
    <3> QED
      BY <2>1, <2>7, <3>1 DEF StartAnswered, Settled
  <2>8. CASE DeleteAnswered(call)
    <3> DEFINE p == Without(pg, call.item)
    <3>1. p \in Panes /\ p.token = pg.token /\ p.selected = pg.selected
      <4> DEFINE list == [j \in DOMAIN pg.list \ {call.item} |-> pg.list[j]]
      <4>1. list \in Lists
        BY <1>1, FirstListed
      <4>2. p = [pg EXCEPT !.list = list]
        BY DEF Without
      <4> HIDE DEF list, p
      <4> QED
        BY <1>1, <4>1, <4>2 DEF Panes
    <3> HIDE DEF p
    <3>2. UNCHANGED <<kind, pmade>> /\ call.op = "delete"
      BY <2>8 DEF DeleteAnswered
    <3>3. CASE pg.selected = call.item /\ MovesOn(p, call)
      <4>1. call.item \in PageItems
        BY <3>2 DEF PageRight, PageBase, PageFresh
      <4>2. pg.selected # NoItem
        BY <3>3, <4>1, PageAssumption
      <4> QED
        BY <1>1, <3>1, <3>2, <3>3, <4>2, TokenMoves
    <3>4. CASE pg' = p /\ pcalls' = pcalls \ {call}
      BY <2>1, <3>1, <3>2, <3>4
    <3> QED
      BY <2>8, <3>3, <3>4 DEF DeleteAnswered, p
  <2>9. CASE ListAnswered1(call)
    <3> DEFINE p == [pg EXCEPT !.list = call.list]
    <3>1. p \in Panes /\ p.token = pg.token /\ p.selected = pg.selected
      BY <1>1, <2>2 DEF Panes, PageCalls
    <3> HIDE DEF p
    <3>2. UNCHANGED <<kind, pmade>> /\ call.op = "list"
      BY <2>9 DEF ListAnswered1
    <3>3. CASE SelectsNext /\ MovesOn(p, call)
      BY <1>1, <3>1, <3>2, <3>3, TokenMoves
    <3>4. CASE (pg' = p \/ pg' = pg) /\ pcalls' = pcalls \ {call}
      BY <2>1, <3>1, <3>2, <3>4
    <3> QED
      BY <2>9, <3>3, <3>4 DEF ListAnswered1, p
  <2> QED
    BY <1>9, <2>3, <2>5, <2>6, <2>7, <2>8, <2>9 DEF PageAnswers
<1>10. CASE PageIdle
  BY <1>10 DEF PageIdle, pageVars, Tokens1, TokenBound, Movers, SelectsNext
<1> QED
  BY <1>2, <1>3, <1>4, <1>6, <1>7, <1>8, <1>9, <1>10 DEF PageNext

-----------------------------------------------------------------------------
(* The types of all the parts.                                             *)

\* A publisher that is not idle owes the page a state.
Owing == \A p \in Publishers : pub[p] # "idle" => rounds[p] \in 1..3

LEMMA GateTypes ==
  ASSUME TypeOK, [Next]_gateVars PROVE TypeOK'
<1> USE DEF TypeOK
<1>1. ASSUME NEW S \in SUBSET Items, NEW a \in Action, Decide(S, a)
      PROVE  held' \in SUBSET Items /\ verdict' \in [Items -> Action \cup {None}]
  BY <1>1 DEF Decide
<1>2. "forward" \in Action /\ "drop" \in Action
  BY DEF Action
<1>3. ASSUME NEW i \in Items, Pass(i) \/ Enter(i) \/ Return(i) \/ Abandon(i) PROVE TypeOK'
  BY <1>2, <1>3 DEF Pass, Enter, Return, Abandon
<1>4. ASSUME NEW on \in BOOLEAN, SetEnabled(on) \/ SetInterceptResponses(on) PROVE TypeOK'
  <2>1. CASE SetEnabled(on)
    BY <1>1, <1>2, <2>1 DEF SetEnabled
  <2>2. CASE SetInterceptResponses(on)
    BY <1>1, <1>2, <2>2 DEF SetInterceptResponses
  <2> QED
    BY <1>4, <2>1, <2>2
<1>5. ASSUME NEW i \in Items, NEW a \in Action, Resolve(i, a) PROVE TypeOK'
  BY <1>1, <1>5 DEF Resolve
<1>6. ASSUME NEW a \in Action, DrainAll(a) PROVE TypeOK'
  BY <1>1, <1>6 DEF DrainAll
<1> QED
  BY <1>3, <1>4, <1>5, <1>6 DEF Next, gateVars

LEMMA PublishTypes ==
  /\ PublishInit => PublishTypeOK /\ Owing
  /\ PublishTypeOK /\ Owing /\ [PublishNext]_allVars => PublishTypeOK' /\ Owing'
<1>1. ASSUME PublishInit PROVE PublishTypeOK /\ Owing
  <2>1. TypeOK
    BY <1>1 DEF PublishInit, Init, TypeOK
  <2>2. Current \in Frame /\ NoFrame \in Frame
    BY <2>1 DEF Current, NoFrame, Frame, TypeOK
  <2>3. /\ pub = [p \in Publishers |-> "idle"] /\ rounds = [p \in Publishers |-> 0]
        /\ frame = [p \in Publishers |-> NoFrame] /\ view = Current
    BY <1>1 DEF PublishInit
  <2>4. crossed \in BOOLEAN /\ told \in BOOLEAN
    BY <1>1, Zenon DEF PublishInit
  <2>5. frame \in [Publishers -> Frame] /\ view \in Frame
    BY <2>2, <2>3
  <2> QED
    BY <2>1, <2>3, <2>4, <2>5 DEF PublishTypeOK, Owing
<1>2. ASSUME PublishTypeOK, Owing, [PublishNext]_allVars PROVE PublishTypeOK' /\ Owing'
  <2>1. [Next]_gateVars
    BY <1>2 DEF PublishNext, Unpublished, ProxyChange, HandlerChange, FetchIntercept, PublishStep,
         ReadQueue, ReadEnabled, ReadResponses, BroadcastIntercept, Next, allVars
  <2>2. TypeOK'
    BY <1>2, <2>1, GateTypes DEF PublishTypeOK
  <2>3. ASSUME NEW p \in Publishers, NEW n \in 1..3, Owe(p, n), told' \in BOOLEAN
        PROVE  PublishTypeOK' /\ Owing'
    BY <1>2, <2>2, <2>3 DEF PublishTypeOK, Owing, Owe
  <2>4. ASSUME NEW p \in Publishers, ProxyChange(p) \/ HandlerChange(p) \/ FetchIntercept(p)
        PROVE  PublishTypeOK' /\ Owing'
    <3>1. \E n \in 1..3 : Owe(p, n)
      BY <2>4 DEF ProxyChange, HandlerChange, FetchIntercept, Announce
    <3>2. told' = told \/ told' = (view = Current')
      BY <2>4, Zenon DEF ProxyChange, HandlerChange, FetchIntercept, Announce
    <3>3. told' \in BOOLEAN
      BY <1>2, <3>2, Zenon DEF PublishTypeOK
    <3> QED
      BY <2>3, <3>1, <3>3
  <2>5. ASSUME NEW p \in Publishers, PublishStep(p) PROVE PublishTypeOK' /\ Owing'
    <3> USE DEF PublishTypeOK, TypeOK, Owing, Frame, gateVars
    <3>1. CASE ReadQueue(p)
      BY <1>2, <2>2, <3>1 DEF ReadQueue
    <3>2. CASE ReadEnabled(p)
      BY <1>2, <2>2, <3>2 DEF ReadEnabled
    <3>3. CASE ReadResponses(p)
      BY <1>2, <2>2, <3>3 DEF ReadResponses
    <3>4. CASE BroadcastIntercept(p)
      <4>1. rounds[p] \in 1..3
        BY <1>2, <3>4 DEF BroadcastIntercept
      <4>2. /\ rounds' = [rounds EXCEPT ![p] = rounds[p] - 1] /\ rounds[p] - 1 \in 0..3
            /\ view' = frame[p] /\ frame' = [frame EXCEPT ![p] = NoFrame]
            /\ crossed' = crossed /\ told' \in BOOLEAN
            /\ pub' = [pub EXCEPT ![p] = IF rounds[p] = 1 THEN "idle" ELSE "queue"]
            /\ rounds[p] # 1 => rounds[p] - 1 \in 1..3
        BY <1>2, <3>4, <4>1 DEF BroadcastIntercept
      <4>3. NoFrame \in Frame
        BY DEF NoFrame
      <4> QED
        BY <1>2, <2>2, <4>2, <4>3
    <3> QED
      BY <2>5, <3>1, <3>2, <3>3, <3>4 DEF PublishStep
  <2>6. CASE Unpublished \/ UNCHANGED allVars
    BY <1>2, <2>2, <2>6 DEF Unpublished, allVars, pubVars, PublishTypeOK, Owing
  <2> QED
    BY <1>2, <2>4, <2>5, <2>6 DEF PublishNext
<1> QED
  BY <1>1, <1>2

SetTypes == SettingsTyped /\ sent \subseteq Keys /\ saves \in 0..MaxSaves

LEMMA SetTypesInit == SetInit => SetTypes
<1> SUFFICES ASSUME SetInit PROVE SetTypes
  OBVIOUS
<1>1. SettingsTyped
  BY SettledInit DEF SettingsKept
<1>2. sent = {""}
  BY DEF SetInit
<1>5. saves = 0
  BY DEF SetInit
<1>3. MaxSaves \in Nat
  BY SetAssumption
<1>4. saves \in 0..MaxSaves /\ sent \subseteq Keys
  <2>1. saves \in 0..MaxSaves
    BY <1>5, <1>3
  <2>2. sent \subseteq Keys
    BY <1>2 DEF Keys
  <2> QED
    BY <2>1, <2>2
<1> QED
  BY <1>1, <1>4 DEF SetTypes

LEMMA SetTypesStep == SetTypes /\ [SetNext]_setVars => SetTypes'
<1> SUFFICES ASSUME SetTypes, SetNext PROVE SetTypes'
  BY DEF SetTypes, SettingsTyped, setVars
<1>1. /\ liveCfg \in Configs /\ setRow \in Configs /\ flags \in Configs
      /\ saving \in [Savers -> Save] /\ overlap \in BOOLEAN /\ apart \subseteq {"failure", "overlap"}
      /\ \A s \in Savers : saving[s] \in Save
  BY DEF SetTypes, SettingsTyped
<1>2. \A c \in Configs : Normalized(c) \in Configs /\ c.key \in Keys
  BY DEF Normalized, Configs, Providers
<1>0. ASSUME NEW s, NEW p, NEW k, ReadCurrent(s, p, k) PROVE saves' \in 0..MaxSaves
  <2>1. saves \in 0..MaxSaves /\ saves < MaxSaves /\ saves' = saves + 1
    BY <1>0 DEF ReadCurrent, SetTypes
  <2> QED
    BY <2>1, SetAssumption
<1>3. ASSUME NEW s \in Savers, NEW p \in Providers, NEW k \in {Keep, "", "typed"}, ReadCurrent(s, p, k)
      PROVE  SetTypes'
  <2>1. Config(p, IF k = Keep THEN liveCfg.key ELSE k) \in Configs /\ (k # Keep => k \in Keys)
    BY <1>1, <1>2 DEF Config, Configs, Keys
  <2>2. saves' \in 0..MaxSaves /\ sent' \subseteq Keys
    <3>1. sent' = IF k = Keep THEN sent ELSE sent \cup {k}
      BY <1>3 DEF ReadCurrent
    <3>2. sent \subseteq Keys
      BY DEF SetTypes
    <3> QED
      BY <1>0, <1>3, <2>1, <3>1, <3>2
  <2> DEFINE new == [saving[s] EXCEPT !.at = "configure", !.carried = k # Keep,
                                      !.next = Config(p, IF k = Keep THEN liveCfg.key ELSE k)]
  <2>3. new \in Save
    BY <1>1, <2>1 DEF Save, Steps
  <2>4. saving' = [saving EXCEPT ![s] = new] /\ UNCHANGED <<flags, liveCfg, setRow>>
        /\ overlap' \in BOOLEAN /\ apart' \subseteq {"failure", "overlap"}
    BY <1>1, <1>3 DEF ReadCurrent, Save
  <2> HIDE DEF new
  <2> QED
    BY <1>1, <2>2, <2>3, <2>4 DEF SetTypes, SettingsTyped
<1>4. ASSUME NEW s \in Savers, Configure(s) \/ ResolveLive(s) \/ LoadStoredKey(s) \/ StoreSettings(s)
      PROVE  SetTypes'
  <2>0. Idle \in Save
    BY DEF Idle, Save, Steps, NoRow, Config, Configs, Keys
  <2> USE DEF SetTypes, SettingsTyped
  <2>1. CASE Configure(s)
    <3>1. Normalized(saving[s].next) \in Configs
      BY <1>1, <1>2 DEF Save
    <3> QED
      BY <1>1, <2>1, <3>1 DEF Configure, Save, Steps
  <2>2. CASE ResolveLive(s)
    <3> DEFINE new == [saving[s] EXCEPT !.at = IF saving[s].carried THEN "store" ELSE "load",
                                        !.store = liveCfg]
    <3>1. new \in Save
      BY <1>1 DEF Save, Steps
    <3>2. saving' = [saving EXCEPT ![s] = new] /\ UNCHANGED <<flags, liveCfg, setRow, sent, overlap, apart, saves>>
      BY <1>1, <2>2 DEF ResolveLive, Save
    <3> HIDE DEF new
    <3> QED
      BY <1>1, <3>1, <3>2
  <2>3. CASE LoadStoredKey(s)
    <3>0. PICK k \in {setRow.key, ""} :
            /\ saving' = [saving EXCEPT ![s].at = "store", ![s].store.key = k]
            /\ apart' \subseteq {"failure", "overlap"}
            /\ UNCHANGED <<flags, liveCfg, setRow, sent, overlap, saves>>
      BY <1>1, <2>3 DEF LoadStoredKey
    <3> DEFINE new == [saving[s] EXCEPT !.at = "store", !.store.key = k]
    <3>1. new \in Save
      <4>1. saving[s].store \in Configs /\ k \in Keys
        BY <1>1 DEF Save, Configs, Keys
      <4>2. [saving[s].store EXCEPT !.key = k] \in Configs
        BY <4>1 DEF Configs
      <4> QED
        BY <1>1, <4>2 DEF Save, Steps
    <3>2. saving' = [saving EXCEPT ![s] = new]
      BY <1>1, <3>0 DEF Save, Configs
    <3> HIDE DEF new
    <3> QED
      BY <1>1, <3>0, <3>1, <3>2
  <2>4. CASE StoreSettings(s)
    BY <1>1, <2>0, <2>4 DEF StoreSettings, Save
  <2> QED
    BY <1>4, <2>1, <2>2, <2>3, <2>4
<1>5. CASE RestartProcess
  <2>1. Idle \in Save /\ NoRow \in Configs
    BY DEF Idle, Save, Steps, NoRow, Config, Configs, Keys
  <2>2. Started(flags, setRow) \in Configs /\ Started(flags, NoRow) \in Configs
    BY <1>1, <2>1, StartedTyped
  <2> QED
    BY <1>1, <1>5, <2>1, <2>2 DEF RestartProcess, SetTypes, SettingsTyped
<1> QED
  BY <1>3, <1>4, <1>5 DEF SetNext

\* The calls of the assistant's page are counted.
LEMMA MadeStep == ConvBase /\ made \in 0..MaxCalls /\ [ConvNext]_convVars => made' \in 0..MaxCalls
<1> SUFFICES ASSUME made \in 0..MaxCalls, [ConvNext]_convVars PROVE made' \in 0..MaxCalls
  OBVIOUS
<1>1. made' = made \/ (made < MaxCalls /\ made' = made + 1)
  <2>1. ASSUME NEW s \in Streams, HandlerStep(s) PROVE made' = made
    BY <2>1 DEF HandlerStep, StreamReads, StreamLocks, StreamAppends, StreamLists, Delta, Persist, Unlock
  <2>2. ASSUME NEW s \in Streams, SendMessage(s) \/ Receive(s)
        PROVE  made' = made \/ (made < MaxCalls /\ made' = made + 1)
    BY <2>2 DEF SendMessage, Receive
  <2>3. ASSUME NEW d, Open(d) \/ Delete(d) \/ NewConversation(d) \/ Clear \/ FetchConversations
        PROVE  made' = made \/ (made < MaxCalls /\ made' = made + 1)
    BY <2>3 DEF Open, Delete, NewConversation, Clear, FetchConversations, Ask
  <2>4. ASSUME NEW call \in calls, Answers(call) PROVE made' = made
    BY <2>4 DEF Answers, ServeCreate, ServeOther, OpenAnswered, CreateAnswered, RemoveAnswered, ListAnswered
  <2>5. CASE ConvIdle \/ UNCHANGED convVars
    BY <2>5 DEF ConvIdle, convVars
  <2> QED
    BY <2>1, <2>2, <2>3, <2>4, <2>5 DEF ConvNext
<1> QED
  BY <1>1, ConvAssumption

\* What each part keeps, with what its types rest on.
AllTyped ==
  /\ HubTypeOK /\ Pumps /\ PublishTypeOK /\ Owing /\ ConvBase /\ PageOne /\ made \in 0..MaxCalls
  /\ SetTypes /\ CbInv /\ PageRight /\ Tokens1 /\ part \in Parts

LEMMA AllTypedInit == ServicesInit => AllTyped
<1> SUFFICES ASSUME ServicesInit PROVE AllTyped
  OBVIOUS
<1>1. HubInit /\ PublishInit /\ ConvInit /\ SetInit /\ CbInit /\ PageInit /\ part \in Parts
  BY DEF ServicesInit
<1>2. made \in 0..MaxCalls
  <2>1. made = 0
    BY <1>1 DEF ConvInit
  <2>2. MaxCalls \in Nat
    BY ConvAssumption
  <2> QED
    BY <2>1, <2>2
<1>3. Tokens1
  <2>1. pcalls = {} /\ pmade = 0 /\ pg.token = 0 /\ pg.selected = NoItem
    BY <1>1 DEF PageInit
  <2>2. Movers = {}
    BY <2>1 DEF Movers
  <2> QED
    BY <2>1, <2>2, FS_EmptySet DEF Tokens1, TokenBound
<1> QED
  BY <1>1, <1>2, <1>3, TypeInit, PumpsInit, PublishTypes, PageOneInit, SetTypesInit, CbBaseInit,
     PageRightInit DEF AllTyped, CbInv

LEMMA AllTypedStep == AllTyped /\ [ServicesNext]_servicesVars => AllTyped'
<1> SUFFICES ASSUME AllTyped, [ServicesNext]_servicesVars PROVE AllTyped'
  OBVIOUS
<1>1. /\ [HubNext]_allHubVars /\ [PublishNext]_allVars /\ [ConvNext]_convVars
      /\ [SetNext]_setVars /\ [CbNext]_cbVars /\ [PageNext]_pageVars
  BY PartsMove
<1>2. part' = part
  BY DEF ServicesNext, HubTurn, PublishTurn, ConvTurn, SetTurn, CbTurn, PageTurn, servicesVars
<1>3. HubTypeOK' /\ Pumps'
  BY <1>1, TypeStep, PumpsStep DEF AllTyped
<1>4. PublishTypeOK' /\ Owing'
  BY <1>1, PublishTypes DEF AllTyped
<1>5. ConvBase' /\ PageOne' /\ made' \in 0..MaxCalls
  BY <1>1, PageOneStep, MadeStep DEF AllTyped
<1>6. SetTypes' /\ CbInv'
  BY <1>1, SetTypesStep, CallbackStep DEF AllTyped, CbInv
<1>7. PageRight' /\ Tokens1'
  BY <1>1, PageRightStep, TokensStep DEF AllTyped
<1> QED
  BY <1>2, <1>3, <1>4, <1>5, <1>6, <1>7 DEF AllTyped

\* The types of the hub, the publication, the conversations, the settings, the
\* callbacks and the panes, with the bounds of their buffers, rounds and tokens.
THEOREM ServicesTyped == ServicesSpec => []ServicesTypeOK
<1>1. AllTyped => ServicesTypeOK
  <2> SUFFICES ASSUME AllTyped PROVE ServicesTypeOK
    OBVIOUS
  <2>1. ConvTypeOK
    <3>1. /\ \A c \in Convs : conv[c] \in Row1
          /\ \A s \in Streams : stream[s] \in Request
          /\ calls \subseteq Asked /\ page \in View /\ aiStreams \subseteq Convs /\ raced \in BOOLEAN
      BY DEF AllTyped, ConvBase, ConvTyped
    <3> QED
      BY <3>1 DEF AllTyped, ConvTypeOK, Row1, Request, Asked, View
  <2>2. SetTypeOK
    <3>1. \A s \in Savers : saving[s] \in Save
      BY DEF AllTyped, SetTypes, SettingsTyped
    <3> QED
      BY <3>1 DEF AllTyped, SetTypes, SettingsTyped, SetTypeOK, Save
  <2>3. CbTypeOK
    <3>1. \A i \in Caught : caught[i].at \in {"none", "store", "notify", "over"}
                            /\ caught[i].proto \in {"", "dns", "http"}
      BY DEF AllTyped, CbInv, CbBase, Arrived
    <3>2. oobView.shown \in Seq(Caught) /\ DOMAIN oobView.badges \subseteq Tokens
      BY DEF AllTyped, CbInv, CbBase, Listed, Counts
    <3> QED
      BY <3>1, <3>2 DEF AllTyped, CbInv, CbBase, Stored1, CbTypeOK
  <2>4. PageTypeOK
    <3>1. /\ pg \in Panes /\ frames \in Seq(Feed) /\ kind \in Kinds /\ pmade \in 0..MaxPageCalls
          /\ \A i \in PageItems : server[i] \in Served
      BY DEF AllTyped, PageRight, PageBase, PageTyped, ServerTyped, PaneTyped
    <3>2. \A k \in 1..Len(frames) : frames[k] \in Feed
      BY <3>1
    <3>3. pg.token \in 0..(2 * MaxPageCalls)
      <4>1. pg.token \in Nat /\ Cardinality(Movers) \in Nat
        BY <3>1, FS_CardinalityType DEF Panes, AllTyped, Tokens1
      <4> QED
        BY <3>1, <4>1, PageAssumption DEF AllTyped, Tokens1, TokenBound
    <3>4. DOMAIN pg.list \subseteq PageItems
      BY <3>1, FirstListed DEF Panes
    <3> QED
      BY <3>1, <3>2, <3>3, <3>4 DEF PageTypeOK, Panes, Spots, Feed, Served
  <2> QED
    BY <2>1, <2>2, <2>3, <2>4 DEF AllTyped, ServicesTypeOK
<1> QED
  BY <1>1, AllTypedInit, AllTypedStep, PTL DEF ServicesSpec
=============================================================================
