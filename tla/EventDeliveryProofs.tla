-------------------------- MODULE EventDeliveryProofs --------------------------
(***************************************************************************)
(* Proofs, for any number of sessions and any bounds, that the counters of  *)
(* EventDelivery never run ahead of the handled events, that it implements  *)
(* ReliableDelivery, and that its calm runs repeat nothing.                 *)
(***************************************************************************)
EXTENDS EventDelivery, SequenceTheorems, TLAPS

USE SessionAssumption, BootAssumption, BoundAssumption

-----------------------------------------------------------------------------
(* Type correctness *)

\* The fields of a notification.
LEMMA MessageFields ==
  ASSUME NEW m \in Messages
  PROVE  /\ m.kind \in {"init", "events"}
         /\ m.upto \in 0..MaxPress
         /\ m.boot \in Boots
         /\ m.kind # "init" => /\ m.first \in 1..MaxPress
                               /\ m.upto \in 1..MaxPress
                               /\ m.needsAck \in BOOLEAN
<1>1. CASE m \in [kind : {"init"}, upto : 0..MaxPress, boot : Boots]
  BY <1>1
<1>2. CASE m \in [kind : {"events"}, first : 1..MaxPress, upto : 1..MaxPress, boot : Boots,
                  needsAck : BOOLEAN]
  BY <1>2
<1> QED
  BY <1>1, <1>2 DEF Messages

\* What handlers do to a session keeps its type.
LEMMA SessionUpdates ==
  ASSUME NEW r \in SessionRecords, NEW n \in 0..MaxPress, NEW b \in Boots
  PROVE  /\ [r EXCEPT !.count = n] \in SessionRecords
         /\ [r EXCEPT !.count = n, !.boot = b] \in SessionRecords
         /\ [r EXCEPT !.state = "failed"] \in SessionRecords
         /\ [r EXCEPT !.current = FALSE] \in SessionRecords
BY DEF SessionRecords

\* What goes wrong is taken from the budget.
LEMMA BudgetSpent ==
  ASSUME NEW l \in BudgetRecords
  PROVE  /\ l.press \in 0..MaxPress
         /\ l.crash > 0 => [l EXCEPT !.crash = @ - 1] \in BudgetRecords
         /\ l.unload > 0 => [l EXCEPT !.unload = @ - 1] \in BudgetRecords
         /\ l.loss > 0 => [l EXCEPT !.loss = @ - 1] \in BudgetRecords
         /\ l.reboot > 0 => [l EXCEPT !.reboot = @ - 1] \in BudgetRecords
BY DEF BudgetRecords

\* A prefix of a queue.
LEMMA Prefix ==
  ASSUME NEW S, NEW q \in Seq(S), NEW k \in 0..Len(q)
  PROVE  /\ SubSeq(q, 1, k) \in Seq(S)
         /\ Len(SubSeq(q, 1, k)) = k
         /\ \A i \in 1..k : SubSeq(q, 1, k)[i] = q[i]
<1>1. Len(q) \in Nat /\ k \in Nat /\ \A i \in 1..k : q[i] \in S
  BY ElementOfSeq, LenProperties
<1>2. \A i \in 1..k - 1 + 1 : SubSeq(q, 1, k)[i] = q[1 + i - 1]
  BY <1>1, SubSeqProperties
<1>3. /\ SubSeq(q, 1, k) \in Seq(S)
      /\ Len(SubSeq(q, 1, k)) = IF 1 <= k THEN k - 1 + 1 ELSE 0
  BY <1>1, SubSeqProperties
<1> QED
  BY <1>1, <1>2, <1>3

\* The end of a link keeps the types of what it changes.
LEMMA LinkEndsTypes ==
  ASSUME TypeOK, NEW s \in Sessions, LinkEnds(s)
  PROVE  /\ link' \in Sessions \cup {NoSession} /\ serving' \in BOOLEAN
         /\ sent' \in 0..MaxPress
         /\ acks' \in [Sessions -> Seq(1..MaxPress)]
         /\ inbox' \in [Sessions -> Seq(Messages)]
<1>1. PICK k \in 0..Len(inbox[s]) : inbox' = [inbox EXCEPT ![s] = SubSeq(@, 1, k)]
  BY DEF LinkEnds
<1>2. SubSeq(inbox[s], 1, k) \in Seq(Messages)
  BY Prefix DEF TypeOK
<1>3. <<>> \in Seq(1..MaxPress)
  BY EmptySeq
<1>4. inbox' \in [Sessions -> Seq(Messages)]
  <2>1. inbox' = [inbox EXCEPT ![s] = SubSeq(inbox[s], 1, k)] /\ inbox \in [Sessions -> Seq(Messages)]
    BY <1>1 DEF TypeOK
  <2> QED
    BY <2>1, <1>2
<1>5. acks' \in [Sessions -> Seq(1..MaxPress)]
  <2>1. acks' = [acks EXCEPT ![s] = <<>>] /\ acks \in [Sessions -> Seq(1..MaxPress)]
    BY DEF LinkEnds, TypeOK
  <2> QED
    BY <2>1, <1>3
<1>6. link' = NoSession /\ serving' \in BOOLEAN
  BY DEF LinkEnds
<1>7. sent' \in 0..MaxPress
  BY DEF LinkEnds
<1> QED
  BY <1>4, <1>5, <1>6, <1>7

LEMMA TypeInit == Init => TypeOK
<1> SUFFICES ASSUME Init PROVE TypeOK
  OBVIOUS
<1>1. <<>> \in Seq(Messages) /\ <<>> \in Seq(1..MaxPress)
  BY EmptySeq
<1>2. 1 \in Boots /\ 0 \in 0..MaxPress
  BY DEF Boots
<1>3. session \in [Sessions -> SessionRecords] /\ entryData \in Counters /\ disk \in Counters
  BY <1>2 DEF Init, SessionRecords, Counters
<1>4. left \in BudgetRecords
  BY BudgetAssumption DEF Init
<1> QED
  BY <1>1, <1>2, <1>3, <1>4 DEF Init, TypeOK, Phases

\* The next notification of a session.
LEMMA Popped ==
  ASSUME TypeOK, NEW s \in Sessions, Next1(s)
  PROVE  /\ inbox' \in [Sessions -> Seq(Messages)]
         /\ Head(inbox[s]) \in Messages
         /\ 1 \in 1..Len(inbox[s]) /\ Head(inbox[s]) = inbox[s][1]
         /\ Len(inbox'[s]) = Len(inbox[s]) - 1
         /\ \A i \in 1..Len(inbox'[s]) : i + 1 \in 1..Len(inbox[s]) /\ inbox'[s][i] = inbox[s][i + 1]
         /\ \A r \in Sessions \ {s} : inbox'[r] = inbox[r]
<1>1. inbox[s] \in Seq(Messages) /\ inbox[s] # <<>>
  BY DEF TypeOK, Next1
<1>2. Len(inbox[s]) \in Nat \ {0}
  BY <1>1, EmptySeq
<1>3. inbox' = [inbox EXCEPT ![s] = Tail(@)] /\ inbox \in [Sessions -> Seq(Messages)]
  BY DEF Next1, TypeOK
<1> QED
  BY <1>1, <1>2, <1>3, HeadTailProperties

\* A notification that the button appends.
LEMMA Appended ==
  ASSUME TypeOK, NEW s \in Sessions, NEW m \in Messages,
         inbox' = [inbox EXCEPT ![s] = Append(@, m)]
  PROVE  /\ inbox' \in [Sessions -> Seq(Messages)]
         /\ Len(inbox[s]) \in Nat
         /\ Len(inbox'[s]) = Len(inbox[s]) + 1
         /\ \A i \in 1..Len(inbox[s]) : inbox'[s][i] = inbox[s][i]
         /\ inbox'[s][Len(inbox[s]) + 1] = m
         /\ \A r \in Sessions \ {s} : inbox'[r] = inbox[r]
<1>1. inbox[s] \in Seq(Messages) /\ inbox \in [Sessions -> Seq(Messages)]
  BY DEF TypeOK
<1> QED
  BY <1>1, AppendProperties, LenProperties

\* Handling a notification keeps the types.
LEMMA HandleTypes ==
  ASSUME TypeOK, NEW s \in Sessions, Handle(s)
  PROVE  TypeOK'
<1> DEFINE m == Head(inbox[s])
<1>1. inbox' \in [Sessions -> Seq(Messages)] /\ m \in Messages
  BY Popped DEF Handle
<1>2. m.upto \in 0..MaxPress /\ m.boot \in Boots
  BY <1>1, MessageFields
<1>3. session[s] \in SessionRecords
  BY DEF TypeOK
<1>4. /\ UNCHANGED <<phase, listening, disk, link, boot, pressed, forgotten, serving, sent, left>>
      /\ IF m.kind = "init" THEN HandleInit(s, m) ELSE HandleEvents(s, m)
  BY DEF Handle, entryVars, buttonVars
<1> HIDE DEF m
<1>5. CASE m.kind = "init"
  <2>1. /\ session' = [session EXCEPT ![s] = [session[s] EXCEPT !.count = m.upto, !.boot = m.boot]]
        /\ UNCHANGED <<acking, acks, handled, heard>>
    BY <1>4, <1>5 DEF HandleInit, historyVars
  <2>2. session' \in [Sessions -> SessionRecords]
    BY <1>2, <1>3, <2>1, SessionUpdates DEF TypeOK
  <2>3. entryData' \in Counters
    BY <1>4, <1>5, <2>2 DEF HandleInit, Store, Counters, SessionRecords
  <2> QED
    BY <1>1, <1>4, <2>1, <2>2, <2>3 DEF TypeOK
<1>6. CASE m.kind # "init"
  <2>1. m.upto \in 1..MaxPress /\ m.first \in 1..MaxPress
    BY <1>1, <1>6, MessageFields
  <2>2. HandleEvents(s, m)
    BY <1>4, <1>6
  <2>3. session' \in [Sessions -> SessionRecords]
    <3>1. session' = [session EXCEPT ![s] = [session[s] EXCEPT !.count = m.upto]]
      BY <2>2 DEF HandleEvents
    <3> QED
      BY <1>2, <1>3, <3>1, SessionUpdates DEF TypeOK
  <2>4. entryData' \in Counters
    BY <2>2, <2>3 DEF HandleEvents, Store, Counters, SessionRecords
  <2>5. acks' \in [Sessions -> Seq(1..MaxPress)]
    <3>1. Append(acks[s], m.upto) \in Seq(1..MaxPress)
      BY <2>1, AppendProperties DEF TypeOK
    <3>2. acks' = acks \/ acks' = [acks EXCEPT ![s] = Append(acks[s], m.upto)]
      BY <2>2 DEF HandleEvents
    <3> QED
      BY <3>1, <3>2 DEF TypeOK
  <2>6. acking' \in SUBSET Sessions
    BY <2>2 DEF HandleEvents, TypeOK
  <2>7. m.first..m.upto \in SUBSET (1..MaxPress)
    BY <2>1
  <2>8. handled' \in [Boots -> SUBSET (1..MaxPress)]
    <3>1. handled' = [handled EXCEPT ![m.boot] = handled[m.boot] \cup m.first..m.upto]
      BY <2>2 DEF HandleEvents
    <3> QED
      BY <1>2, <2>7, <3>1 DEF TypeOK
  <2>9. heard' \in [Boots -> SUBSET (1..MaxPress)]
    <3>1. \/ heard' = heard
          \/ heard' = [heard EXCEPT ![m.boot] = heard[m.boot] \cup m.first..m.upto]
      BY <2>2 DEF HandleEvents, Fire
    <3>2. heard \in [Boots -> SUBSET (1..MaxPress)]
      BY DEF TypeOK
    <3>3. heard[m.boot] \cup m.first..m.upto \in SUBSET (1..MaxPress)
      BY <1>2, <2>7, <3>2
    <3> QED
      BY <3>1, <3>2, <3>3
  <2> QED
    BY <1>1, <1>4, <2>3, <2>4, <2>5, <2>6, <2>8, <2>9 DEF TypeOK
<1> QED
  BY <1>5, <1>6

LEMMA TypeStep == TypeOK /\ [Next]_vars => TypeOK'
<1> SUFFICES ASSUME TypeOK, [Next]_vars PROVE TypeOK'
  OBVIOUS
<1> USE DEF entryVars, dataVars, sessionVars, linkVars, buttonVars, historyVars
<1> DEFINE LinkTypes ==
      /\ link' \in Sessions \cup {NoSession} /\ serving' \in BOOLEAN /\ sent' \in 0..MaxPress
      /\ acks' \in [Sessions -> Seq(1..MaxPress)] /\ inbox' \in [Sessions -> Seq(Messages)]
<1>1. CASE Setup
  BY <1>1 DEF TypeOK, Setup, Phases
<1>2. CASE Subscribe
  BY <1>2 DEF TypeOK, Subscribe, Phases
<1>3. ASSUME NEW ok \in BOOLEAN, UnloadPlatforms(ok) PROVE TypeOK'
  <2>1. left' \in BudgetRecords
    BY <1>3, BudgetSpent DEF TypeOK, UnloadPlatforms
  <2>2. phase' \in Phases /\ listening' \in BOOLEAN
    BY <1>3 DEF TypeOK, UnloadPlatforms, Phases
  <2> QED
    BY <1>3, <2>1, <2>2 DEF TypeOK, UnloadPlatforms
<1>4. CASE StopDevice
  <2>1. LinkTypes
    BY <1>4, LinkEndsTypes DEF TypeOK, StopDevice
  <2>2. session' \in [Sessions -> SessionRecords]
    <3>1. 0 \in 0..MaxPress /\ 1 \in Boots
      BY DEF Boots
    <3> QED
      BY <1>4, <3>1, SessionUpdates DEF TypeOK, StopDevice
  <2> QED
    BY <1>4, <2>1, <2>2 DEF TypeOK, StopDevice, Phases
<1>5. CASE Save
  BY <1>5 DEF TypeOK, Save
<1>6. CASE Crash
  <2>1. <<>> \in Seq(Messages) /\ <<>> \in Seq(1..MaxPress)
    BY EmptySeq
  <2>2. session' \in [Sessions -> SessionRecords]
    BY <1>6 DEF Crash, SessionRecords
  <2>3. left' \in BudgetRecords
    BY <1>6, BudgetSpent DEF TypeOK, Crash
  <2>4. inbox' \in [Sessions -> Seq(Messages)] /\ acks' \in [Sessions -> Seq(1..MaxPress)]
    BY <1>6, <2>1 DEF Crash
  <2>5. /\ phase' \in Phases /\ listening' \in BOOLEAN /\ serving' \in BOOLEAN
        /\ acking' \in SUBSET Sessions /\ link' = NoSession
        /\ entryData' = disk
        /\ UNCHANGED <<disk, boot, pressed, forgotten, handled, heard>>
    BY <1>6 DEF Crash, Phases
  <2>6. sent' \in 0..MaxPress
    BY <1>6 DEF Crash
  <2> QED
    BY <2>2, <2>3, <2>4, <2>5, <2>6 DEF TypeOK
<1>7. ASSUME NEW s \in Sessions, Open(s) PROVE TypeOK'
  <2>1. session' \in [Sessions -> SessionRecords]
    BY <1>7 DEF TypeOK, Open, Counters, SessionRecords
  <2> QED
    BY <1>7, <2>1 DEF TypeOK, Open
<1>8. ASSUME NEW s \in Sessions, Handle(s) PROVE TypeOK'
  BY <1>8, HandleTypes
<1>9. ASSUME NEW s \in Sessions, Ignore(s) PROVE TypeOK'
  <2>1. inbox' \in [Sessions -> Seq(Messages)]
    BY <1>9, Popped DEF Ignore
  <2> QED
    BY <1>9, <2>1 DEF TypeOK, Ignore
<1>10. ASSUME NEW s \in Sessions, AckReturns(s) PROVE TypeOK'
  BY <1>10 DEF TypeOK, AckReturns
<1>11. ASSUME NEW s \in Sessions, AckRaises(s) PROVE TypeOK'
  <2>1. session' \in [Sessions -> SessionRecords]
    <3>1. 0 \in 0..MaxPress /\ 1 \in Boots /\ session \in [Sessions -> SessionRecords]
      BY DEF TypeOK, Boots
    <3>2. session' = [session EXCEPT ![s] = [session[s] EXCEPT !.state = "failed"]]
      BY <1>11 DEF AckRaises
    <3> QED
      BY <3>1, <3>2, SessionUpdates
  <2> QED
    BY <1>11, <2>1 DEF TypeOK, AckRaises
<1>12. ASSUME NEW s \in Sessions, Close(s) PROVE TypeOK'
  <2>1. LinkTypes
    BY <1>12, LinkEndsTypes DEF Close
  <2> QED
    BY <1>12, <2>1 DEF TypeOK, Close
<1>13. ASSUME NEW s \in Sessions, LinkLost(s) PROVE TypeOK'
  <2>1. LinkTypes
    BY <1>13, LinkEndsTypes DEF LinkLost
  <2>2. left' \in BudgetRecords
    BY <1>13, BudgetSpent DEF TypeOK, LinkLost
  <2> QED
    BY <1>13, <2>1, <2>2 DEF TypeOK, LinkLost
<1>14. CASE Press
  <2>1. left.press \in 0..MaxPress /\ pressed[boot] \in 0..MaxPress
    BY BudgetSpent DEF TypeOK
  <2>2. pressed[boot] + 1 \in 0..MaxPress
    BY <1>14, <2>1 DEF Press
  <2>3. pressed' \in [Boots -> 0..MaxPress]
    BY <1>14, <2>2 DEF Press, TypeOK
  <2> QED
    BY <1>14, <2>3 DEF TypeOK, Press
<1>15. ASSUME NEW s \in Sessions, ButtonInit(s) PROVE TypeOK'
  <2>1. sent' \in 0..MaxPress
    BY <1>15 DEF ButtonInit, TypeOK, SessionRecords, Higher
  <2>2. [kind |-> "init", upto |-> sent', boot |-> boot] \in Messages
    BY <2>1 DEF Messages, TypeOK
  <2>3. inbox' \in [Sessions -> Seq(Messages)]
    BY <1>15, <2>2, Appended DEF ButtonInit
  <2> QED
    BY <1>15, <2>1, <2>3 DEF TypeOK, ButtonInit
<1>16. ASSUME NEW s \in Sessions, NEW n \in 1..MaxPress, NEW needsAck \in BOOLEAN,
              ButtonSends(s, n, needsAck)
       PROVE  TypeOK'
  <2>1. [kind |-> "events", first |-> sent + 1, upto |-> n, boot |-> boot,
         needsAck |-> needsAck] \in Messages
    BY <1>16 DEF ButtonSends, Messages, TypeOK
  <2>2. inbox' \in [Sessions -> Seq(Messages)]
    BY <1>16, <2>1, Appended DEF ButtonSends
  <2> QED
    BY <1>16, <2>2 DEF TypeOK, ButtonSends
<1>17. ASSUME NEW s \in Sessions, AckArrives(s) PROVE TypeOK'
  <2>1. Head(acks[s]) \in 1..MaxPress /\ Tail(acks[s]) \in Seq(1..MaxPress)
    BY <1>17, HeadTailProperties DEF AckArrives, TypeOK
  <2>2. Higher(forgotten[boot], Head(acks[s])) \in 0..MaxPress
    BY <2>1 DEF Higher, TypeOK
  <2>3. forgotten' \in [Boots -> 0..MaxPress]
    BY <1>17, <2>2 DEF AckArrives, TypeOK
  <2>4. acks' \in [Sessions -> Seq(1..MaxPress)]
    BY <1>17, <2>1 DEF AckArrives, TypeOK
  <2> QED
    BY <1>17, <2>3, <2>4 DEF TypeOK, AckArrives
<1>18. CASE Reboot
  <2>1. LinkTypes
    BY <1>18, LinkEndsTypes DEF TypeOK, Reboot
  <2>2. left' \in BudgetRecords
    BY <1>18, BudgetSpent DEF TypeOK, Reboot
  <2>3. boot' \in Boots
    BY <1>18 DEF Reboot
  <2> QED
    BY <1>18, <2>1, <2>2, <2>3 DEF TypeOK, Reboot
<1>19. CASE UNCHANGED vars
  BY <1>19 DEF TypeOK, vars
<1> QED
  BY <1>1, <1>2, <1>3, <1>4, <1>5, <1>6, <1>7, <1>8, <1>9, <1>10, <1>11, <1>12, <1>13,
     <1>14, <1>15, <1>16, <1>17, <1>18, <1>19
  DEF Next, EntryStep, SessionStep, ButtonStep

\* Every variable keeps its domain; in particular the button is never told to
\* forget more events than it has, and a handled event has a count.
THEOREM TypeCorrect == Spec => []TypeOK
<1> QED
  BY TypeInit, TypeStep, PTL DEF Spec

-----------------------------------------------------------------------------
(* The inductive invariant *)

\* Nothing that the invariant is about changes.
LEMMA Untouched ==
  ASSUME IInv,
         UNCHANGED <<entryData, disk, session, inbox, acks, link, boot, pressed,
                     forgotten, serving, sent, handled>>
  PROVE  IInv'
<1>1. HandledPrefix' /\ ForgottenHandled' /\ CountsAreHandled' /\ NotesTrue'
  BY DEF IInv, HandledPrefix, ForgottenHandled, CountsAreHandled, NotesTrue
<1>2. Contiguous' /\ LinkCurrent' /\ AcksHandled'
  BY DEF IInv, Contiguous, CountBefore, BootBefore, LinkCurrent, AcksHandled
<1> QED
  BY <1>1, <1>2 DEF IInv

\* What is kept as a count, for one session.
LEMMA CountsOf ==
  ASSUME CountsAreHandled
  PROVE  /\ entryData.boot = 0 \/ 1..entryData.count \subseteq handled[entryData.boot]
         /\ disk.boot = 0 \/ 1..disk.count \subseteq handled[disk.boot]
         /\ \A s \in Sessions :
              session[s].boot = 0 \/ 1..session[s].count \subseteq handled[session[s].boot]
BY DEF CountsAreHandled

\* The other way round, for the next state.
LEMMA CountsNext ==
  ASSUME entryData'.boot = 0 \/ 1..entryData'.count \subseteq handled'[entryData'.boot],
         disk'.boot = 0 \/ 1..disk'.count \subseteq handled'[disk'.boot],
         \A s \in Sessions :
            session'[s].boot = 0 \/ 1..session'[s].count \subseteq handled'[session'[s].boot]
  PROVE  CountsAreHandled'
BY DEF CountsAreHandled

\* The link is down after the step, and a prefix of each queue is left.
LEMMA LinkGone ==
  ASSUME TypeOK, TypeOK', IInv,
         link' = NoSession, ~serving',
         \A r \in Sessions : acks'[r] = <<>>,
         \A r \in Sessions : /\ Len(inbox'[r]) <= Len(inbox[r])
                              /\ \A i \in 1..Len(inbox'[r]) : inbox'[r][i] = inbox[r][i],
         \A r \in Sessions : /\ session'[r].state = session[r].state
                              /\ session'[r].count = session[r].count
                              /\ session'[r].boot = session[r].boot,
         UNCHANGED <<entryData, disk, pressed, forgotten, handled>>
  PROVE  IInv'
<1>1. \A r \in Sessions : Len(inbox[r]) \in Nat /\ Len(inbox'[r]) \in Nat
  BY LenProperties DEF TypeOK
<1>2. \A r \in Sessions : 1..Len(inbox'[r]) \subseteq 1..Len(inbox[r])
  BY <1>1
<1>3. HandledPrefix' /\ ForgottenHandled'
  BY DEF IInv, HandledPrefix, ForgottenHandled
<1>4. CountsAreHandled'
  BY CountsOf, CountsNext DEF IInv
<1>5. NotesTrue'
  BY <1>2 DEF IInv, NotesTrue
<1>6. Contiguous'
  <2> SUFFICES ASSUME NEW r \in Sessions, session'[r].state = "open",
                      NEW i \in 1..Len(inbox'[r]), inbox'[r][i].kind = "events"
               PROVE  /\ inbox'[r][i].first = CountBefore(r, i)' + 1
                      /\ inbox'[r][i].boot = BootBefore(r, i)'
    BY DEF Contiguous
  <2>1. /\ inbox[r][i].first = CountBefore(r, i) + 1
        /\ inbox[r][i].boot = BootBefore(r, i)
    BY <1>2 DEF IInv, Contiguous
  <2>2. i # 1 => i - 1 \in 1..Len(inbox'[r])
    BY <1>1
  <2>3. CountBefore(r, i)' = CountBefore(r, i) /\ BootBefore(r, i)' = BootBefore(r, i)
    BY <2>2 DEF CountBefore, BootBefore
  <2> QED
    BY <2>1, <2>3
<1>7. LinkCurrent'
  BY SessionAssumption DEF LinkCurrent
<1>8. AcksHandled'
  <2>1. \A r \in Sessions : Len(acks'[r]) = 0
    BY EmptySeq
  <2> QED
    BY <2>1 DEF AcksHandled
<1> QED
  BY <1>3, <1>4, <1>5, <1>6, <1>7, <1>8 DEF IInv

\* The end of a link leaves no acknowledgement and a prefix of each queue.
LEMMA LinkEndsGone ==
  ASSUME TypeOK, IInv, link \in Sessions, LinkEnds(link)
  PROVE  /\ link' = NoSession /\ ~serving'
         /\ \A r \in Sessions : acks'[r] = <<>>
         /\ \A r \in Sessions : /\ Len(inbox'[r]) <= Len(inbox[r])
                                 /\ \A i \in 1..Len(inbox'[r]) : inbox'[r][i] = inbox[r][i]
<1>1. link' = NoSession /\ ~serving'
  BY DEF LinkEnds
<1>2. ASSUME NEW r \in Sessions PROVE acks'[r] = <<>>
  <2>1. acks' = [acks EXCEPT ![link] = <<>>] /\ acks \in [Sessions -> Seq(1..MaxPress)]
    BY DEF LinkEnds, TypeOK
  <2>2. CASE r = link
    BY <2>1, <2>2
  <2>3. CASE r # link
    <3>1. acks'[r] = acks[r] /\ acks[r] \in Seq(1..MaxPress)
      BY <2>1, <2>3
    <3>2. \A i \in 1..Len(acks[r]) : FALSE
      BY <2>3 DEF IInv, AcksHandled
    <3>3. Len(acks[r]) \in Nat
      BY <3>1, LenProperties
    <3>4. Len(acks[r]) = 0
      BY <3>2, <3>3
    <3> QED
      BY <3>1, <3>4, EmptySeq
  <2> QED
    BY <2>2, <2>3
<1>3. ASSUME NEW r \in Sessions
      PROVE  /\ Len(inbox'[r]) <= Len(inbox[r])
             /\ \A i \in 1..Len(inbox'[r]) : inbox'[r][i] = inbox[r][i]
  <2>1. PICK k \in 0..Len(inbox[link]) :
            inbox' = [inbox EXCEPT ![link] = SubSeq(inbox[link], 1, k)]
    BY DEF LinkEnds
  <2>2. \A t \in Sessions : inbox[t] \in Seq(Messages) /\ Len(inbox[t]) \in Nat
    BY LenProperties DEF TypeOK
  <2>3. CASE r = link
    <3>1. inbox'[r] = SubSeq(inbox[link], 1, k)
      BY <2>1, <2>3 DEF TypeOK
    <3>2. /\ Len(SubSeq(inbox[link], 1, k)) = k
          /\ \A i \in 1..k : SubSeq(inbox[link], 1, k)[i] = inbox[link][i]
      BY <2>2, Prefix
    <3> QED
      BY <2>2, <2>3, <3>1, <3>2
  <2>4. CASE r # link
    <3>1. inbox'[r] = inbox[r]
      BY <2>1, <2>4 DEF TypeOK
    <3> QED
      BY <2>2, <3>1
  <2> QED
    BY <2>3, <2>4
<1> QED
  BY <1>1, <1>2, <1>3

\* Without a link there is nothing to lose.
LEMMA NoLink ==
  ASSUME TypeOK, IInv, link = NoSession
  PROVE  ~serving /\ \A r \in Sessions : acks[r] = <<>>
<1>1. ~serving
  BY DEF IInv, LinkCurrent
<1>2. ASSUME NEW r \in Sessions PROVE acks[r] = <<>>
  <2>1. acks[r] \in Seq(1..MaxPress)
    BY DEF TypeOK
  <2>2. \A i \in 1..Len(acks[r]) : FALSE
    BY SessionAssumption DEF IInv, AcksHandled
  <2>3. Len(acks[r]) \in Nat
    BY <2>1, LenProperties
  <2>4. Len(acks[r]) = 0
    BY <2>2, <2>3
  <2> QED
    BY <2>1, <2>4, EmptySeq
<1> QED
  BY <1>1, <1>2

LEMMA InvInit == Init => IInv
<1> SUFFICES ASSUME Init PROVE IInv
  OBVIOUS
<1>0. 1..0 = {} /\ 0 \in 0..0
  OBVIOUS
<1>1. \A b \in Boots : handled[b] = 1..0 /\ pressed[b] = 0 /\ forgotten[b] = 0
  BY <1>0 DEF Init
<1>2. HandledPrefix /\ ForgottenHandled
  BY <1>0, <1>1 DEF HandledPrefix, ForgottenHandled
<1>3. 1 \in Boots
  BY DEF Boots
<1>4. CountsAreHandled
  BY <1>0, <1>3 DEF Init, CountsAreHandled
<1>5. \A s \in Sessions : 1..Len(inbox[s]) = {} /\ 1..Len(acks[s]) = {}
  <2>1. \A s \in Sessions : Len(inbox[s]) = 0 /\ Len(acks[s]) = 0
    BY EmptySeq DEF Init
  <2> QED
    BY <1>0, <2>1
<1>6. NotesTrue /\ Contiguous /\ AcksHandled
  BY <1>5 DEF NotesTrue, Contiguous, AcksHandled
<1>7. LinkCurrent
  BY SessionAssumption DEF Init, LinkCurrent
<1> QED
  BY <1>2, <1>4, <1>6, <1>7 DEF IInv

\* A session that takes its next notification for its new counters is where it
\* was to be by then.
LEMMA Advanced ==
  ASSUME TypeOK, NEW s \in Sessions, Next1(s),
         session'[s].count = Head(inbox[s]).upto, session'[s].boot = Head(inbox[s]).boot
  PROVE  \A i \in 1..Len(inbox'[s]) + 1 :
            CountBefore(s, i)' = CountBefore(s, i + 1) /\ BootBefore(s, i)' = BootBefore(s, i + 1)
<1> SUFFICES ASSUME NEW i \in 1..Len(inbox'[s]) + 1
             PROVE  /\ CountBefore(s, i)' = CountBefore(s, i + 1)
                    /\ BootBefore(s, i)' = BootBefore(s, i + 1)
  OBVIOUS
<1>1. Len(inbox'[s]) \in Nat
  BY Popped, LenProperties
<1>2. i + 1 # 1 /\ i + 1 - 1 = i
  BY <1>1
<1>3. CASE i = 1
  <2>1. Head(inbox[s]) = inbox[s][1]
    BY Popped
  <2> QED
    BY <1>2, <1>3, <2>1 DEF CountBefore, BootBefore
<1>4. CASE i # 1
  <2>1. i - 1 \in 1..Len(inbox'[s]) /\ (i - 1) + 1 = i
    BY <1>1, <1>4
  <2>2. inbox'[s][i - 1] = inbox[s][i]
    BY <2>1, Popped
  <2> QED
    BY <1>2, <1>4, <2>2 DEF CountBefore, BootBefore
<1> QED
  BY <1>3, <1>4

\* What handling a notification means for the queues and the link, whatever it
\* was: the session goes where the notification says.
LEMMA AdvancedQueues ==
  ASSUME TypeOK, TypeOK', IInv, NEW s \in Sessions, Next1(s),
         session'[s].state = "open", session[s].state = "open",
         session'[s].count = Head(inbox[s]).upto, session'[s].boot = Head(inbox[s]).boot,
         \A r \in Sessions \ {s} : session'[r] = session[r],
         UNCHANGED <<link, boot, serving, sent>>
  PROVE  Contiguous' /\ LinkCurrent'
<1>1. Contiguous'
  <2> SUFFICES ASSUME NEW r \in Sessions, session'[r].state = "open",
                      NEW i \in 1..Len(inbox'[r]), inbox'[r][i].kind = "events"
               PROVE  /\ inbox'[r][i].first = CountBefore(r, i)' + 1
                      /\ inbox'[r][i].boot = BootBefore(r, i)'
    BY DEF Contiguous
  <2>1. CASE r = s
    <3>1. i + 1 \in 1..Len(inbox[s]) /\ inbox'[s][i] = inbox[s][i + 1]
      BY <2>1, Popped
    <3>2. /\ inbox[s][i + 1].first = CountBefore(s, i + 1) + 1
          /\ inbox[s][i + 1].boot = BootBefore(s, i + 1)
      BY <2>1, <3>1 DEF IInv, Contiguous
    <3>3. Len(inbox'[s]) \in Nat
      BY LenProperties DEF TypeOK
    <3>4. i \in 1..Len(inbox'[s]) + 1
      BY <2>1, <3>3
    <3> QED
      BY <2>1, <3>1, <3>2, <3>4, Advanced
  <2>2. CASE r # s
    <3>1. inbox'[r] = inbox[r] /\ session'[r] = session[r]
      BY <2>2, Popped
    <3> QED
      BY <3>1 DEF IInv, Contiguous, CountBefore, BootBefore
  <2> QED
    BY <2>1, <2>2
<1>2. LinkCurrent'
  <2>1. link' = NoSession => ~serving'
    BY DEF IInv, LinkCurrent
  <2>2. ASSUME NEW r \in Sessions, link' = r
        PROVE  /\ \A i \in 1..Len(inbox'[r]) : inbox'[r][i].boot = boot'
               /\ ~serving' => inbox'[r] = <<>>
               /\ serving' /\ session'[r].state = "open" =>
                    /\ sent' = CountBefore(r, Len(inbox[r]) + 1)'
                    /\ boot' = BootBefore(r, Len(inbox[r]) + 1)'
    <3>1. CASE r = s
      <4>1. /\ \A i \in 1..Len(inbox[s]) : inbox[s][i].boot = boot
            /\ ~serving => inbox[s] = <<>>
            /\ serving => /\ sent = CountBefore(s, Len(inbox[s]) + 1)
                          /\ boot = BootBefore(s, Len(inbox[s]) + 1)
        BY <2>2, <3>1 DEF IInv, LinkCurrent
      <4>2. serving
        BY <4>1 DEF Next1
      <4>3. PICK n \in Nat : Len(inbox'[s]) = n
        BY LenProperties DEF TypeOK
      <4>4. Len(inbox[s]) = n + 1
        <5>1. Len(inbox[s]) \in Nat /\ n = Len(inbox[s]) - 1
          BY <4>3, Popped, LenProperties DEF TypeOK
        <5> QED
          BY <5>1
      <4>5. \A i \in 1..Len(inbox'[s]) : inbox'[s][i].boot = boot'
        BY <4>1, Popped
      <4>6. /\ CountBefore(s, n + 1)' = CountBefore(s, n + 1 + 1)
            /\ BootBefore(s, n + 1)' = BootBefore(s, n + 1 + 1)
        <5>1. n + 1 \in 1..Len(inbox'[s]) + 1
          BY <4>3
        <5> QED
          BY <5>1, Advanced
      <4>7. /\ CountBefore(s, Len(inbox[s]) + 1)' = CountBefore(s, Len(inbox[s]) + 1)
            /\ BootBefore(s, Len(inbox[s]) + 1)' = BootBefore(s, Len(inbox[s]) + 1)
        BY <4>3, <4>4, <4>6 DEF CountBefore, BootBefore
      <4> QED
        BY <3>1, <4>1, <4>2, <4>5, <4>7
    <3>2. CASE r # s
      <4>1. inbox'[r] = inbox[r] /\ session'[r] = session[r]
        BY <3>2, Popped
      <4> QED
        BY <2>2, <4>1 DEF IInv, LinkCurrent, CountBefore, BootBefore
    <3> QED
      BY <3>1, <3>2
  <2> QED
    BY <2>1, <2>2 DEF LinkCurrent
<1> QED
  BY <1>1, <1>2

\* What is left of the queues still carries true counts, however much more is
\* handled.
LEMMA PoppedNotes ==
  ASSUME TypeOK, IInv, NEW s \in Sessions, Next1(s), UNCHANGED pressed,
         \A b \in Boots : handled[b] \subseteq handled'[b]
  PROVE  NotesTrue'
<1> SUFFICES ASSUME NEW r \in Sessions, NEW i \in 1..Len(inbox'[r])
             PROVE  LET m == inbox'[r][i] IN
                    IF m.kind = "init" THEN 1..m.upto \subseteq handled'[m.boot]
                    ELSE m.first <= m.upto /\ m.upto <= pressed'[m.boot]
  BY DEF NotesTrue
<1>1. \E j \in 1..Len(inbox[r]) : inbox'[r][i] = inbox[r][j]
  <2>1. CASE r = s
    BY <2>1, Popped
  <2>2. CASE r # s
    BY <2>2, Popped
  <2> QED
    BY <2>1, <2>2
<1>2. PICK j \in 1..Len(inbox[r]) : inbox'[r][i] = inbox[r][j]
  BY <1>1
<1>3. inbox[r][j] \in Messages
  BY ElementOfSeq DEF TypeOK
<1>4. inbox[r][j].boot \in Boots
  BY <1>3, MessageFields
<1>5. LET m == inbox[r][j] IN
      IF m.kind = "init" THEN 1..m.upto \subseteq handled[m.boot]
      ELSE m.first <= m.upto /\ m.upto <= pressed[m.boot]
  BY DEF IInv, NotesTrue
<1> QED
  BY <1>2, <1>4, <1>5

\* Handling an init response: its count is of handled events.
LEMMA InvHandleInit ==
  ASSUME TypeOK, TypeOK', IInv, NEW s \in Sessions, Handle(s), Head(inbox[s]).kind = "init"
  PROVE  IInv'
<1> DEFINE m == Head(inbox[s])
<1>1. /\ Next1(s) /\ session[s].state = "open"
      /\ UNCHANGED <<disk, link, boot, pressed, forgotten, serving, sent>>
      /\ HandleInit(s, m)
  BY DEF Handle, buttonVars
<1>2. UNCHANGED <<acks, handled>>
  BY <1>1 DEF HandleInit, historyVars
<1>3. session \in [Sessions -> SessionRecords] /\ session[s] \in SessionRecords
  BY DEF TypeOK
<1>4. /\ session'[s].state = "open" /\ session'[s].count = m.upto /\ session'[s].boot = m.boot
      /\ \A r \in Sessions \ {s} : session'[r] = session[r]
  <2>1. session' = [session EXCEPT ![s] = [session[s] EXCEPT !.count = m.upto, !.boot = m.boot]]
    BY <1>1 DEF HandleInit
  <2> HIDE DEF m
  <2> QED
    BY <1>1, <1>3, <2>1 DEF SessionRecords
<1>5. entryData'.count = m.upto /\ entryData'.boot = m.boot
  BY <1>1, <1>4 DEF HandleInit, Store
<1>6. 1 \in 1..Len(inbox[s]) /\ m = inbox[s][1]
  BY <1>1, Popped
<1>7. 1..m.upto \subseteq handled[m.boot]
  BY <1>6 DEF IInv, NotesTrue
<1>8. Contiguous' /\ LinkCurrent'
  BY <1>1, <1>4, AdvancedQueues
<1> HIDE DEF m
<1>9. HandledPrefix' /\ ForgottenHandled'
  BY <1>1, <1>2 DEF IInv, HandledPrefix, ForgottenHandled
<1>10. CountsAreHandled'
  <2>1. disk'.boot = 0 \/ 1..disk'.count \subseteq handled'[disk'.boot]
    BY <1>1, <1>2, CountsOf DEF IInv
  <2>2. ASSUME NEW r \in Sessions
        PROVE  session'[r].boot = 0 \/ 1..session'[r].count \subseteq handled'[session'[r].boot]
    BY <1>2, <1>4, <1>7, CountsOf DEF IInv
  <2> QED
    BY <1>2, <1>5, <1>7, <2>1, <2>2, CountsNext
<1>11. NotesTrue'
  BY <1>1, <1>2, PoppedNotes
<1>12. AcksHandled'
  BY <1>1, <1>2 DEF IInv, AcksHandled
<1> QED
  BY <1>8, <1>9, <1>10, <1>11, <1>12 DEF IInv

\* Handling events that continue where a session is, which is not ahead of what
\* was handled, makes the handled events those up to some pressed one.
LEMMA HandledGrows ==
  ASSUME TypeOK, IInv, NEW s \in Sessions, Handle(s), Head(inbox[s]).kind # "init"
  PROVE  LET m == Head(inbox[s]) IN
         /\ m.boot \in Boots /\ m.boot = session[s].boot /\ m.upto \in 1..MaxPress
         /\ HandleEvents(s, m)
         /\ \E k \in 1..pressed[m.boot] :
               /\ m.upto <= k
               /\ handled[m.boot] \subseteq 1..k
               /\ handled' = [handled EXCEPT ![m.boot] = 1..k]
<1> DEFINE m == Head(inbox[s])
<1>1. Next1(s) /\ session[s].state = "open" /\ HandleEvents(s, m)
  BY DEF Handle
<1>2. 1 \in 1..Len(inbox[s]) /\ m = inbox[s][1] /\ m \in Messages
  BY <1>1, Popped
<1>3. m.kind = "events" /\ m.boot \in Boots /\ m.first \in 1..MaxPress /\ m.upto \in 1..MaxPress
  BY <1>2, MessageFields
<1>4. m.first = session[s].count + 1 /\ m.boot = session[s].boot
  BY <1>1, <1>2, <1>3 DEF IInv, Contiguous, CountBefore, BootBefore
<1>5. m.first <= m.upto /\ m.upto <= pressed[m.boot]
  BY <1>2, <1>3 DEF IInv, NotesTrue
<1> HIDE DEF m
<1>6. 1..session[s].count \subseteq handled[m.boot]
  <2>1. m.boot # 0
    BY <1>3 DEF Boots
  <2> QED
    BY <1>4, <2>1, CountsOf DEF IInv
<1>7. PICK n \in 0..pressed[m.boot] : handled[m.boot] = 1..n
  BY <1>3 DEF IInv, HandledPrefix
<1>8. session[s].count \in Nat /\ pressed[m.boot] \in Nat
  <2>1. session[s] \in SessionRecords /\ pressed[m.boot] \in 0..MaxPress
    BY <1>3 DEF TypeOK
  <2> QED
    BY <2>1 DEF SessionRecords
<1>9. session[s].count <= n
  BY <1>6, <1>7, <1>8
<1>10. PICK k \in 1..pressed[m.boot] : k = Higher(n, m.upto)
  BY <1>3, <1>5, <1>7, <1>8 DEF Higher
<1>11. /\ m.upto <= k /\ 1..n \subseteq 1..k
       /\ (1..n) \cup (m.first..m.upto) = 1..k
  BY <1>3, <1>4, <1>5, <1>7, <1>8, <1>9, <1>10 DEF Higher
<1>12. handled' = [handled EXCEPT ![m.boot] = handled[m.boot] \cup m.first..m.upto]
  BY <1>1 DEF HandleEvents
<1>13. handled' = [handled EXCEPT ![m.boot] = 1..k]
  BY <1>7, <1>11, <1>12
<1> QED
  BY <1>1, <1>3, <1>4, <1>7, <1>11, <1>13 DEF m

\* Handling events keeps the counters behind what was handled.
LEMMA InvHandleEvents ==
  ASSUME TypeOK, TypeOK', IInv, NEW s \in Sessions, Handle(s), Head(inbox[s]).kind # "init"
  PROVE  IInv'
<1> DEFINE m == Head(inbox[s])
<1>1. /\ Next1(s) /\ session[s].state = "open"
      /\ UNCHANGED <<disk, link, boot, pressed, forgotten, serving, sent>>
  BY DEF Handle, buttonVars
<1>2. /\ m.boot \in Boots /\ m.boot = session[s].boot /\ m.upto \in 1..MaxPress
      /\ HandleEvents(s, m)
  BY HandledGrows
<1>3. PICK k \in 1..pressed[m.boot] :
               /\ m.upto <= k
               /\ handled[m.boot] \subseteq 1..k
               /\ handled' = [handled EXCEPT ![m.boot] = 1..k]
  BY HandledGrows
<1>4. session \in [Sessions -> SessionRecords] /\ session[s] \in SessionRecords
  BY DEF TypeOK
<1>5. /\ session'[s].state = "open" /\ session'[s].count = m.upto /\ session'[s].boot = m.boot
      /\ \A r \in Sessions \ {s} : session'[r] = session[r]
  <2>1. session' = [session EXCEPT ![s] = [session[s] EXCEPT !.count = m.upto]]
    BY <1>2 DEF HandleEvents
  <2> HIDE DEF m
  <2> QED
    BY <1>1, <1>2, <1>4, <2>1 DEF SessionRecords
<1>6. entryData'.count = m.upto /\ entryData'.boot = m.boot
  BY <1>2, <1>5 DEF HandleEvents, Store
<1>7. Contiguous' /\ LinkCurrent'
  BY <1>1, <1>5, AdvancedQueues
<1>8. acks' = acks \/ (link = s /\ acks' = [acks EXCEPT ![s] = Append(acks[s], m.upto)])
  BY <1>2 DEF HandleEvents
<1>9. link = s => boot = m.boot
  <2>1. 1 \in 1..Len(inbox[s]) /\ m = inbox[s][1]
    BY <1>1, Popped
  <2> QED
    BY <2>1 DEF IInv, LinkCurrent
<1> HIDE DEF m
<1>10. /\ handled'[m.boot] = 1..k
       /\ \A b \in Boots : b # m.boot => handled'[b] = handled[b]
       /\ \A b \in Boots : handled[b] \subseteq handled'[b]
  BY <1>2, <1>3 DEF TypeOK
<1>11. 1..m.upto \subseteq handled'[m.boot]
  <2>1. pressed[m.boot] \in Nat
    BY <1>2 DEF TypeOK
  <2> QED
    BY <1>2, <1>3, <1>10, <2>1
<1>12. HandledPrefix'
  <2> SUFFICES ASSUME NEW b \in Boots
               PROVE  \E n \in 0..pressed[b] : handled'[b] = 1..n
    BY <1>1 DEF HandledPrefix
  <2>1. CASE b = m.boot
    <3>1. pressed[b] \in Nat
      BY DEF TypeOK
    <3>2. k \in 0..pressed[b]
      BY <1>3, <2>1, <3>1
    <3> QED
      BY <1>10, <2>1, <3>2
  <2>2. CASE b # m.boot
    BY <1>10, <2>2 DEF IInv, HandledPrefix
  <2> QED
    BY <2>1, <2>2
<1>13. ForgottenHandled'
  BY <1>1, <1>10 DEF IInv, ForgottenHandled
<1>14. CountsAreHandled'
  <2>1. disk'.boot = 0 \/ 1..disk'.count \subseteq handled'[disk'.boot]
    <3>1. disk.boot \in Boots \cup {0}
      BY DEF TypeOK, Counters
    <3> QED
      BY <1>1, <1>10, <3>1, CountsOf DEF IInv
  <2>2. ASSUME NEW r \in Sessions
        PROVE  session'[r].boot = 0 \/ 1..session'[r].count \subseteq handled'[session'[r].boot]
    <3>1. CASE r = s
      BY <1>5, <1>11, <3>1
    <3>2. CASE r # s
      <4>1. session[r].boot \in Boots \cup {0}
        BY DEF TypeOK, SessionRecords
      <4> QED
        BY <1>5, <1>10, <3>2, <4>1, CountsOf DEF IInv
    <3> QED
      BY <3>1, <3>2
  <2>3. 1..entryData'.count \subseteq handled'[entryData'.boot]
    BY <1>6, <1>11
  <2> QED
    BY <2>1, <2>2, <2>3, CountsNext
<1>15. NotesTrue'
  BY <1>1, <1>10, PoppedNotes
<1>16. AcksHandled'
  <2> SUFFICES ASSUME NEW r \in Sessions, NEW i \in 1..Len(acks'[r])
               PROVE  link = r /\ 1..acks'[r][i] \subseteq handled'[boot]
    BY <1>1 DEF AcksHandled
  <2>1. boot \in Boots /\ acks \in [Sessions -> Seq(1..MaxPress)] /\ acks[r] \in Seq(1..MaxPress)
    BY DEF TypeOK
  <2>2. CASE i \in 1..Len(acks[r]) /\ acks'[r][i] = acks[r][i]
    BY <1>10, <2>1, <2>2 DEF IInv, AcksHandled
  <2>3. CASE link = r /\ r = s /\ acks'[r][i] = m.upto
    BY <1>9, <1>11, <2>3
  <2>4. \/ i \in 1..Len(acks[r]) /\ acks'[r][i] = acks[r][i]
        \/ link = r /\ r = s /\ acks'[r][i] = m.upto
    <3>1. CASE acks'[r] = acks[r]
      BY <3>1
    <3>2. CASE link = s /\ r = s /\ acks'[r] = Append(acks[r], m.upto)
      <4>1. Len(acks[r]) \in Nat
        BY <2>1, LenProperties
      <4>2. /\ Len(Append(acks[r], m.upto)) = Len(acks[r]) + 1
            /\ \A j \in 1..Len(acks[r]) : Append(acks[r], m.upto)[j] = acks[r][j]
            /\ Append(acks[r], m.upto)[Len(acks[r]) + 1] = m.upto
        BY <1>2, <2>1, AppendProperties
      <4> QED
        BY <3>2, <4>1, <4>2
    <3> QED
      BY <1>8, <2>1, <3>1, <3>2
  <2> QED
    BY <2>2, <2>3, <2>4
<1> QED
  BY <1>7, <1>12, <1>13, <1>14, <1>15, <1>16 DEF IInv

\* A new session starts from the counters of the entry, on a fresh link.
LEMMA InvOpen ==
  ASSUME TypeOK, TypeOK', IInv, NEW s \in Sessions, Open(s)
  PROVE  IInv'
<1>1. /\ link = NoSession /\ link' = s /\ inbox[s] = <<>>
      /\ UNCHANGED <<entryData, disk, inbox, acks, boot, pressed, forgotten, serving, sent,
                     handled>>
  BY DEF Open, Drained, dataVars, buttonVars, historyVars
<1>2. /\ session'[s].count = entryData.count /\ session'[s].boot = entryData.boot
      /\ \A r \in Sessions \ {s} : session'[r] = session[r]
  BY DEF Open, TypeOK
<1>3. Len(inbox[s]) = 0 /\ ~serving /\ \A r \in Sessions : acks[r] = <<>>
  BY <1>1, NoLink, EmptySeq
<1>4. HandledPrefix' /\ ForgottenHandled' /\ NotesTrue'
  BY <1>1 DEF IInv, HandledPrefix, ForgottenHandled, NotesTrue
<1>5. CountsAreHandled'
  <2>1. ASSUME NEW r \in Sessions
        PROVE  session'[r].boot = 0 \/ 1..session'[r].count \subseteq handled'[session'[r].boot]
    BY <1>1, <1>2, CountsOf DEF IInv
  <2> QED
    BY <1>1, <2>1, CountsOf, CountsNext DEF IInv
<1>6. Contiguous'
  <2> SUFFICES ASSUME NEW r \in Sessions, session'[r].state = "open",
                      NEW i \in 1..Len(inbox[r]), inbox[r][i].kind = "events"
               PROVE  /\ inbox[r][i].first = CountBefore(r, i)' + 1
                      /\ inbox[r][i].boot = BootBefore(r, i)'
    BY <1>1 DEF Contiguous
  <2>1. r # s
    BY <1>3
  <2> QED
    BY <1>1, <1>2, <2>1 DEF IInv, Contiguous, CountBefore, BootBefore
<1>7. LinkCurrent'
  <2>1. s # NoSession
    BY SessionAssumption
  <2>2. 1..Len(inbox[s]) = {}
    BY <1>3
  <2> QED
    BY <1>1, <1>3, <2>1, <2>2 DEF LinkCurrent
<1>8. AcksHandled'
  <2>1. \A r \in Sessions : Len(acks[r]) = 0
    BY <1>3, EmptySeq
  <2>2. \A r \in Sessions : 1..Len(acks[r]) = {}
    BY <2>1
  <2> QED
    BY <1>1, <2>2 DEF AcksHandled
<1> QED
  BY <1>4, <1>5, <1>6, <1>7, <1>8 DEF IInv

\* A failed session drops its notifications.
LEMMA InvIgnore ==
  ASSUME TypeOK, TypeOK', IInv, NEW s \in Sessions, Ignore(s)
  PROVE  IInv'
<1>1. /\ Next1(s) /\ session[s].state = "failed"
      /\ UNCHANGED <<entryData, disk, session, acks, link, boot, pressed, forgotten, serving,
                     sent, handled>>
  BY DEF Ignore, dataVars, linkVars, buttonVars, historyVars
<1>2. HandledPrefix' /\ ForgottenHandled' /\ CountsAreHandled' /\ AcksHandled'
  BY <1>1 DEF IInv, HandledPrefix, ForgottenHandled, CountsAreHandled, AcksHandled
<1>3. NotesTrue'
  BY <1>1, PoppedNotes
<1>4. Contiguous'
  <2> SUFFICES ASSUME NEW r \in Sessions, session[r].state = "open",
                      NEW i \in 1..Len(inbox'[r]), inbox'[r][i].kind = "events"
               PROVE  /\ inbox'[r][i].first = CountBefore(r, i)' + 1
                      /\ inbox'[r][i].boot = BootBefore(r, i)'
    BY <1>1 DEF Contiguous
  <2>1. inbox'[r] = inbox[r]
    BY <1>1, Popped
  <2> QED
    BY <1>1, <2>1 DEF IInv, Contiguous, CountBefore, BootBefore
<1>5. LinkCurrent'
  <2>1. link' = NoSession => ~serving'
    BY <1>1 DEF IInv, LinkCurrent
  <2>2. ASSUME NEW r \in Sessions, link' = r
        PROVE  /\ \A i \in 1..Len(inbox'[r]) : inbox'[r][i].boot = boot'
               /\ ~serving' => inbox'[r] = <<>>
               /\ serving' /\ session'[r].state = "open" =>
                    /\ sent' = CountBefore(r, Len(inbox[r]) + 1)'
                    /\ boot' = BootBefore(r, Len(inbox[r]) + 1)'
    <3>1. CASE r = s
      <4>1. /\ \A i \in 1..Len(inbox[s]) : inbox[s][i].boot = boot
            /\ ~serving => inbox[s] = <<>>
        BY <1>1, <2>2, <3>1 DEF IInv, LinkCurrent
      <4>2. serving
        BY <1>1, <4>1 DEF Next1
      <4>3. \A i \in 1..Len(inbox'[s]) : inbox'[s][i].boot = boot
        BY <1>1, <4>1, Popped
      <4>4. session'[r].state = "failed"
        BY <1>1, <3>1
      <4> QED
        BY <1>1, <3>1, <4>2, <4>3, <4>4
    <3>2. CASE r # s
      <4>1. inbox'[r] = inbox[r]
        BY <1>1, <3>2, Popped
      <4> QED
        BY <1>1, <2>2, <4>1 DEF IInv, LinkCurrent, CountBefore, BootBefore
    <3> QED
      BY <3>1, <3>2
  <2> QED
    BY <2>1, <2>2 DEF LinkCurrent
<1> QED
  BY <1>2, <1>3, <1>4, <1>5 DEF IInv

\* A session that fails keeps its counters.
LEMMA InvAckRaises ==
  ASSUME TypeOK, TypeOK', IInv, NEW s \in Sessions, AckRaises(s)
  PROVE  IInv'
<1>1. UNCHANGED <<entryData, disk, inbox, acks, link, boot, pressed, forgotten, serving, sent,
                  handled>>
  BY DEF AckRaises, dataVars, linkVars, buttonVars, historyVars
<1>2. \A r \in Sessions : /\ session'[r].count = session[r].count
                          /\ session'[r].boot = session[r].boot
                          /\ session'[r].state = "open" => session[r].state = "open"
  <2>1. session \in [Sessions -> SessionRecords] /\ session[s] \in SessionRecords
    BY DEF TypeOK
  <2>2. session' = [session EXCEPT ![s] = [session[s] EXCEPT !.state = "failed"]]
    BY DEF AckRaises
  <2>3. ASSUME NEW r \in Sessions, r # s PROVE session'[r] = session[r]
    BY <2>1, <2>2, <2>3
  <2>4. session'[s] = [session[s] EXCEPT !.state = "failed"]
    BY <2>1, <2>2
  <2>5. /\ session'[s].count = session[s].count /\ session'[s].boot = session[s].boot
        /\ session'[s].state = "failed"
    BY <2>1, <2>4 DEF SessionRecords
  <2> QED
    BY <2>3, <2>5
<1>3. HandledPrefix' /\ ForgottenHandled' /\ NotesTrue' /\ AcksHandled'
  BY <1>1 DEF IInv, HandledPrefix, ForgottenHandled, NotesTrue, AcksHandled
<1>4. CountsAreHandled'
  <2>1. ASSUME NEW r \in Sessions
        PROVE  session'[r].boot = 0 \/ 1..session'[r].count \subseteq handled'[session'[r].boot]
    BY <1>1, <1>2, CountsOf DEF IInv
  <2> QED
    BY <1>1, <2>1, CountsOf, CountsNext DEF IInv
<1>5. Contiguous' /\ LinkCurrent'
  BY <1>1, <1>2 DEF IInv, Contiguous, LinkCurrent, CountBefore, BootBefore
<1> QED
  BY <1>3, <1>4, <1>5 DEF IInv

\* The button records an event.
LEMMA InvPress ==
  ASSUME TypeOK, TypeOK', IInv, Press
  PROVE  IInv'
<1>1. UNCHANGED <<entryData, disk, session, inbox, acks, link, boot, forgotten, serving, sent,
                  handled>>
  BY DEF Press, dataVars, sessionVars, linkVars, historyVars
<1>2. \A b \in Boots : /\ pressed[b] \in Nat /\ pressed'[b] \in Nat
                       /\ pressed[b] <= pressed'[b]
  BY DEF Press, TypeOK
<1>3. HandledPrefix'
  <2> SUFFICES ASSUME NEW b \in Boots PROVE \E n \in 0..pressed'[b] : handled[b] = 1..n
    BY <1>1 DEF HandledPrefix
  <2>1. PICK n \in 0..pressed[b] : handled[b] = 1..n
    BY DEF IInv, HandledPrefix
  <2>2. n \in 0..pressed'[b]
    BY <1>2
  <2> QED
    BY <2>1, <2>2
<1>4. NotesTrue'
  <2> SUFFICES ASSUME NEW r \in Sessions, NEW i \in 1..Len(inbox[r])
               PROVE  LET m == inbox[r][i] IN
                      IF m.kind = "init" THEN 1..m.upto \subseteq handled[m.boot]
                      ELSE m.first <= m.upto /\ m.upto <= pressed'[m.boot]
    BY <1>1 DEF NotesTrue
  <2> DEFINE m == inbox[r][i]
  <2>1. m \in Messages
    BY ElementOfSeq DEF TypeOK
  <2>2. IF m.kind = "init" THEN 1..m.upto \subseteq handled[m.boot]
        ELSE m.first <= m.upto /\ m.upto <= pressed[m.boot]
    BY DEF IInv, NotesTrue
  <2>3. m.boot \in Boots /\ m.upto \in Nat
    BY <2>1, MessageFields
  <2> HIDE DEF m
  <2>4. m.upto <= pressed[m.boot] => m.upto <= pressed'[m.boot]
    BY <1>2, <2>3
  <2>5. IF m.kind = "init" THEN 1..m.upto \subseteq handled[m.boot]
        ELSE m.first <= m.upto /\ m.upto <= pressed'[m.boot]
    BY <2>2, <2>4
  <2> QED
    BY <2>5 DEF m
<1>5. ForgottenHandled' /\ CountsAreHandled' /\ AcksHandled'
  BY <1>1 DEF IInv, ForgottenHandled, CountsAreHandled, AcksHandled
<1>6. Contiguous' /\ LinkCurrent'
  BY <1>1 DEF IInv, Contiguous, LinkCurrent, CountBefore, BootBefore
<1> QED
  BY <1>3, <1>4, <1>5, <1>6 DEF IInv

\* What appending a notification to the queue of the link means for the
\* counters that sessions will have.
LEMMA AppendedBefore ==
  ASSUME TypeOK, NEW s \in Sessions, NEW m \in Messages,
         inbox' = [inbox EXCEPT ![s] = Append(@, m)], UNCHANGED session
  PROVE  /\ \A r \in Sessions \ {s} : inbox'[r] = inbox[r]
         /\ \A r \in Sessions, i \in Nat :
              r # s => CountBefore(r, i)' = CountBefore(r, i) /\ BootBefore(r, i)' = BootBefore(r, i)
         /\ \A i \in 1..Len(inbox[s]) + 1 :
              CountBefore(s, i)' = CountBefore(s, i) /\ BootBefore(s, i)' = BootBefore(s, i)
         /\ CountBefore(s, Len(inbox[s]) + 1)' = m.upto
         /\ BootBefore(s, Len(inbox[s]) + 1)' = m.boot
<1>1. Len(inbox[s]) \in Nat
  BY Appended
<1>2. \A r \in Sessions \ {s} : inbox'[r] = inbox[r]
  BY Appended
<1>3. ASSUME NEW r \in Sessions, NEW i \in Nat, r # s
      PROVE  CountBefore(r, i)' = CountBefore(r, i) /\ BootBefore(r, i)' = BootBefore(r, i)
  BY <1>2, <1>3 DEF CountBefore, BootBefore
<1>4. ASSUME NEW i \in 1..Len(inbox[s]) + 1
      PROVE  CountBefore(s, i)' = CountBefore(s, i) /\ BootBefore(s, i)' = BootBefore(s, i)
  <2>1. i # 1 => i - 1 \in 1..Len(inbox[s])
    BY <1>1
  <2> QED
    BY <2>1, Appended DEF CountBefore, BootBefore
<1>5. PICK n \in Nat : n = Len(inbox[s]) + 1
  BY <1>1
<1>6. Len(inbox'[s]) = n /\ inbox'[s][n] = m
  BY <1>5, Appended
<1>7. Len(inbox'[s]) + 1 # 1 /\ Len(inbox'[s]) + 1 - 1 = n
  BY <1>1, <1>5, <1>6
<1>8. /\ CountBefore(s, Len(inbox[s]) + 1)' = m.upto
      /\ BootBefore(s, Len(inbox[s]) + 1)' = m.boot
  BY <1>6, <1>7 DEF CountBefore, BootBefore
<1> QED
  BY <1>2, <1>3, <1>4, <1>8

\* The invariant after the button appended a notification that is true and that
\* continues where the session will be.
LEMMA AppendedInv ==
  ASSUME TypeOK, TypeOK', IInv, NEW s \in Sessions, NEW m \in Messages,
         link = s, inbox' = [inbox EXCEPT ![s] = Append(@, m)],
         serving', sent' = m.upto, m.boot = boot,
         IF m.kind = "init" THEN 1..m.upto \subseteq handled[m.boot]
         ELSE m.first <= m.upto /\ m.upto <= pressed[m.boot],
         session[s].state = "open" /\ m.kind = "events" =>
            /\ m.first = CountBefore(s, Len(inbox[s]) + 1) + 1
            /\ m.boot = BootBefore(s, Len(inbox[s]) + 1),
         UNCHANGED <<entryData, disk, session, acks, link, boot, pressed, forgotten, handled>>
  PROVE  IInv'
<1>1. HandledPrefix' /\ ForgottenHandled' /\ CountsAreHandled' /\ AcksHandled'
  BY DEF IInv, HandledPrefix, ForgottenHandled, CountsAreHandled, AcksHandled
<1>2. Len(inbox[s]) \in Nat /\ Len(inbox'[s]) = Len(inbox[s]) + 1
  BY Appended
<1>3. ASSUME NEW i \in 1..Len(inbox'[s])
      PROVE  \/ i \in 1..Len(inbox[s]) /\ inbox'[s][i] = inbox[s][i]
             \/ i = Len(inbox[s]) + 1 /\ inbox'[s][i] = m
  <2>1. i \in 1..Len(inbox[s]) \/ i = Len(inbox[s]) + 1
    BY <1>2
  <2> QED
    BY <2>1, Appended
<1>4. NotesTrue'
  <2> SUFFICES ASSUME NEW r \in Sessions, NEW i \in 1..Len(inbox'[r])
               PROVE  IF inbox'[r][i].kind = "init"
                        THEN 1..inbox'[r][i].upto \subseteq handled[inbox'[r][i].boot]
                        ELSE /\ inbox'[r][i].first <= inbox'[r][i].upto
                             /\ inbox'[r][i].upto <= pressed[inbox'[r][i].boot]
    BY DEF NotesTrue
  <2>1. CASE r # s
    <3>1. inbox'[r] = inbox[r]
      BY <2>1, AppendedBefore
    <3> QED
      BY <3>1 DEF IInv, NotesTrue
  <2>2. CASE r = s /\ i \in 1..Len(inbox[s]) /\ inbox'[s][i] = inbox[s][i]
    BY <2>2 DEF IInv, NotesTrue
  <2>3. CASE r = s /\ inbox'[s][i] = m
    BY <2>3
  <2> QED
    BY <1>3, <2>1, <2>2, <2>3
<1>5. Contiguous'
  <2> SUFFICES ASSUME NEW r \in Sessions, session[r].state = "open",
                      NEW i \in 1..Len(inbox'[r]), inbox'[r][i].kind = "events"
               PROVE  /\ inbox'[r][i].first = CountBefore(r, i)' + 1
                      /\ inbox'[r][i].boot = BootBefore(r, i)'
    BY DEF Contiguous
  <2>1. CASE r # s
    <3>1. inbox'[r] = inbox[r] /\ i \in Nat
      BY <2>1, AppendedBefore
    <3>2. CountBefore(r, i)' = CountBefore(r, i) /\ BootBefore(r, i)' = BootBefore(r, i)
      BY <2>1, <3>1, AppendedBefore
    <3>3. /\ inbox[r][i].first = CountBefore(r, i) + 1
          /\ inbox[r][i].boot = BootBefore(r, i)
      BY <3>1 DEF IInv, Contiguous
    <3> QED
      BY <3>1, <3>2, <3>3
  <2>2. CASE r = s /\ i \in 1..Len(inbox[s]) /\ inbox'[s][i] = inbox[s][i]
    <3>1. i \in 1..Len(inbox[s]) + 1
      BY <1>2, <2>2
    <3>2. CountBefore(s, i)' = CountBefore(s, i) /\ BootBefore(s, i)' = BootBefore(s, i)
      BY <3>1, AppendedBefore
    <3>3. /\ inbox[s][i].first = CountBefore(s, i) + 1
          /\ inbox[s][i].boot = BootBefore(s, i)
      BY <2>2 DEF IInv, Contiguous
    <3> QED
      BY <2>2, <3>2, <3>3
  <2>3. CASE r = s /\ i = Len(inbox[s]) + 1 /\ inbox'[s][i] = m
    <3>1. i \in 1..Len(inbox[s]) + 1
      BY <1>2, <2>3
    <3> QED
      BY <2>3, <3>1, AppendedBefore
  <2> QED
    BY <1>3, <2>1, <2>2, <2>3
<1>6. LinkCurrent'
  <2>1. s # NoSession
    BY SessionAssumption
  <2>2. \A i \in 1..Len(inbox'[s]) : inbox'[s][i].boot = boot
    BY <1>3 DEF IInv, LinkCurrent
  <2>3. /\ sent' = CountBefore(s, Len(inbox[s]) + 1)'
        /\ boot = BootBefore(s, Len(inbox[s]) + 1)'
    BY AppendedBefore
  <2> QED
    BY <2>1, <2>2, <2>3 DEF LinkCurrent
<1> QED
  BY <1>1, <1>4, <1>5, <1>6 DEF IInv

\* The count of an init response is that of the session, which was handled, or
\* that of the last forgotten event.
LEMMA InvButtonInit ==
  ASSUME TypeOK, TypeOK', IInv, NEW s \in Sessions, ButtonInit(s)
  PROVE  IInv'
<1> DEFINE m == [kind |-> "init", upto |-> sent', boot |-> boot]
<1>1. /\ link = s /\ serving'
      /\ inbox' = [inbox EXCEPT ![s] = Append(@, m)]
      /\ UNCHANGED <<entryData, disk, session, acks, link, boot, pressed, forgotten, handled>>
  BY DEF ButtonInit, dataVars, linkVars, historyVars
<1>2. boot \in Boots /\ sent' \in 0..MaxPress
  BY DEF TypeOK
<1>3. m \in Messages
  BY <1>2 DEF Messages
<1>4. 1..sent' \subseteq handled[boot]
  <2>1. 1..forgotten[boot] \subseteq handled[boot]
    BY <1>2 DEF IInv, ForgottenHandled
  <2>2. boot # 0
    BY <1>2 DEF Boots
  <2>3. session[s].boot = boot => 1..session[s].count \subseteq handled[boot]
    BY <2>2, CountsOf DEF IInv
  <2>4. \/ sent' = forgotten[boot]
        \/ session[s].boot = boot /\ sent' = session[s].count
    BY DEF ButtonInit, Higher
  <2> QED
    BY <2>1, <2>3, <2>4
<1> QED
  BY <1>1, <1>3, <1>4, AppendedInv

\* Events that are sent were pressed, and continue what was sent before.
LEMMA InvButtonSends ==
  ASSUME TypeOK, TypeOK', IInv, NEW s \in Sessions, NEW n \in 1..MaxPress,
         NEW needsAck \in BOOLEAN, ButtonSends(s, n, needsAck)
  PROVE  IInv'
<1> DEFINE m == [kind |-> "events", first |-> sent + 1, upto |-> n, boot |-> boot,
                 needsAck |-> needsAck]
<1>1. /\ link = s /\ serving /\ serving' = serving /\ sent' = n
      /\ inbox' = [inbox EXCEPT ![s] = Append(@, m)]
      /\ UNCHANGED <<entryData, disk, session, acks, link, boot, pressed, forgotten, handled>>
  BY DEF ButtonSends, dataVars, linkVars, historyVars
<1>2. /\ boot \in Boots /\ sent \in 0..MaxPress /\ pressed[boot] \in 0..MaxPress
      /\ n \in (sent + 1)..pressed[boot]
  BY DEF TypeOK, ButtonSends
<1>3. m \in Messages
  <2>1. sent + 1 \in 1..MaxPress
    BY <1>2
  <2> QED
    BY <1>2, <2>1 DEF Messages
<1>4. m.first <= m.upto /\ m.upto <= pressed[m.boot]
  BY <1>2
<1>5. session[s].state = "open" =>
            /\ m.first = CountBefore(s, Len(inbox[s]) + 1) + 1
            /\ m.boot = BootBefore(s, Len(inbox[s]) + 1)
  BY <1>1 DEF IInv, LinkCurrent
<1>6. m.kind = "events" /\ m.upto = n /\ m.boot = boot
  OBVIOUS
<1> HIDE DEF m
<1> QED
  BY <1>1, <1>3, <1>4, <1>5, <1>6, AppendedInv

\* An acknowledgement that arrives is for handled events.
LEMMA InvAckArrives ==
  ASSUME TypeOK, TypeOK', IInv, NEW s \in Sessions, AckArrives(s)
  PROVE  IInv'
<1>1. /\ link = s /\ acks' = [acks EXCEPT ![s] = Tail(acks[s])]
      /\ forgotten' = [forgotten EXCEPT ![boot] = Higher(forgotten[boot], Head(acks[s]))]
      /\ UNCHANGED <<entryData, disk, session, inbox, link, boot, pressed, serving, sent,
                     handled>>
  BY DEF AckArrives, dataVars, sessionVars, historyVars
<1>2. /\ acks \in [Sessions -> Seq(1..MaxPress)] /\ acks[s] \in Seq(1..MaxPress)
      /\ acks[s] # <<>> /\ Len(acks[s]) \in Nat /\ boot \in Boots
  BY LenProperties DEF AckArrives, TypeOK
<1>3. /\ Head(acks[s]) = acks[s][1] /\ 1 \in 1..Len(acks[s])
      /\ Len(Tail(acks[s])) = Len(acks[s]) - 1
      /\ \A i \in 1..Len(Tail(acks[s])) : Tail(acks[s])[i] = acks[s][i + 1]
  BY <1>2, EmptySeq, HeadTailProperties
<1>4. 1..Head(acks[s]) \subseteq handled[boot]
  BY <1>3 DEF IInv, AcksHandled
<1>5. ForgottenHandled'
  <2>1. \/ Higher(forgotten[boot], Head(acks[s])) = forgotten[boot]
        \/ Higher(forgotten[boot], Head(acks[s])) = Head(acks[s])
    BY DEF Higher
  <2>2. 1..Higher(forgotten[boot], Head(acks[s])) \subseteq handled[boot]
    BY <1>2, <1>4, <2>1 DEF IInv, ForgottenHandled
  <2>3. \A b \in Boots : 1..forgotten'[b] \subseteq handled[b]
    BY <1>1, <2>2 DEF IInv, ForgottenHandled, TypeOK
  <2> QED
    BY <1>1, <2>3 DEF ForgottenHandled
<1>6. AcksHandled'
  <2> SUFFICES ASSUME NEW r \in Sessions, NEW i \in 1..Len(acks'[r])
               PROVE  link = r /\ 1..acks'[r][i] \subseteq handled[boot]
    BY <1>1 DEF AcksHandled
  <2>1. CASE r = s
    <3>1. acks'[r] = Tail(acks[s])
      BY <1>1, <1>2, <2>1
    <3>2. i + 1 \in 1..Len(acks[s]) /\ acks'[r][i] = acks[s][i + 1]
      BY <1>2, <1>3, <3>1
    <3> QED
      BY <1>1, <2>1, <3>2 DEF IInv, AcksHandled
  <2>2. CASE r # s
    <3>1. acks'[r] = acks[r]
      BY <1>1, <1>2, <2>2
    <3> QED
      BY <3>1 DEF IInv, AcksHandled
  <2> QED
    BY <2>1, <2>2
<1>7. HandledPrefix' /\ CountsAreHandled' /\ NotesTrue'
  BY <1>1 DEF IInv, HandledPrefix, CountsAreHandled, NotesTrue
<1>8. Contiguous' /\ LinkCurrent'
  BY <1>1 DEF IInv, Contiguous, LinkCurrent, CountBefore, BootBefore
<1> QED
  BY <1>5, <1>6, <1>7, <1>8 DEF IInv

\* After a crash only what was on disk is left of the counters.
LEMMA InvCrash ==
  ASSUME TypeOK, TypeOK', IInv, Crash
  PROVE  IInv'
<1>1. /\ entryData' = disk /\ link' = NoSession /\ serving' = FALSE
      /\ \A r \in Sessions : /\ inbox'[r] = <<>> /\ acks'[r] = <<>>
                            /\ session'[r].boot = 0
      /\ UNCHANGED <<disk, pressed, forgotten, handled>>
  BY DEF Crash, historyVars
<1>2. \A r \in Sessions : 1..Len(inbox'[r]) = {} /\ 1..Len(acks'[r]) = {}
  <2>1. \A r \in Sessions : Len(inbox'[r]) = 0 /\ Len(acks'[r]) = 0
    BY <1>1, EmptySeq
  <2>2. 1..0 = {}
    OBVIOUS
  <2> QED
    BY <2>1, <2>2
<1>3. HandledPrefix' /\ ForgottenHandled'
  BY <1>1 DEF IInv, HandledPrefix, ForgottenHandled
<1>4. CountsAreHandled'
  BY <1>1, CountsOf, CountsNext DEF IInv
<1>5. NotesTrue' /\ Contiguous' /\ AcksHandled'
  BY <1>2 DEF NotesTrue, Contiguous, AcksHandled
<1>6. LinkCurrent'
  BY <1>1, SessionAssumption DEF LinkCurrent
<1> QED
  BY <1>3, <1>4, <1>5, <1>6 DEF IInv

\* Stopping the device leaves its sessions their states and counters.
LEMMA StopKeepsCounters ==
  ASSUME TypeOK, StopDevice
  PROVE  \A r \in Sessions : /\ session'[r].state = session[r].state
                             /\ session'[r].count = session[r].count
                             /\ session'[r].boot = session[r].boot
<1> SUFFICES ASSUME NEW r \in Sessions
             PROVE  /\ session'[r].state = session[r].state
                    /\ session'[r].count = session[r].count
                    /\ session'[r].boot = session[r].boot
  OBVIOUS
<1>1. session[r] \in SessionRecords
  BY DEF TypeOK
<1>2. session'[r] = [session[r] EXCEPT !.current = FALSE]
  BY DEF StopDevice
<1> QED
  BY <1>1, <1>2 DEF SessionRecords

LEMMA InvStep == TypeOK /\ TypeOK' /\ IInv /\ [Next]_vars => IInv'
<1> SUFFICES ASSUME TypeOK, TypeOK', IInv, [Next]_vars PROVE IInv'
  OBVIOUS
<1> USE DEF entryVars, dataVars, sessionVars, linkVars, buttonVars, historyVars
<1>0. link = NoSession \/ link \in Sessions
  BY DEF TypeOK
<1>1. CASE Setup
  BY <1>1, Untouched DEF Setup
<1>2. CASE Subscribe
  BY <1>2, Untouched DEF Subscribe
<1>3. ASSUME NEW ok \in BOOLEAN, UnloadPlatforms(ok) PROVE IInv'
  BY <1>3, Untouched DEF UnloadPlatforms
<1>4. CASE StopDevice
  <2>1. /\ UNCHANGED <<entryData, disk, pressed, forgotten, handled>>
        /\ link = NoSession => UNCHANGED <<acks, link, inbox, serving>>
        /\ link # NoSession => LinkEnds(link)
    BY <1>4 DEF StopDevice
  <2>2. \A r \in Sessions : /\ session'[r].state = session[r].state
                            /\ session'[r].count = session[r].count
                            /\ session'[r].boot = session[r].boot
    BY <1>4, StopKeepsCounters
  <2>3. CASE link = NoSession
    <3>1. \A r \in Sessions : Len(inbox[r]) \in Nat
      BY LenProperties DEF TypeOK
    <3> QED
      BY <2>1, <2>2, <2>3, <3>1, NoLink, LinkGone
  <2>4. CASE link \in Sessions
    <3>1. LinkEnds(link)
      BY <2>1, <2>4, SessionAssumption
    <3> QED
      BY <2>1, <2>2, <2>4, <3>1, LinkEndsGone, LinkGone
  <2> QED
    BY <1>0, <2>3, <2>4
<1>5. CASE Save
  <2>1. UNCHANGED <<entryData, session, inbox, acks, link, boot, pressed, forgotten, serving,
                    sent, handled>>
    BY <1>5 DEF Save
  <2>2. disk' = entryData
    BY <1>5 DEF Save
  <2>3. CountsAreHandled'
    BY <2>1, <2>2, CountsOf, CountsNext DEF IInv
  <2>4. HandledPrefix' /\ ForgottenHandled' /\ NotesTrue' /\ AcksHandled'
    BY <2>1 DEF IInv, HandledPrefix, ForgottenHandled, NotesTrue, AcksHandled
  <2>5. Contiguous' /\ LinkCurrent'
    BY <2>1 DEF IInv, Contiguous, LinkCurrent, CountBefore, BootBefore
  <2> QED
    BY <2>3, <2>4, <2>5 DEF IInv
<1>6. CASE Crash
  BY <1>6, InvCrash
<1>7. ASSUME NEW s \in Sessions, Open(s) PROVE IInv'
  BY <1>7, InvOpen
<1>8. ASSUME NEW s \in Sessions, Handle(s) PROVE IInv'
  BY <1>8, InvHandleInit, InvHandleEvents
<1>9. ASSUME NEW s \in Sessions, Ignore(s) PROVE IInv'
  BY <1>9, InvIgnore
<1>10. ASSUME NEW s \in Sessions, AckReturns(s) PROVE IInv'
  BY <1>10, Untouched DEF AckReturns
<1>11. ASSUME NEW s \in Sessions, AckRaises(s) PROVE IInv'
  BY <1>11, InvAckRaises
<1>12. ASSUME NEW s \in Sessions, Close(s) PROVE IInv'
  <2>1. link = s /\ LinkEnds(link) /\ UNCHANGED <<entryData, disk, session, pressed, forgotten,
                                                 handled>>
    BY <1>12 DEF Close
  <2> QED
    BY <2>1, LinkEndsGone, LinkGone
<1>13. ASSUME NEW s \in Sessions, LinkLost(s) PROVE IInv'
  <2>1. link = s /\ LinkEnds(link) /\ UNCHANGED <<entryData, disk, session, pressed, forgotten,
                                                 handled>>
    BY <1>13 DEF LinkLost
  <2> QED
    BY <2>1, LinkEndsGone, LinkGone
<1>14. CASE Press
  BY <1>14, InvPress
<1>15. ASSUME NEW s \in Sessions, ButtonInit(s) PROVE IInv'
  BY <1>15, InvButtonInit
<1>16. ASSUME NEW s \in Sessions, NEW n \in 1..MaxPress, NEW needsAck \in BOOLEAN,
              ButtonSends(s, n, needsAck)
       PROVE  IInv'
  BY <1>16, InvButtonSends
<1>17. ASSUME NEW s \in Sessions, AckArrives(s) PROVE IInv'
  BY <1>17, InvAckArrives
<1>18. CASE Reboot
  <2>1. /\ UNCHANGED <<entryData, disk, session, pressed, forgotten, handled>>
        /\ link = NoSession => UNCHANGED <<acks, link, inbox, serving>>
        /\ link # NoSession => LinkEnds(link)
    BY <1>18 DEF Reboot
  <2>2. CASE link = NoSession
    <3>1. \A r \in Sessions : Len(inbox[r]) \in Nat
      BY LenProperties DEF TypeOK
    <3> QED
      BY <2>1, <2>2, <3>1, NoLink, LinkGone
  <2>3. CASE link \in Sessions
    <3>1. LinkEnds(link)
      BY <2>1, <2>3, SessionAssumption
    <3> QED
      BY <2>1, <2>3, <3>1, LinkEndsGone, LinkGone
  <2> QED
    BY <1>0, <2>2, <2>3
<1>19. CASE UNCHANGED vars
  BY <1>19, Untouched DEF vars
<1> QED
  BY <1>1, <1>2, <1>3, <1>4, <1>5, <1>6, <1>7, <1>8, <1>9, <1>10, <1>11, <1>12, <1>13,
     <1>14, <1>15, <1>16, <1>17, <1>18, <1>19
  DEF Next, EntryStep, SessionStep, ButtonStep

\* The events of a boot are handled in order, whatever connections, reloads,
\* crashes and reboots come between, and every count that is kept or on its way
\* stays behind what was handled.
THEOREM InductiveInvariant == Spec => []IInv
<1> QED
  BY TypeInit, TypeStep, InvInit, InvStep, PTL DEF Spec

\* No counters that a session may be asked to start from, on disk, in the entry
\* or in a session of an old connection, would make the button skip an event.
THEOREM CountsHandled == Spec => []CountsAreHandled
<1>1. IInv => CountsAreHandled
  BY DEF IInv
<1> QED
  BY <1>1, InductiveInvariant, PTL

-----------------------------------------------------------------------------
(* EventDelivery implements ReliableDelivery *)

LEMMA DeliveryInit == Init => Delivery!RInit
BY DEF Init, Delivery!RInit

\* A press of the button is a press of the specification.
LEMMA PressDelivers ==
  ASSUME TypeOK, Press
  PROVE  Delivery!RNext
<1>1. boot \in Boots
  BY DEF TypeOK
<1>2. Delivery!RPress(boot)
  BY DEF Press, Delivery!RPress, historyVars
<1> QED
  BY <1>1, <1>2 DEF Delivery!RNext

\* Events are handled as the specification says, up to the highest count known.
LEMMA HandleDelivers ==
  ASSUME TypeOK, IInv, NEW s \in Sessions, Handle(s)
  PROVE  Delivery!RNext \/ UNCHANGED <<pressed, handled, forgotten>>
<1> DEFINE m == Head(inbox[s])
<1>1. UNCHANGED <<pressed, forgotten>>
  BY DEF Handle, buttonVars
<1>2. CASE m.kind = "init"
  BY <1>1, <1>2 DEF Handle, HandleInit, historyVars
<1>3. CASE m.kind # "init"
  <2>1. m.boot \in Boots
    BY <1>3, HandledGrows
  <2>2. PICK k \in 1..pressed[m.boot] :
               /\ handled[m.boot] \subseteq 1..k
               /\ handled' = [handled EXCEPT ![m.boot] = 1..k]
    BY <1>3, HandledGrows
  <2> HIDE DEF m
  <2>3. Delivery!RHandle(m.boot, k)
    BY <1>1, <2>2 DEF Delivery!RHandle
  <2> QED
    BY <2>1, <2>3 DEF Delivery!RNext
<1> QED
  BY <1>2, <1>3

\* The button forgets what the specification lets it forget.
LEMMA AckDelivers ==
  ASSUME TypeOK, IInv, NEW s \in Sessions, AckArrives(s)
  PROVE  Delivery!RNext \/ UNCHANGED <<pressed, handled, forgotten>>
<1> DEFINE n == Head(acks[s])
<1>1. /\ boot \in Boots /\ forgotten \in [Boots -> 0..MaxPress]
      /\ pressed[boot] \in 0..MaxPress
  BY DEF TypeOK
<1>2. acks[s] \in Seq(1..MaxPress) /\ acks[s] # <<>>
  BY DEF AckArrives, TypeOK
<1>3. n \in 1..MaxPress /\ n = acks[s][1] /\ 1 \in 1..Len(acks[s])
  BY <1>2, EmptySeq, LenProperties, HeadTailProperties
<1>4. 1..n \subseteq handled[boot]
  BY <1>3 DEF IInv, AcksHandled
<1>5. /\ forgotten' = [forgotten EXCEPT ![boot] = Higher(forgotten[boot], n)]
      /\ UNCHANGED <<pressed, handled>>
  BY DEF AckArrives, historyVars
<1> HIDE DEF n
<1>6. n \in 1..pressed[boot]
  <2>1. PICK k \in 0..pressed[boot] : handled[boot] = 1..k
    BY <1>1 DEF IInv, HandledPrefix
  <2>2. n \in 1..k
    BY <1>3, <1>4, <2>1
  <2> QED
    BY <1>1, <2>1, <2>2
<1>7. CASE n > forgotten[boot]
  <2>1. Higher(forgotten[boot], n) = n
    BY <1>1, <1>3, <1>7 DEF Higher
  <2>2. Delivery!RForget(boot, n)
    BY <1>4, <1>5, <1>7, <2>1 DEF Delivery!RForget
  <2> QED
    BY <1>1, <1>6, <2>2 DEF Delivery!RNext
<1>8. CASE ~(n > forgotten[boot])
  <2>1. Higher(forgotten[boot], n) = forgotten[boot]
    BY <1>1, <1>3, <1>8 DEF Higher
  <2>2. forgotten' = forgotten
    BY <1>1, <1>5, <2>1
  <2> QED
    BY <1>5, <2>2
<1> QED
  BY <1>7, <1>8

LEMMA DeliveryStep ==
  TypeOK /\ IInv /\ [Next]_vars => [Delivery!RNext]_<<pressed, handled, forgotten>>
<1> SUFFICES ASSUME TypeOK, IInv, [Next]_vars
             PROVE  Delivery!RNext \/ UNCHANGED <<pressed, handled, forgotten>>
  OBVIOUS
<1> USE DEF buttonVars, historyVars
<1>1. CASE EntryStep
  BY <1>1 DEF EntryStep, Setup, Subscribe, StopDevice, Save, Crash, UnloadPlatforms
<1>2. CASE Press
  BY <1>2, PressDelivers
<1>3. CASE Reboot
  BY <1>3 DEF Reboot
<1>4. ASSUME NEW s \in Sessions, SessionStep(s)
      PROVE  Delivery!RNext \/ UNCHANGED <<pressed, handled, forgotten>>
  <2>1. CASE Handle(s)
    BY <2>1, HandleDelivers
  <2>2. CASE Open(s) \/ Ignore(s) \/ AckReturns(s) \/ AckRaises(s) \/ Close(s)
    BY <2>2 DEF Open, Ignore, AckReturns, AckRaises, Close
  <2> QED
    BY <1>4, <2>1, <2>2 DEF SessionStep
<1>5. ASSUME NEW s \in Sessions, ButtonStep(s)
      PROVE  Delivery!RNext \/ UNCHANGED <<pressed, handled, forgotten>>
  <2>1. CASE AckArrives(s)
    BY <2>1, AckDelivers
  <2>2. CASE ButtonInit(s) \/ LinkLost(s)
    BY <2>2 DEF ButtonInit, LinkLost
  <2>3. CASE \E n \in 1..MaxPress, needsAck \in BOOLEAN : ButtonSends(s, n, needsAck)
    BY <2>3 DEF ButtonSends
  <2> QED
    BY <1>5, <2>1, <2>2, <2>3 DEF ButtonStep
<1>6. CASE UNCHANGED vars
  BY <1>6 DEF vars
<1> QED
  BY <1>1, <1>2, <1>3, <1>4, <1>5, <1>6 DEF Next

\* The events of a boot are handled from the first on and without a gap, and
\* the button forgets no event that was not handled, across all connections,
\* reloads, crashes and reboots.
THEOREM Implementation == Spec => ImplementsDelivery
<1>1. Init => Delivery!RInit
  BY DeliveryInit
<1>2. TypeOK /\ IInv /\ [Next]_vars => [Delivery!RNext]_<<pressed, handled, forgotten>>
  BY DeliveryStep
<1> QED
  BY <1>1, <1>2, TypeCorrect, InductiveInvariant, PTL
  DEF Spec, ImplementsDelivery, Delivery!RSpec

-----------------------------------------------------------------------------
(* Calm behaviours *)

\* A queue is a sequence of notifications.
LEMMA Queues ==
  ASSUME TypeOK
  PROVE  \A s \in Sessions : /\ Len(inbox[s]) \in Nat /\ DOMAIN inbox[s] = 1..Len(inbox[s])
                             /\ inbox[s] = <<>> <=> 1..Len(inbox[s]) = {}
                             /\ \A i \in 1..Len(inbox[s]) : inbox[s][i] \in Messages
<1> SUFFICES ASSUME NEW s \in Sessions
             PROVE  /\ Len(inbox[s]) \in Nat /\ DOMAIN inbox[s] = 1..Len(inbox[s])
                    /\ inbox[s] = <<>> <=> 1..Len(inbox[s]) = {}
                    /\ \A i \in 1..Len(inbox[s]) : inbox[s][i] \in Messages
  OBVIOUS
<1>1. inbox[s] \in Seq(Messages)
  BY DEF TypeOK
<1>2. Len(inbox[s]) \in Nat /\ DOMAIN inbox[s] = 1..Len(inbox[s])
  BY <1>1, LenProperties
<1>3. inbox[s] = <<>> <=> Len(inbox[s]) = 0
  BY <1>1, EmptySeq
<1>4. \A i \in 1..Len(inbox[s]) : inbox[s][i] \in Messages
  BY <1>1, ElementOfSeq
<1>5. \A n \in Nat : n = 0 <=> 1..n = {}
  OBVIOUS
<1> QED
  BY <1>2, <1>3, <1>4, <1>5

\* Only the first notifications of a queue were handled or the last ones lost.
Shorter ==
    \A r \in Sessions : \E d \in {0, 1} : \A i \in 1..Len(inbox'[r]) :
        i + d \in 1..Len(inbox[r]) /\ inbox'[r][i] = inbox[r][i + d]

\* Queues that get shorter stay in order.
LEMMA ShorterQueues ==
  ASSUME TypeOK, TypeOK', Sequenced, InitsTrue, NothingRepeated, left.calm, Shorter,
         handled' = handled, boot' = boot \/ handled[boot'] = {},
         \A r \in Sessions : session'[r].state = "open" => session[r].state = "open",
         \A r \in Sessions : link' = r => link = r /\ sent' = sent
  PROVE  Sequenced' /\ InitsTrue' /\ NothingRepeated'
<1> SUFFICES ASSUME NEW r \in Sessions, NEW j \in 1..Len(inbox'[r])
             PROVE  /\ link' = r => inbox'[r][j].upto <= sent'
                    /\ \A i \in 1..j - 1 : /\ inbox'[r][j].kind = "events"
                                           /\ inbox'[r][j].boot = inbox'[r][i].boot
                                           /\ inbox'[r][i].upto < inbox'[r][j].first
                    /\ inbox'[r][j].kind = "init" /\ session'[r].state = "open" =>
                          handled'[inbox'[r][j].boot] \subseteq 1..inbox'[r][j].upto
                    /\ inbox'[r][j].boot # boot' => handled'[boot'] = {}
                    /\ inbox'[r][j].kind = "events" /\ session'[r].state = "open" =>
                          inbox'[r][j].first \notin handled'[inbox'[r][j].boot]
  <2>1. \A s \in Sessions : DOMAIN inbox'[s] = 1..Len(inbox'[s])
    BY LenProperties DEF TypeOK
  <2> QED
    BY <2>1 DEF Sequenced, InitsTrue, NothingRepeated
<1>1. PICK d \in {0, 1} : \A i \in 1..Len(inbox'[r]) :
         i + d \in 1..Len(inbox[r]) /\ inbox'[r][i] = inbox[r][i + d]
  BY DEF Shorter
<1>2. /\ j + d \in 1..Len(inbox[r]) /\ inbox'[r][j] = inbox[r][j + d]
      /\ j + d \in DOMAIN inbox[r] /\ Len(inbox'[r]) \in Nat
  <2>1. Len(inbox'[r]) \in Nat
    BY LenProperties DEF TypeOK
  <2> QED
    BY <1>1, <2>1, Queues
<1>3. ASSUME NEW i \in 1..j - 1
      PROVE  i + d \in 1..(j + d) - 1 /\ inbox'[r][i] = inbox[r][i + d]
  <2>1. i \in 1..Len(inbox'[r]) /\ i + d \in 1..(j + d) - 1
    BY <1>2
  <2> QED
    BY <1>1, <2>1
<1>4. /\ link = r => inbox[r][j + d].upto <= sent
      /\ inbox[r][j + d].boot # boot => handled[boot] = {}
      /\ \A i \in 1..(j + d) - 1 : /\ inbox[r][j + d].kind = "events"
                                  /\ inbox[r][j + d].boot = inbox[r][i].boot
                                  /\ inbox[r][i].upto < inbox[r][j + d].first
  BY <1>2 DEF Sequenced, InitsTrue
<1>5. link' = r => inbox'[r][j].upto <= sent'
  BY <1>2, <1>4
<1>6. inbox'[r][j].boot # boot' => handled'[boot'] = {}
  BY <1>2, <1>4
<1>7. \A i \in 1..j - 1 : /\ inbox'[r][j].kind = "events"
                         /\ inbox'[r][j].boot = inbox'[r][i].boot
                         /\ inbox'[r][i].upto < inbox'[r][j].first
  BY <1>2, <1>3, <1>4, Zenon
<1>8. inbox'[r][j].kind = "init" /\ session'[r].state = "open" =>
        handled'[inbox'[r][j].boot] \subseteq 1..inbox'[r][j].upto
  BY <1>2 DEF InitsTrue
<1>9. inbox'[r][j].kind = "events" /\ session'[r].state = "open" =>
        inbox'[r][j].first \notin handled'[inbox'[r][j].boot]
  BY <1>2 DEF NothingRepeated
<1> QED
  BY <1>5, <1>6, <1>7, <1>8, <1>9, Zenon

\* Nothing was handled of a boot that is still to come.
LEMMA FutureBoots ==
  ASSUME TypeOK, IInv, CalmParts, NEW b \in Boots, b > boot
  PROVE  handled[b] = {}
<1>1. pressed[b] = 0
  BY DEF CalmParts
<1>2. PICK n \in 0..pressed[b] : handled[b] = 1..n
  BY DEF IInv, HandledPrefix
<1>3. n = 0
  BY <1>1, <1>2
<1> QED
  BY <1>2, <1>3

\* What neither handles nor sends anything keeps a calm run so.
LEMMA CalmKept ==
  ASSUME TypeOK, TypeOK', IInv, CalmParts, left.calm,
         left'.crash = left.crash, Shorter,
         UNCHANGED <<pressed, handled, entryData>>, boot' \in {boot, boot + 1},
         \A r \in Sessions : /\ session'[r].state = "open" => session[r].state = "open"
                             /\ session'[r].count = session[r].count
                             /\ session'[r].boot = session[r].boot
                             /\ Drained(r) => Drained(r)',
         \/ link' = NoSession /\ ~serving'
         \/ UNCHANGED <<link, serving, sent, boot>>
  PROVE  CalmParts'
<1>1. boot \in Boots /\ boot' \in Boots /\ boot \in Nat
  BY DEF TypeOK, Boots
<1>2. boot' = boot \/ handled[boot'] = {}
  BY <1>1, FutureBoots
<1>3. \A r \in Sessions : link' = r => link = r /\ sent' = sent
  BY SessionAssumption
<1>4. Sequenced' /\ InitsTrue' /\ NothingRepeated'
  BY <1>2, <1>3, ShorterQueues DEF CalmParts
<1>5. OneAtWork'
  BY DEF CalmParts, OneAtWork
<1>6. \A b \in Boots : b > boot' => pressed'[b] = 0
  <2>1. \A b \in Boots : b > boot' => b > boot
    BY <1>1 DEF Boots
  <2> QED
    BY <2>1 DEF CalmParts
<1>7. Tells(entryData)'
  BY <1>2 DEF CalmParts, Tells
<1>8. link' # NoSession /\ ~serving' => Tells(session[link])'
  <2> SUFFICES ASSUME link' # NoSession, ~serving' PROVE Tells(session[link])'
    OBVIOUS
  <2>1. link' \in Sessions /\ link' = link /\ ~serving /\ boot' = boot
    BY DEF TypeOK
  <2> QED
    BY <2>1 DEF CalmParts, Tells
<1>9. serving' => handled'[boot'] \subseteq 1..sent'
  BY DEF CalmParts
<1> QED
  BY <1>4, <1>5, <1>6, <1>7, <1>8, <1>9 DEF CalmParts

\* What keeps the queues, and what loses their ends, leaves shorter ones.
LEMMA ShorterWays ==
  ASSUME TypeOK, TypeOK'
  PROVE  /\ UNCHANGED inbox => Shorter
         /\ (\A r \in Sessions : /\ Len(inbox'[r]) <= Len(inbox[r])
                                 /\ \A i \in 1..Len(inbox'[r]) : inbox'[r][i] = inbox[r][i]) => Shorter
         /\ \A s \in Sessions : Next1(s) => Shorter
<1>1. \A r \in Sessions : Len(inbox[r]) \in Nat /\ Len(inbox'[r]) \in Nat
  BY LenProperties DEF TypeOK
<1>2. ASSUME \A r \in Sessions : /\ Len(inbox'[r]) <= Len(inbox[r])
                                 /\ \A i \in 1..Len(inbox'[r]) : inbox'[r][i] = inbox[r][i]
      PROVE  Shorter
  <2> SUFFICES ASSUME NEW r \in Sessions
               PROVE  \A i \in 1..Len(inbox'[r]) :
                         i + 0 \in 1..Len(inbox[r]) /\ inbox'[r][i] = inbox[r][i + 0]
    BY DEF Shorter
  <2>1. \A i \in 1..Len(inbox'[r]) : i + 0 = i /\ i \in 1..Len(inbox[r])
    BY <1>1, <1>2
  <2> QED
    BY <1>2, <2>1
<1>3. ASSUME NEW s \in Sessions, Next1(s) PROVE Shorter
  <2> SUFFICES ASSUME NEW r \in Sessions
               PROVE  \E d \in {0, 1} : \A i \in 1..Len(inbox'[r]) :
                         i + d \in 1..Len(inbox[r]) /\ inbox'[r][i] = inbox[r][i + d]
    BY DEF Shorter
  <2>1. CASE r = s
    BY <1>3, <2>1, Popped
  <2>2. CASE r # s
    <3>1. inbox'[r] = inbox[r]
      BY <1>3, <2>2, Popped
    <3>2. \A i \in 1..Len(inbox'[r]) : i + 0 = i
      BY <1>1
    <3>3. \A i \in 1..Len(inbox'[r]) : i + 0 \in 1..Len(inbox[r]) /\ inbox'[r][i] = inbox[r][i + 0]
      BY <3>1, <3>2
    <3> QED
      BY <3>3
  <2> QED
    BY <2>1, <2>2
<1>4. UNCHANGED inbox => Shorter
  BY <1>1, <1>2
<1> QED
  BY <1>2, <1>3, <1>4

\* The end of a link.
LEMMA LinkEndsCalm ==
  ASSUME TypeOK, TypeOK', IInv, link \in Sessions, LinkEnds(link), acking' = acking
  PROVE  Shorter /\ link' = NoSession /\ ~serving' /\ \A r \in Sessions : Drained(r) => Drained(r)'
<1>1. /\ link' = NoSession /\ ~serving'
      /\ \A r \in Sessions : /\ Len(inbox'[r]) <= Len(inbox[r])
                             /\ \A i \in 1..Len(inbox'[r]) : inbox'[r][i] = inbox[r][i]
  BY LinkEndsGone
<1>2. ASSUME NEW r \in Sessions, Drained(r) PROVE Drained(r)'
  <2>1. r # link /\ inbox[r] = <<>>
    BY <1>2 DEF Drained
  <2>2. inbox'[r] = inbox[r]
    BY <2>1 DEF LinkEnds, TypeOK
  <2> QED
    BY <1>1, <1>2, <2>1, <2>2, SessionAssumption DEF Drained
<1> QED
  BY <1>1, <1>2, ShorterWays

\* A session is opened for the counters of the entry.
LEMMA CalmOpen ==
  ASSUME TypeOK, TypeOK', IInv, CalmParts, left.calm, NEW s \in Sessions, Open(s)
  PROVE  CalmParts'
<1>1. /\ link = NoSession /\ link' = s /\ \A r \in Sessions : Drained(r)
      /\ session'[s].count = entryData.count /\ session'[s].boot = entryData.boot
      /\ UNCHANGED <<entryData, inbox, acking, boot, pressed, serving, sent, handled, left>>
  BY DEF Open, dataVars, buttonVars, historyVars, TypeOK
<1>2. \A r \in Sessions : inbox'[r] = <<>> /\ 1..Len(inbox'[r]) = {}
  <2>1. \A r \in Sessions : inbox[r] = <<>>
    BY <1>1 DEF Drained
  <2> QED
    BY <1>1, <2>1, Queues
<1>3. Sequenced' /\ InitsTrue' /\ NothingRepeated'
  <2>1. \A r \in Sessions : DOMAIN inbox'[r] = {}
    BY <1>1, <1>2, Queues
  <2> QED
    BY <1>2, <2>1 DEF Sequenced, InitsTrue, NothingRepeated
<1>4. OneAtWork'
  BY <1>1, SessionAssumption DEF OneAtWork, Drained
<1>5. ~serving'
  BY <1>1 DEF IInv, LinkCurrent
<1>6. Tells(entryData)' /\ Tells(session[link])'
  BY <1>1 DEF CalmParts, Tells
<1> QED
  BY <1>1, <1>3, <1>4, <1>5, <1>6 DEF CalmParts

\* The other sessions have nothing to do while s has.
LEMMA OthersDrained ==
  ASSUME TypeOK, OneAtWork, NEW s \in Sessions, ~Drained(s)
  PROVE  /\ \A r \in Sessions \ {s} : Drained(r) /\ inbox[r] = <<>> /\ r # link /\ r \notin acking
         /\ link \in {s, NoSession}
BY DEF OneAtWork, Drained, TypeOK

\* The init response tells what was handled.
LEMMA CalmHandleInit ==
  ASSUME TypeOK, TypeOK', IInv, CalmParts, left.calm, NEW s \in Sessions, Handle(s),
         Head(inbox[s]).kind = "init"
  PROVE  CalmParts'
<1> DEFINE m == Head(inbox[s])
<1>1. /\ Next1(s) /\ session[s].state = "open" /\ HandleInit(s, m)
      /\ UNCHANGED <<link, boot, pressed, serving, sent, left>>
  BY DEF Handle, buttonVars
<1>2. /\ 1 \in 1..Len(inbox[s]) /\ m = inbox[s][1] /\ m \in Messages
      /\ \A r \in Sessions \ {s} : inbox'[r] = inbox[r]
      /\ m.kind = "init"
  BY <1>1, Popped
<1>3. m.boot \in Boots /\ m.upto \in 0..MaxPress
  BY <1>2, MessageFields
<1> HIDE DEF m
<1>4. /\ session' = [session EXCEPT ![s] = [session[s] EXCEPT !.count = m.upto, !.boot = m.boot]]
      /\ UNCHANGED <<acking, handled>>
  BY <1>1 DEF HandleInit, historyVars
<1>5. /\ session'[s].state = "open" /\ session'[s].count = m.upto /\ session'[s].boot = m.boot
      /\ \A r \in Sessions \ {s} : session'[r] = session[r]
  BY <1>1, <1>4 DEF TypeOK, SessionRecords
<1>6. entryData'.count = m.upto /\ entryData'.boot = m.boot
  BY <1>1, <1>5 DEF HandleInit, Store
<1>7. ~Drained(s) /\ inbox[s] # <<>>
  BY <1>1 DEF Next1, Drained
<1>8. Sequenced' /\ InitsTrue' /\ NothingRepeated'
  <2>1. Shorter
    BY <1>1, ShorterWays
  <2>2. \A r \in Sessions : session'[r].state = "open" => session[r].state = "open"
    BY <1>1, <1>5
  <2> QED
    BY <1>1, <1>4, <2>1, <2>2, ShorterQueues DEF CalmParts
<1>9. OneAtWork'
  <2>1. \A r \in Sessions \ {s} : Drained(r)'
    BY <1>1, <1>2, <1>4, <1>7, OthersDrained DEF Drained, CalmParts
  <2> QED
    BY <2>1 DEF OneAtWork
<1>10. Tells(entryData)'
  <2>1. m.boot = boot => handled[boot] \subseteq 1..m.upto
    BY <1>1, <1>2 DEF CalmParts, InitsTrue
  <2>2. m.boot # boot => handled[boot] = {}
    BY <1>2 DEF CalmParts, InitsTrue
  <2> QED
    BY <1>1, <1>4, <1>6, <2>1, <2>2 DEF Tells
<1>11. ~(link' # NoSession /\ ~serving')
  <2>1. link \in {s, NoSession}
    BY <1>7, OthersDrained DEF CalmParts
  <2> QED
    BY <1>1, <1>7, <2>1 DEF IInv, LinkCurrent
<1> QED
  BY <1>1, <1>4, <1>8, <1>9, <1>10, <1>11 DEF CalmParts

\* Events that are handled are the next ones.
LEMMA CalmHandleEvents ==
  ASSUME TypeOK, TypeOK', IInv, CalmParts, left.calm, NEW s \in Sessions, Handle(s),
         Head(inbox[s]).kind # "init"
  PROVE  CalmParts'
<1> DEFINE m == Head(inbox[s])
<1>1. /\ Next1(s) /\ session[s].state = "open" /\ HandleEvents(s, m)
      /\ UNCHANGED <<link, boot, pressed, serving, sent, left>>
  BY DEF Handle, buttonVars
<1>2. /\ 1 \in 1..Len(inbox[s]) /\ m = inbox[s][1] /\ m \in Messages /\ Len(inbox[s]) \in Nat
      /\ \A r \in Sessions \ {s} : inbox'[r] = inbox[r]
      /\ \A i \in 1..Len(inbox'[s]) : i + 1 \in 1..Len(inbox[s]) /\ inbox'[s][i] = inbox[s][i + 1]
  BY <1>1, Popped, Queues
<1>3. /\ m.boot \in Boots /\ m.boot = session[s].boot /\ m.upto \in 1..MaxPress /\ m.first \in 1..MaxPress
      /\ m.kind = "events"
  BY <1>2, MessageFields, HandledGrows
<1> HIDE DEF m
<1>4. /\ session' = [session EXCEPT ![s] = [session[s] EXCEPT !.count = m.upto]]
      /\ handled' = [handled EXCEPT ![m.boot] = handled[m.boot] \cup m.first..m.upto]
      /\ acking' \subseteq acking \cup {s}
  BY <1>1 DEF HandleEvents
<1>5. /\ session'[s].state = "open" /\ session'[s].count = m.upto /\ session'[s].boot = m.boot
      /\ \A r \in Sessions \ {s} : session'[r] = session[r]
  BY <1>1, <1>3, <1>4 DEF TypeOK, SessionRecords
<1>6. entryData'.count = m.upto /\ entryData'.boot = m.boot
  BY <1>1, <1>5 DEF HandleEvents, Store
<1>7. ~Drained(s) /\ inbox[s] # <<>>
  BY <1>1 DEF Next1, Drained
<1>8. \A r \in Sessions \ {s} : inbox'[r] = <<>> /\ r # link /\ 1..Len(inbox'[r]) = {} /\ DOMAIN inbox'[r] = {}
  BY <1>2, <1>7, OthersDrained, Queues DEF CalmParts
\* Nothing but what is handled now was left out.
<1>9. handled'[m.boot] \subseteq 1..m.upto /\ \A b \in Boots \ {m.boot} : handled'[b] = handled[b]
  <2>1. m.first \notin handled[m.boot]
    BY <1>1, <1>2, <1>3, Queues DEF CalmParts, NothingRepeated
  <2>2. PICK n \in 0..pressed[m.boot] : handled[m.boot] = 1..n
    BY <1>3 DEF IInv, HandledPrefix
  <2>3. n \in Nat
    BY <1>3, <2>2 DEF TypeOK
  <2>4. m.first <= m.upto
    BY <1>2, <1>3 DEF IInv, NotesTrue
  <2>5. n < m.first
    BY <1>3, <2>1, <2>2, <2>3
  <2>6. (1..n) \cup (m.first..m.upto) \subseteq 1..m.upto
    BY <1>3, <2>3, <2>4, <2>5
  <2>7. handled'[m.boot] = handled[m.boot] \cup m.first..m.upto
        /\ \A b \in Boots \ {m.boot} : handled'[b] = handled[b]
    BY <1>3, <1>4 DEF TypeOK
  <2> QED
    BY <2>2, <2>6, <2>7
<1>10. m.boot # boot => handled'[boot] = {}
  <2>1. boot \in Boots
    BY DEF TypeOK
  <2> QED
    BY <1>2, <1>9, <2>1 DEF CalmParts, InitsTrue
<1>11. ASSUME NEW i \in 1..Len(inbox'[s])
       PROVE  /\ inbox'[s][i] = inbox[s][i + 1] /\ i + 1 \in 1..Len(inbox[s]) /\ inbox'[s][i] \in Messages
              /\ inbox'[s][i].kind = "events" /\ inbox'[s][i].boot = m.boot
              /\ m.upto < inbox'[s][i].first
              /\ link = s => inbox'[s][i].upto <= sent
  <2>1. inbox'[s][i] = inbox[s][i + 1] /\ i + 1 \in 1..Len(inbox[s]) /\ 1 \in 1..(i + 1) - 1
    <3>1. Len(inbox'[s]) \in Nat
      BY LenProperties DEF TypeOK
    <3> QED
      BY <1>2, <3>1
  <2>2. Sequenced /\ inbox[s][i + 1] \in Messages
    BY <2>1, Queues DEF CalmParts
  <2>3. /\ link = s => inbox[s][i + 1].upto <= sent
        /\ inbox[s][i + 1].kind = "events" /\ inbox[s][i + 1].boot = inbox[s][1].boot
        /\ inbox[s][1].upto < inbox[s][i + 1].first
    BY <2>1, <2>2 DEF Sequenced
  <2> QED
    BY <1>2, <2>1, <2>2, <2>3
<1>12. Sequenced'
  <2> SUFFICES ASSUME NEW r \in Sessions, NEW j \in 1..Len(inbox'[r])
               PROVE  /\ link' = r => inbox'[r][j].upto <= sent'
                      /\ \A i \in 1..j - 1 : /\ inbox'[r][j].kind = "events"
                                             /\ inbox'[r][j].boot = inbox'[r][i].boot
                                             /\ inbox'[r][i].upto < inbox'[r][j].first
    BY DEF Sequenced
  <2>1. r = s
    BY <1>8
  <2>2. ASSUME NEW i \in 1..j - 1
        PROVE  i \in 1..Len(inbox'[s]) /\ i + 1 \in 1..(j + 1) - 1
    <3>1. Len(inbox'[s]) \in Nat
      BY LenProperties DEF TypeOK
    <3> QED
      BY <2>1, <3>1
  <2>3. ASSUME NEW i \in 1..j - 1
        PROVE  /\ inbox'[r][j].kind = "events"
               /\ inbox'[r][j].boot = inbox'[r][i].boot
               /\ inbox'[r][i].upto < inbox'[r][j].first
    <3>1. /\ i \in 1..Len(inbox'[s]) /\ i + 1 \in 1..(j + 1) - 1
          /\ j + 1 \in 1..Len(inbox[s])
      BY <1>11, <2>1, <2>2
    <3>2. Sequenced
      BY DEF CalmParts
    <3>3. /\ inbox[s][j + 1].kind = "events"
          /\ inbox[s][j + 1].boot = inbox[s][i + 1].boot
          /\ inbox[s][i + 1].upto < inbox[s][j + 1].first
      BY <3>1, <3>2 DEF Sequenced
    <3> QED
      BY <1>11, <2>1, <3>1, <3>3
  <2> QED
    BY <1>1, <1>11, <2>1, <2>3
<1>13. InitsTrue'
  <2> SUFFICES ASSUME NEW r \in Sessions, NEW i \in 1..Len(inbox'[r])
               PROVE  inbox'[r][i].kind # "init" /\ (inbox'[r][i].boot # boot' => handled'[boot'] = {})
    BY DEF InitsTrue
  <2>1. r = s
    BY <1>8
  <2> QED
    BY <1>1, <1>10, <1>11, <2>1
<1>14. NothingRepeated'
  <2> SUFFICES ASSUME NEW r \in Sessions, NEW i \in DOMAIN inbox'[r]
               PROVE  inbox'[r][i].first \notin handled'[inbox'[r][i].boot]
    BY DEF NothingRepeated
  <2>1. r = s
    BY <1>8
  <2>2. i \in 1..Len(inbox'[s])
    BY <2>1, LenProperties DEF TypeOK
  <2>3. m.upto < inbox'[s][i].first /\ inbox'[s][i].first \in 1..MaxPress
    BY <1>11, <2>2, MessageFields
  <2>4. inbox'[s][i].first \notin 1..m.upto
    BY <1>3, <2>3
  <2> QED
    BY <1>9, <1>11, <2>1, <2>2, <2>4
<1>15. OneAtWork'
  <2>1. \A r \in Sessions \ {s} : Drained(r)'
    BY <1>1, <1>2, <1>4, <1>7, OthersDrained DEF Drained, CalmParts
  <2> QED
    BY <2>1 DEF OneAtWork
<1>16. Tells(entryData)'
  BY <1>1, <1>6, <1>9, <1>10 DEF Tells
<1>17. link \in {s, NoSession}
  BY <1>7, OthersDrained DEF CalmParts
<1>18. ~(link' # NoSession /\ ~serving')
  BY <1>1, <1>7, <1>17 DEF IInv, LinkCurrent
<1>19. serving' => handled'[boot'] \subseteq 1..sent'
  <2> SUFFICES ASSUME serving PROVE handled'[boot] \subseteq 1..sent
    BY <1>1
  <2>1. link = s
    BY <1>17 DEF IInv, LinkCurrent
  <2>2. m.boot = boot /\ m.upto <= sent
    BY <1>2, <2>1 DEF IInv, LinkCurrent, CalmParts, Sequenced
  <2>3. 1..m.upto \subseteq 1..sent
    BY <1>3, <2>2 DEF TypeOK
  <2> QED
    BY <1>9, <2>2, <2>3
<1> QED
  BY <1>1, <1>12, <1>13, <1>14, <1>15, <1>16, <1>18, <1>19 DEF CalmParts

\* A press is of the boot of the button.
LEMMA CalmPress ==
  ASSUME TypeOK, CalmParts, left.calm, Press
  PROVE  CalmParts'
<1>1. /\ pressed' = [pressed EXCEPT ![boot] = @ + 1]
      /\ UNCHANGED <<entryData, session, inbox, acking, link, boot, serving, sent, handled, left>>
  BY DEF Press, dataVars, sessionVars, linkVars, historyVars
<1>2. \A b \in Boots : b > boot => pressed'[b] = pressed[b]
  BY <1>1 DEF TypeOK, Boots
<1>3. Sequenced' /\ InitsTrue' /\ NothingRepeated' /\ OneAtWork'
  BY <1>1 DEF CalmParts, Sequenced, InitsTrue, NothingRepeated, OneAtWork, Drained
<1>4. Tells(entryData)' /\ (link' # NoSession /\ ~serving' => Tells(session[link])')
  BY <1>1 DEF CalmParts, Tells
<1> QED
  BY <1>1, <1>2, <1>3, <1>4 DEF CalmParts

\* The button appends what follows all that was sent and handled.
LEMMA CalmAppended ==
  ASSUME TypeOK, TypeOK', IInv, CalmParts, left.calm, NEW s \in Sessions, NEW m \in Messages,
         link = s, inbox' = [inbox EXCEPT ![s] = Append(@, m)], serving',
         UNCHANGED <<entryData, session, acking, link, boot, pressed, handled, left>>,
         m.boot = boot, m.upto = sent', handled[boot] \subseteq 1..sent',
         m.kind = "events" => m.first \notin handled[boot],
         \A i \in 1..Len(inbox[s]) : /\ m.kind = "events" /\ inbox[s][i].upto < m.first
                                     /\ inbox[s][i].upto <= sent'
  PROVE  CalmParts'
<1> DEFINE n == Len(inbox[s])
<1>1. /\ n \in Nat /\ Len(inbox'[s]) = n + 1 /\ inbox'[s][n + 1] = m
      /\ \A i \in 1..n : inbox'[s][i] = inbox[s][i]
      /\ \A r \in Sessions \ {s} : inbox'[r] = inbox[r]
  BY Appended
<1> HIDE DEF n
<1>2. ~Drained(s) /\ \A r \in Sessions \ {s} : inbox[r] = <<>> /\ Drained(r)'
  <2>1. ~Drained(s)
    BY DEF Drained
  <2> QED
    BY <1>1, <2>1, OthersDrained, SessionAssumption DEF Drained, CalmParts
<1>3. \A r \in Sessions : \A i \in 1..Len(inbox'[r]) : r = s /\ (i \in 1..n \/ i = n + 1)
  <2>1. \A r \in Sessions \ {s} : 1..Len(inbox'[r]) = {}
    BY <1>1, <1>2, Queues
  <2>2. \A i \in 1..Len(inbox'[s]) : i \in 1..n \/ i = n + 1
    BY <1>1
  <2> QED
    BY <2>1, <2>2
<1>4. Sequenced /\ InitsTrue /\ NothingRepeated /\ \A i \in 1..n : inbox[s][i].boot = boot
  BY DEF CalmParts, IInv, LinkCurrent, n
<1>5. Sequenced'
  <2> SUFFICES ASSUME NEW r \in Sessions, NEW j \in 1..Len(inbox'[r])
               PROVE  /\ link' = r => inbox'[r][j].upto <= sent'
                      /\ \A i \in 1..j - 1 : /\ inbox'[r][j].kind = "events"
                                             /\ inbox'[r][j].boot = inbox'[r][i].boot
                                             /\ inbox'[r][i].upto < inbox'[r][j].first
    BY DEF Sequenced
  <2>1. CASE j \in 1..n
    <3>1. \A i \in 1..j - 1 : i \in 1..n
      BY <1>1, <2>1
    <3>2. /\ inbox[s][j].upto <= sent'
          /\ \A i \in 1..j - 1 : /\ inbox[s][j].kind = "events"
                                 /\ inbox[s][j].boot = inbox[s][i].boot
                                 /\ inbox[s][i].upto < inbox[s][j].first
      BY <1>4, <2>1 DEF Sequenced, n
    <3> QED
      BY <1>1, <1>3, <2>1, <3>1, <3>2
  <2>2. CASE j = n + 1
    <3>1. \A i \in 1..j - 1 : i \in 1..n
      BY <1>1, <2>2
    <3>2. sent' <= sent'
      BY DEF TypeOK
    <3> QED
      BY <1>1, <1>3, <1>4, <2>2, <3>1, <3>2 DEF n
  <2> QED
    BY <1>3, <2>1, <2>2
<1>6. InitsTrue'
  <2> SUFFICES ASSUME NEW i \in 1..n + 1
               PROVE  /\ inbox'[s][i].kind = "init" /\ session[s].state = "open" =>
                            handled[inbox'[s][i].boot] \subseteq 1..inbox'[s][i].upto
                      /\ inbox'[s][i].boot # boot => handled[boot] = {}
    BY <1>1, <1>3 DEF InitsTrue
  <2>1. CASE i \in 1..n
    BY <1>1, <1>4, <2>1 DEF InitsTrue, n
  <2>2. CASE i = n + 1
    BY <1>1, <2>2
  <2> QED
    BY <1>1, <2>1, <2>2
<1>7. NothingRepeated'
  <2> SUFFICES ASSUME NEW r \in Sessions, NEW i \in DOMAIN inbox'[r],
                      inbox'[r][i].kind = "events", session[r].state = "open"
               PROVE  inbox'[r][i].first \notin handled[inbox'[r][i].boot]
    BY DEF NothingRepeated
  <2>1. r = s /\ (i \in 1..n \/ i = n + 1)
    <3>1. DOMAIN inbox'[r] = 1..Len(inbox'[r])
      BY LenProperties DEF TypeOK
    <3> QED
      BY <1>3, <3>1
  <2>2. CASE i \in 1..n
    <3>1. i \in DOMAIN inbox[s]
      BY <2>2, Queues DEF n
    <3> QED
      BY <1>1, <1>4, <2>1, <2>2, <3>1 DEF NothingRepeated
  <2>3. CASE i = n + 1
    BY <1>1, <2>1, <2>3
  <2> QED
    BY <2>1, <2>2, <2>3
<1>8. OneAtWork'
  BY <1>2 DEF OneAtWork
<1>9. Tells(entryData)'
  BY DEF CalmParts, Tells
<1> QED
  BY <1>5, <1>6, <1>7, <1>8, <1>9 DEF CalmParts

\* The init response tells all that was handled, since the session did.
LEMMA CalmButtonInit ==
  ASSUME TypeOK, TypeOK', IInv, CalmParts, left.calm, NEW s \in Sessions, ButtonInit(s)
  PROVE  CalmParts'
<1> DEFINE m == [kind |-> "init", upto |-> sent', boot |-> boot]
<1>1. /\ link = s /\ ~serving /\ serving'
      /\ inbox' = [inbox EXCEPT ![s] = Append(@, m)]
      /\ UNCHANGED <<entryData, session, acking, link, boot, pressed, handled, left>>
  BY DEF ButtonInit, dataVars, linkVars, historyVars
<1>2. boot \in Boots /\ sent' \in 0..MaxPress /\ forgotten[boot] \in 0..MaxPress
  BY DEF TypeOK
<1>3. m \in Messages
  BY <1>2 DEF Messages
<1>4. 1..Len(inbox[s]) = {}
  BY <1>1, Queues DEF IInv, LinkCurrent
<1>5. handled[boot] \subseteq 1..sent'
  <2>1. Tells(session[s])
    BY <1>1, SessionAssumption DEF CalmParts
  <2>2. CASE session[s].boot = boot
    <3>1. handled[boot] \subseteq 1..session[s].count /\ session[s].count \in 0..MaxPress
      BY <2>1, <2>2 DEF Tells, TypeOK, SessionRecords
    <3>2. sent' = Higher(session[s].count, forgotten[boot])
      BY <2>2 DEF ButtonInit
    <3>3. 1..session[s].count \subseteq 1..sent'
      BY <1>2, <3>1, <3>2 DEF Higher
    <3> QED
      BY <3>1, <3>3
  <2>3. CASE session[s].boot # boot
    <3>1. handled[boot] \subseteq 1..0
      BY <2>1, <2>3 DEF Tells
    <3>2. 1..0 = {}
      OBVIOUS
    <3> QED
      BY <3>1, <3>2
  <2> QED
    BY <2>2, <2>3
<1>6. m.kind = "init" /\ m.upto = sent' /\ m.boot = boot
  OBVIOUS
<1> HIDE DEF m
<1> QED
  BY <1>1, <1>3, <1>4, <1>5, <1>6, CalmAppended

\* Events that are sent come after all that was sent and handled.
LEMMA CalmButtonSends ==
  ASSUME TypeOK, TypeOK', IInv, CalmParts, left.calm, NEW s \in Sessions,
         NEW n \in 1..MaxPress, NEW needsAck \in BOOLEAN, ButtonSends(s, n, needsAck)
  PROVE  CalmParts'
<1> DEFINE m == [kind |-> "events", first |-> sent + 1, upto |-> n, boot |-> boot,
                 needsAck |-> needsAck]
<1>1. /\ link = s /\ serving /\ serving' /\ sent' = n
      /\ inbox' = [inbox EXCEPT ![s] = Append(@, m)]
      /\ UNCHANGED <<entryData, session, acking, link, boot, pressed, handled, left>>
  BY DEF ButtonSends, dataVars, linkVars, historyVars
<1>2. /\ boot \in Boots /\ sent \in 0..MaxPress /\ pressed[boot] \in 0..MaxPress
      /\ n \in (sent + 1)..pressed[boot]
  BY DEF TypeOK, ButtonSends
<1>3. m \in Messages
  <2>1. sent + 1 \in 1..MaxPress
    BY <1>2
  <2> QED
    BY <1>2, <2>1 DEF Messages
<1>4. handled[boot] \subseteq 1..sent
  BY <1>1 DEF CalmParts
<1>5. handled[boot] \subseteq 1..sent' /\ m.first \notin handled[boot]
  <2>1. 1..sent \subseteq 1..sent' /\ sent + 1 \notin 1..sent
    BY <1>1, <1>2
  <2> QED
    BY <1>4, <2>1
<1>6. \A i \in 1..Len(inbox[s]) : inbox[s][i].upto < sent + 1 /\ inbox[s][i].upto <= sent'
  <2> SUFFICES ASSUME NEW i \in 1..Len(inbox[s])
               PROVE  inbox[s][i].upto < sent + 1 /\ inbox[s][i].upto <= sent'
    OBVIOUS
  <2>1. inbox[s][i].upto <= sent
    BY <1>1 DEF CalmParts, Sequenced
  <2>2. inbox[s][i].upto \in 0..MaxPress
    BY Queues, MessageFields
  <2> QED
    BY <1>1, <1>2, <2>1, <2>2
<1>7. m.kind = "events" /\ m.upto = sent' /\ m.boot = boot /\ m.first = sent + 1
  BY <1>1
<1> HIDE DEF m
<1> QED
  BY <1>1, <1>3, <1>5, <1>6, <1>7, CalmAppended

\* A run stays calm or not, and crashes are the only steps that are taken from
\* the budget of crashes.
LEMMA BudgetKept ==
  ASSUME TypeOK, [Next]_vars
  PROVE  left'.calm = left.calm /\ (left'.crash = left.crash \/ Crash)
<1> USE DEF entryVars, dataVars, sessionVars, linkVars, buttonVars, historyVars
<1>1. left \in BudgetRecords
  BY DEF TypeOK
<1>2. CASE EntryStep
  BY <1>1, <1>2 DEF EntryStep, Setup, Subscribe, StopDevice, Save, Crash, UnloadPlatforms,
                    BudgetRecords
<1>3. CASE Press \/ Reboot
  BY <1>1, <1>3 DEF Press, Reboot, BudgetRecords
<1>4. ASSUME NEW s \in Sessions, SessionStep(s)
      PROVE  UNCHANGED left
  BY <1>4 DEF SessionStep, Open, Handle, Ignore, AckReturns, AckRaises, Close
<1>5. ASSUME NEW s \in Sessions, ButtonStep(s)
      PROVE  left'.calm = left.calm /\ left'.crash = left.crash
  BY <1>1, <1>5 DEF ButtonStep, ButtonInit, AckArrives, LinkLost, ButtonSends, BudgetRecords
<1>6. CASE UNCHANGED vars
  BY <1>6 DEF vars
<1> QED
  BY <1>2, <1>3, <1>4, <1>5, <1>6 DEF Next

\* What leaves the sessions and their queues alone.
LEMMA CalmUntouched ==
  ASSUME TypeOK, TypeOK', IInv, CalmParts, left.calm, left'.crash = left.crash,
         UNCHANGED <<pressed, handled, entryData, session, inbox, acking, link, serving,
                     sent, boot>>
  PROVE  CalmParts'
<1>1. Shorter
  BY ShorterWays
<1>2. \A r \in Sessions : Drained(r) => Drained(r)'
  BY DEF Drained
<1> QED
  BY <1>1, <1>2, CalmKept

\* What ends the link, if there is one.
LEMMA CalmLinkEnds ==
  ASSUME TypeOK, TypeOK', IInv, CalmParts, left.calm, left'.crash = left.crash,
         link = NoSession => UNCHANGED <<link, inbox, serving, sent>>,
         link # NoSession => LinkEnds(link),
         UNCHANGED <<pressed, handled, entryData, acking>>, boot' \in {boot, boot + 1},
         \A r \in Sessions : /\ session'[r].state = session[r].state
                             /\ session'[r].count = session[r].count
                             /\ session'[r].boot = session[r].boot
  PROVE  CalmParts'
<1>1. CASE link = NoSession
  <2>1. Shorter /\ ~serving
    BY <1>1, ShorterWays, NoLink
  <2>2. \A r \in Sessions : Drained(r) => Drained(r)'
    BY <1>1 DEF Drained
  <2> QED
    BY <1>1, <2>1, <2>2, CalmKept
<1>2. CASE link # NoSession
  <2>1. link \in Sessions /\ LinkEnds(link)
    BY <1>2 DEF TypeOK
  <2>2. Shorter /\ link' = NoSession /\ ~serving' /\ \A r \in Sessions : Drained(r) => Drained(r)'
    BY <2>1, LinkEndsCalm
  <2> QED
    BY <2>2, CalmKept
<1> QED
  BY <1>1, <1>2

\* What only takes notifications or work from the sessions.
LEMMA CalmFinishes ==
  ASSUME TypeOK, TypeOK', IInv, CalmParts, left.calm, NEW s \in Sessions,
         \/ Ignore(s) \/ AckReturns(s) \/ AckRaises(s)
  PROVE  CalmParts'
<1> USE DEF entryVars, dataVars, sessionVars, linkVars, buttonVars, historyVars
<1>1. UNCHANGED <<pressed, handled, entryData, link, serving, sent, boot, left>>
  BY DEF Ignore, AckReturns, AckRaises
<1>2. Shorter /\ acking' \subseteq acking /\ \A r \in Sessions : inbox[r] = <<>> => inbox'[r] = <<>>
  <2>1. CASE Ignore(s)
    <3>1. Next1(s) /\ acking' = acking /\ inbox[s] # <<>>
      BY <2>1 DEF Ignore, Next1
    <3> QED
      BY <3>1, ShorterWays, Popped
  <2>2. CASE AckReturns(s) \/ AckRaises(s)
    BY <2>2, ShorterWays DEF AckReturns, AckRaises
  <2> QED
    BY <2>1, <2>2
<1>3. \A r \in Sessions : /\ session'[r].state = "open" => session[r].state = "open"
                          /\ session'[r].count = session[r].count
                          /\ session'[r].boot = session[r].boot
  <2>1. CASE AckRaises(s)
    <3> SUFFICES ASSUME NEW r \in Sessions
                 PROVE  /\ session'[r].state = "open" => session[r].state = "open"
                        /\ session'[r].count = session[r].count
                        /\ session'[r].boot = session[r].boot
      OBVIOUS
    <3>1. session[s] \in SessionRecords /\ session \in [Sessions -> SessionRecords]
      BY DEF TypeOK
    <3>2. session' = [session EXCEPT ![s] = [session[s] EXCEPT !.state = "failed"]]
      BY <2>1 DEF AckRaises
    <3> QED
      BY <3>1, <3>2 DEF SessionRecords
  <2>2. CASE Ignore(s) \/ AckReturns(s)
    BY <2>2 DEF Ignore, AckReturns
  <2> QED
    BY <2>1, <2>2
<1>4. \A r \in Sessions : Drained(r) => Drained(r)'
  BY <1>1, <1>2 DEF Drained
<1> QED
  BY <1>1, <1>2, <1>3, <1>4, CalmKept

LEMMA CalmStep == TypeOK /\ TypeOK' /\ IInv /\ CalmInv /\ [Next]_vars => CalmInv'
<1> SUFFICES ASSUME TypeOK, TypeOK', IInv, CalmInv, [Next]_vars, left'.calm PROVE CalmParts'
  BY DEF CalmInv, CalmParts
<1> USE DEF entryVars, dataVars, sessionVars, linkVars, buttonVars, historyVars
<1>0. left.calm /\ CalmParts
  BY BudgetKept DEF CalmInv, CalmParts
<1>1. left'.crash = left.crash /\ ~Crash
  <2>1. ~Crash
    BY <1>0 DEF Crash, CalmParts
  <2> QED
    BY <2>1, BudgetKept
<1>2. CASE Setup \/ Subscribe \/ Save \/ \E ok \in BOOLEAN : UnloadPlatforms(ok)
  BY <1>0, <1>1, <1>2, CalmUntouched DEF Setup, Subscribe, Save, UnloadPlatforms
<1>3. CASE StopDevice
  <2>1. \A r \in Sessions : /\ session'[r].state = session[r].state
                            /\ session'[r].count = session[r].count
                            /\ session'[r].boot = session[r].boot
    BY <1>3, StopKeepsCounters
  <2>2. /\ link = NoSession => UNCHANGED <<link, inbox, serving, sent>>
        /\ link # NoSession => LinkEnds(link)
        /\ UNCHANGED <<pressed, handled, entryData, acking, boot>>
    BY <1>3 DEF StopDevice
  <2> QED
    BY <1>0, <1>1, <2>1, <2>2, CalmLinkEnds
<1>4. CASE Reboot
  <2>1. /\ link = NoSession => UNCHANGED <<link, inbox, serving, sent>>
        /\ link # NoSession => LinkEnds(link)
        /\ UNCHANGED <<pressed, handled, entryData, acking, session>> /\ boot' = boot + 1
    BY <1>4 DEF Reboot
  <2> QED
    BY <1>0, <1>1, <2>1, CalmLinkEnds
<1>5. ASSUME NEW s \in Sessions, Close(s) \/ LinkLost(s) PROVE CalmParts'
  <2>1. /\ link = s /\ LinkEnds(link)
        /\ UNCHANGED <<pressed, handled, entryData, acking, session, boot>>
    BY <1>5 DEF Close, LinkLost
  <2> QED
    BY <1>0, <1>1, <2>1, SessionAssumption, CalmLinkEnds
<1>6. ASSUME NEW s \in Sessions, Open(s) PROVE CalmParts'
  BY <1>0, <1>6, CalmOpen
<1>7. ASSUME NEW s \in Sessions, Handle(s) PROVE CalmParts'
  BY <1>0, <1>7, CalmHandleInit, CalmHandleEvents
<1>8. ASSUME NEW s \in Sessions, Ignore(s) \/ AckReturns(s) \/ AckRaises(s) PROVE CalmParts'
  BY <1>0, <1>8, CalmFinishes
<1>9. CASE Press
  BY <1>0, <1>9, CalmPress
<1>10. ASSUME NEW s \in Sessions, ButtonInit(s) PROVE CalmParts'
  BY <1>0, <1>10, CalmButtonInit
<1>11. ASSUME NEW s \in Sessions, NEW n \in 1..MaxPress, NEW needsAck \in BOOLEAN,
              ButtonSends(s, n, needsAck)
       PROVE  CalmParts'
  BY <1>0, <1>11, CalmButtonSends
<1>12. ASSUME NEW s \in Sessions, AckArrives(s) PROVE CalmParts'
  BY <1>0, <1>1, <1>12, CalmUntouched DEF AckArrives
<1>13. CASE UNCHANGED vars
  BY <1>0, <1>1, <1>13, CalmUntouched DEF vars
<1> QED
  BY <1>1, <1>2, <1>3, <1>4, <1>5, <1>6, <1>7, <1>8, <1>9, <1>10, <1>11, <1>12, <1>13
  DEF Next, EntryStep, SessionStep, ButtonStep

LEMMA CalmInit == Init => CalmInv
<1> SUFFICES ASSUME Init, left.calm PROVE CalmParts
  BY DEF CalmInv, CalmParts
<1>1. left.crash = 0
  BY BudgetAssumption DEF Init
<1>2. \A r \in Sessions : 1..Len(inbox[r]) = {} /\ DOMAIN inbox[r] = {}
  BY TypeInit, Queues DEF Init
<1>3. Sequenced /\ InitsTrue /\ NothingRepeated
  BY <1>2 DEF Sequenced, InitsTrue, NothingRepeated
<1>4. OneAtWork /\ link = NoSession /\ ~serving
  BY SessionAssumption DEF Init, OneAtWork, Drained
<1>5. handled[boot] = {} /\ \A b \in Boots : pressed[b] = 0
  BY DEF Init, Boots
<1>6. Tells(entryData)
  BY <1>5 DEF Tells
<1> QED
  BY <1>1, <1>3, <1>4, <1>5, <1>6 DEF CalmParts

\* Besides IInv: where connections do not overlap and nothing crashes, the entry
\* is never behind what was handled, and a button that reconnects resumes at the
\* first event that was not.
THEOREM DeliveryHolds == Spec => []DeliveryInv
<1>1. Init => TypeOK /\ DeliveryInv
  BY TypeInit, InvInit, CalmInit DEF DeliveryInv
<1>2. TypeOK /\ DeliveryInv /\ [Next]_vars => TypeOK' /\ DeliveryInv'
  BY TypeStep, InvStep, CalmStep DEF DeliveryInv
<1> QED
  BY <1>1, <1>2, PTL DEF Spec

\* Then no event is handled twice, whatever links are lost, acknowledgements
\* fail, entries are reloaded and batteries are changed.
THEOREM NothingTwice == Spec => []NothingRepeated
<1>1. DeliveryInv => NothingRepeated
  BY DEF DeliveryInv, CalmInv, CalmParts, NothingRepeated
<1> QED
  BY <1>1, DeliveryHolds, PTL
=============================================================================
