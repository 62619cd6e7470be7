------------------------ MODULE AlertManagerProofs ------------------------
(***************************************************************************)
(* Proofs about alert_manager for every set of alert types, every          *)
(* assignment of priorities in which alerts_dropped_alert comes out on     *)
(* top, and every queue limit.                                             *)
(***************************************************************************)
EXTENDS AlertManager, TLAPS

USE TypesAssumption, LimitsAssumption

(* An integer division stays below a limit exactly when the dividend stays *)
(* below the product.                                                      *)
LEMMA DivBelow ==
    ASSUME NEW n \in Nat, NEW k \in Nat \ {0}, NEW l \in Nat
    PROVE  (n \div k >= l) <=> (n >= l * k)
OBVIOUS

(* A limit that is a larger multiple leaves room for one more. *)
LEMMA ProductGrows ==
    ASSUME NEW l \in Nat \ {0}, NEW j \in Nat, NEW k \in Nat, j < k
    PROVE  l * j < l * k
OBVIOUS

-----------------------------------------------------------------------------
(* What every use of the manager preserves. *)
ClientInv == TypeOK /\ NoLostWakeup /\ BatchIntact /\ ReadyMeansQueued

(* The constructor establishes the invariant of the client side. *)
LEMMA ClientInvInit == Init => ClientInv
<1> SUFFICES ASSUME Init PROVE ClientInv
  OBVIOUS
<1>1. TypeOK
  BY DEF Init, TypeOK, ClientStates
<1>2. NoLostWakeup /\ BatchIntact /\ ReadyMeansQueued
  BY DEF Init, NoLostWakeup, BatchIntact, ReadyMeansQueued
<1> QED
  BY <1>1, <1>2 DEF ClientInv

(* A post, whether the alert is queued, dropped or cannot be allocated. *)
LEMMA PostKeepsClientInv ==
    ASSUME ClientInv, NEW t \in Types, Emplace(t) \/ EmplaceOutOfMemory(t)
    PROVE  ClientInv'
<1> USE DEF ClientInv
<1>1. CASE Emplace(t) /\ ~ Full(Queue, m_queue_size_limit, t)
  <2>1. NewAlert(t) \in Alert
    BY <1>1 DEF NewAlert, Alert, Emplace, TypeOK
  <2>2. /\ m_alerts' = [m_alerts EXCEPT ![m_generation] = Append(@, NewAlert(t))]
        /\ client' = Notified(client, Len(Queue) + 1)
        /\ UNCHANGED <<m_dropped, m_generation, m_queue_size_limit, batch>>
        /\ serial' \in 0 .. MaxPosts
    BY <1>1 DEF Emplace, TypeOK
  <2>3. /\ Queue' = Append(Queue, NewAlert(t))
        /\ Queue \in Seq(Alert \cup Report)
        /\ m_alerts'[1 - m_generation] = m_alerts[1 - m_generation]
    BY <2>1, <2>2 DEF Queue, TypeOK
  <2>4. TypeOK'
    BY <2>1, <2>2, <2>3 DEF TypeOK, Queue, Notified, ClientStates
  <2>5. NoLostWakeup'
    BY <2>2, <2>3 DEF NoLostWakeup, Notified
  <2>6. BatchIntact'
    BY <2>2, <2>3 DEF BatchIntact, Notified
  <2>7. Queue' # <<>>
    BY <2>1, <2>3
  <2>8. ReadyMeansQueued'
    BY <2>7 DEF ReadyMeansQueued
  <2> QED
    BY <2>4, <2>5, <2>6, <2>8
<1>2. CASE \/ Emplace(t) /\ Full(Queue, m_queue_size_limit, t)
           \/ EmplaceOutOfMemory(t)
  <2>1. /\ m_dropped' \in SUBSET Types
        /\ UNCHANGED <<m_alerts, m_generation, m_queue_size_limit, client, batch>>
        /\ serial' \in 0 .. MaxPosts
    BY <1>2 DEF Emplace, EmplaceOutOfMemory, TypeOK
  <2> QED
    BY <2>1 DEF TypeOK, NoLostWakeup, BatchIntact, ReadyMeansQueued, Queue
<1> QED
  BY <1>1, <1>2

(* A step of the client, or a change of the limit. *)
LEMMA WaitKeepsClientInv ==
    ASSUME ClientInv,
           \/ WaitForAlert \/ WaitEnds \/ Recheck \/ Handled
           \/ \E l \in Limits : SetLimit(l)
    PROVE  ClientInv'
<1> USE DEF ClientInv
<1>1. CASE WaitForAlert
  BY <1>1 DEF WaitForAlert, TypeOK, ClientStates, NoLostWakeup, BatchIntact,
              ReadyMeansQueued, Queue
<1>2. CASE WaitEnds
  BY <1>2 DEF WaitEnds, TypeOK, ClientStates, NoLostWakeup, BatchIntact,
              ReadyMeansQueued, Queue
<1>3. CASE Recheck
  BY <1>3 DEF Recheck, TypeOK, ClientStates, NoLostWakeup, BatchIntact,
              ReadyMeansQueued, Queue
<1>4. CASE Handled
  BY <1>4 DEF Handled, TypeOK, ClientStates, NoLostWakeup, BatchIntact,
              ReadyMeansQueued, Queue
<1>5. CASE \E l \in Limits : SetLimit(l)
  BY <1>5 DEF SetLimit, TypeOK, NoLostWakeup, BatchIntact, ReadyMeansQueued, Queue
<1> QED
  BY <1>1, <1>2, <1>3, <1>4, <1>5

(* What get_all does to the buffers, for any sequence it hands out. *)
LEMMA HandOutSwaps ==
    ASSUME TypeOK, NEW q \in Seq(Alert \cup Report), HandOut(q)
    PROVE  /\ Queue' = <<>>
           /\ m_alerts'[1 - m_generation'] = q
           /\ m_alerts' \in [{0, 1} -> Seq(Alert \cup Report)]
           /\ m_generation' \in {0, 1}
BY DEF TypeOK, HandOut, Queue

(* What get_all emplaces for lost alerts is a well-formed report. *)
LEMMA ReportIsAnAlert == TypeOK => DropReport \in Report
BY DEF TypeOK, DropReport, Report

(* get_all, with or without the memory for a report, keeps the invariant.  *)
LEMMA HandOutKeepsClientInv ==
    ASSUME ClientInv, GetAll \/ GetAllOutOfMemory
    PROVE  ClientInv'
<1> USE DEF ClientInv
<1>1. PICK q \in Seq(Alert \cup Report) :
         HandOut(q) /\ UNCHANGED <<m_queue_size_limit, serial>>
  <2>1. Queue \in Seq(Alert \cup Report)
    BY DEF TypeOK, Queue
  <2>2. Append(Queue, DropReport) \in Seq(Alert \cup Report)
    BY <2>1, ReportIsAnAlert
  <2> QED
    BY <2>1, <2>2 DEF GetAll, GetAllOutOfMemory
<1>2. /\ Queue' = <<>>
      /\ m_alerts'[1 - m_generation'] = q
      /\ m_alerts' \in [{0, 1} -> Seq(Alert \cup Report)]
      /\ m_generation' \in {0, 1}
  BY <1>1, HandOutSwaps
<1>3. TypeOK'
  BY <1>1, <1>2 DEF TypeOK, HandOut, ClientStates
<1>4. NoLostWakeup' /\ BatchIntact' /\ ReadyMeansQueued'
  BY <1>1, <1>2 DEF HandOut, NoLostWakeup, BatchIntact, ReadyMeansQueued
<1> QED
  BY <1>3, <1>4

(* However the manager is used (limits changed at any time, allocations    *)
(* failing at any time), no wake-up is lost, a pointer that wait_for_alert *)
(* returned is to a queued alert, and the client's batch is never          *)
(* overwritten under it.                                                   *)
THEOREM ClientSafe == SpecAny => []ClientInv
<1>1. ClientInv /\ [NextAny]_vars => ClientInv'
  <2> SUFFICES ASSUME ClientInv, [NextAny]_vars PROVE ClientInv'
    OBVIOUS
  <2>1. CASE UNCHANGED vars
    BY <2>1 DEF vars, ClientInv, TypeOK, NoLostWakeup, BatchIntact,
                ReadyMeansQueued, Queue
  <2>2. CASE \E t \in Types : Emplace(t) \/ EmplaceOutOfMemory(t)
    BY <2>2, PostKeepsClientInv
  <2>3. CASE \/ WaitForAlert \/ WaitEnds \/ Recheck \/ Handled
             \/ \E l \in Limits : SetLimit(l)
    BY <2>3, WaitKeepsClientInv
  <2>4. CASE GetAll \/ GetAllOutOfMemory
    BY <2>4, HandOutKeepsClientInv
  <2> QED
    BY <2>1, <2>2, <2>3, <2>4 DEF NextAny, Next, ClientStep
<1> QED
  BY ClientInvInit, <1>1, PTL DEF SpecAny

(* The invariant that the runs check, for the manager as the application   *)
(* uses it.                                                                *)
THEOREM TypeCorrect == Spec => []TypeOK
<1>1. Spec => SpecAny
  <2>1. [Next]_vars => [NextAny]_vars
    BY DEF NextAny
  <2> QED
    BY <2>1, PTL DEF Spec, SpecAny
<1>2. ClientInv => TypeOK
  BY DEF ClientInv
<1> QED
  BY <1>1, <1>2, ClientSafe, PTL

(* No wake-up is lost. *)
THEOREM WakeupsNotLost == SpecAny => []NoLostWakeup
<1>1. ClientInv => NoLostWakeup
  BY DEF ClientInv
<1> QED
  BY <1>1, ClientSafe, PTL

(* The client's batch stays intact while it reads it. *)
THEOREM BatchesIntact == SpecAny => []BatchIntact
<1>1. ClientInv => BatchIntact
  BY DEF ClientInv
<1> QED
  BY <1>1, ClientSafe, PTL

(* The pointer that wait_for_alert returns is into a queue that holds an   *)
(* alert, whatever the limit is set to and wherever memory runs out.       *)
THEOREM PointersValid == SpecAny => []ReadyMeansQueued
<1>1. ClientInv => ReadyMeansQueued
  BY DEF ClientInv
<1> QED
  BY <1>1, ClientSafe, PTL

-----------------------------------------------------------------------------
(* What the manager preserves as long as its limit is the one it was built *)
(* with and memory does not run out.  Only alerts are in the queue the     *)
(* network thread writes to: a report goes straight to the client.         *)
QueueInv ==
    /\ TypeOK
    /\ m_queue_size_limit = InitialLimit
    /\ Queue \in Seq(Alert)
    /\ RoomForReport

(* The alert just appended found the queue not full for its own type, so   *)
(* the queue is not full for the alert about lost alerts, whose priority   *)
(* is higher.                                                              *)
LEMMA RoomRemains ==
    ASSUME NEW n \in Nat, NEW l \in Nat \ {0}, NEW j \in Nat, NEW k \in Nat, j < k,
           ~ (n \div (1 + j) >= l)
    PROVE  ~ ((n + 1) \div (1 + k) >= l)
<1>1. n < l * (1 + j)
  BY DivBelow
<1>2. l * (1 + j) < l * (1 + k)
  BY ProductGrows
<1>3. l * (1 + j) \in Nat /\ l * (1 + k) \in Nat
  OBVIOUS
<1>4. ~ (n + 1 >= l * (1 + k))
  BY <1>1, <1>2, <1>3
<1> QED
  BY <1>4, DivBelow

(* The constructor establishes the invariant of the queue. *)
LEMMA QueueInvInit == Init => QueueInv
<1> SUFFICES ASSUME Init PROVE QueueInv
  OBVIOUS
<1>1. TypeOK
  BY ClientInvInit DEF ClientInv
<1>2. Queue = <<>> /\ m_queue_size_limit = InitialLimit
  BY DEF Init, Queue
<1>3. RoomForReport
  <2>1. ~ (0 >= InitialLimit * (1 + Priority[DroppedType]))
    OBVIOUS
  <2>2. ~ (0 \div (1 + Priority[DroppedType]) >= InitialLimit)
    BY <2>1, DivBelow
  <2> QED
    BY <1>2, <2>2 DEF RoomForReport, ReportFits, Full
<1> QED
  BY <1>1, <1>2, <1>3 DEF QueueInv

(* The buffer that get_all has just cleared has room for a report. *)
LEMMA EmptyHasRoom ==
    ASSUME Queue' = <<>>, m_queue_size_limit' = InitialLimit
    PROVE  RoomForReport'
<1>1. ~ (0 >= InitialLimit * (1 + Priority[DroppedType]))
  OBVIOUS
<1>2. ~ (0 \div (1 + Priority[DroppedType]) >= InitialLimit)
  BY <1>1, DivBelow
<1> QED
  BY <1>2 DEF RoomForReport, ReportFits, Full

(* Every step of the application keeps the invariant of the queue. *)
LEMMA QueueInvStep == QueueInv /\ TypeOK' /\ [Next]_vars => QueueInv'
<1> SUFFICES ASSUME QueueInv, TypeOK', [Next]_vars PROVE QueueInv'
  OBVIOUS
<1> USE DEF QueueInv
<1>1. ASSUME NEW t \in Types, Emplace(t) PROVE QueueInv'
  <2>1. CASE Full(Queue, m_queue_size_limit, t)
    <3>1. UNCHANGED <<m_alerts, m_generation, m_queue_size_limit>>
      BY <1>1, <2>1 DEF Emplace
    <3> QED
      BY <3>1 DEF Queue, RoomForReport, ReportFits, Full
  <2>2. CASE ~ Full(Queue, m_queue_size_limit, t)
    <3>1. NewAlert(t) \in Alert
      BY <1>1 DEF NewAlert, Alert, Emplace, TypeOK
    <3>2. /\ Queue' = Append(Queue, NewAlert(t))
          /\ m_queue_size_limit' = InitialLimit
      BY <1>1, <2>2 DEF Emplace, Queue, TypeOK
    <3>3. Len(Queue) \in Nat /\ Len(Queue') = Len(Queue) + 1
      BY <3>1, <3>2
    <3>4. /\ Priority[t] \in Nat
          /\ Priority[DroppedType] \in Nat
          /\ Priority[t] < Priority[DroppedType]
      BY DroppedOutranks
    <3>5. ~ ((Len(Queue) + 1) \div (1 + Priority[DroppedType]) >= InitialLimit)
      BY <2>2, <3>3, <3>4, RoomRemains DEF Full
    <3>6. RoomForReport'
      BY <3>2, <3>3, <3>5 DEF RoomForReport, ReportFits, Full
    <3> QED
      BY <3>1, <3>2, <3>6
  <2> QED
    BY <2>1, <2>2
<1>2. CASE GetAll
  <2>1. PICK q \in Seq(Alert \cup Report) :
           HandOut(q) /\ UNCHANGED m_queue_size_limit
    <3>1. Queue \in Seq(Alert \cup Report)
      BY DEF TypeOK, Queue
    <3>2. Append(Queue, DropReport) \in Seq(Alert \cup Report)
      BY <3>1, ReportIsAnAlert
    <3> QED
      BY <1>2, <3>1, <3>2 DEF GetAll
  <2>2. Queue' = <<>> /\ m_queue_size_limit' = InitialLimit
    BY <2>1, HandOutSwaps
  <2> QED
    BY <2>2, EmptyHasRoom
<1>3. CASE WaitForAlert \/ WaitEnds \/ Recheck \/ Handled \/ UNCHANGED vars
  <2>1. UNCHANGED <<m_alerts, m_generation, m_queue_size_limit>>
    BY <1>3 DEF WaitForAlert, WaitEnds, Recheck, Handled, vars
  <2> QED
    BY <2>1 DEF Queue, RoomForReport, ReportFits, Full
<1> QED
  BY <1>1, <1>2, <1>3 DEF Next, ClientStep

(* The invariant behind every guarantee about lost alerts. *)
THEOREM QueueSafe == Spec => []QueueInv
<1> QED
  BY QueueInvInit, QueueInvStep, TypeCorrect, PTL DEF Spec

(* There is always room for the alert about lost alerts. *)
THEOREM ReportAlwaysFits == Spec => []RoomForReport
<1>1. QueueInv => RoomForReport
  BY DEF QueueInv
<1> QED
  BY <1>1, QueueSafe, PTL

(* One step, under the invariant, never clears the bits of dropped types   *)
(* without handing the client a report that names them.                    *)
LEMMA ClearedMeansReported ==
    ASSUME QueueInv, [Next]_vars, m_dropped # {}, m_dropped' = {}
    PROVE  /\ batch' # <<>>
           /\ batch'[Len(batch')].type = DroppedType
           /\ batch'[Len(batch')].lost = m_dropped
<1>1. GetAll
  <2>1. ASSUME NEW t \in Types, Emplace(t) PROVE FALSE
    BY <2>1 DEF Emplace
  <2>2. CASE WaitForAlert \/ WaitEnds \/ Recheck \/ Handled \/ UNCHANGED vars
    BY <2>2 DEF WaitForAlert, WaitEnds, Recheck, Handled, vars
  <2> QED
    BY <2>1, <2>2 DEF Next, ClientStep
<1>2. batch' = Append(Queue, DropReport)
  BY <1>1 DEF GetAll, HandOut, QueueInv, RoomForReport
<1>3. Queue \in Seq(Alert \cup Report) /\ DropReport \in Alert \cup Report
  BY ReportIsAnAlert DEF QueueInv, TypeOK, Queue
<1>4. /\ Len(batch') = Len(Queue) + 1
      /\ batch'[Len(Queue) + 1] = DropReport
      /\ batch' # <<>>
  BY <1>2, <1>3
<1> QED
  BY <1>4 DEF DropReport

(* No drop goes unreported. *)
THEOREM DropsReported == Spec => DropsAreReported
<1>1. QueueInv /\ [Next]_vars =>
        [m_dropped # {} /\ m_dropped' = {} =>
           /\ batch' # <<>>
           /\ batch'[Len(batch')].type = DroppedType
           /\ batch'[Len(batch')].lost = m_dropped]_vars
  BY ClearedMeansReported
<1> QED
  BY <1>1, QueueSafe, PTL DEF Spec, DropsAreReported

-----------------------------------------------------------------------------
(* A post is a post of the abstract queue. *)
LEMMA PostRefines ==
    ASSUME QueueInv, NEW t \in Types, Emplace(t)
    PROVE  AQ!Next
<1> USE DEF QueueInv
<1>1. NewAlert(t) \in Alert /\ NewAlert(t).type = t /\ NewAlert(t).about = serial + 1
  BY DEF NewAlert, Alert, Emplace, TypeOK
<1>2. CASE ~ Full(Queue, m_queue_size_limit, t)
  <2>1. Queue' = Append(Queue, NewAlert(t)) /\ UNCHANGED <<m_dropped, batch>>
    BY <1>2 DEF Emplace, Queue, TypeOK
  <2>2. AQ!Accept(NewAlert(t))
    BY <1>1, <1>2, <2>1 DEF AQ!Accept, AQ!Full, Full
  <2> QED
    BY <1>1, <2>2 DEF Emplace, AQ!Post, AQ!Next, AQ!Alert, Alert
<1>3. CASE Full(Queue, m_queue_size_limit, t)
  <2>1. m_dropped' = m_dropped \cup {t} /\ Queue' = Queue /\ UNCHANGED batch
    BY <1>3 DEF Emplace, Queue
  <2>2. AQ!Lose(NewAlert(t))
    BY <1>1, <1>3, <2>1 DEF AQ!Lose, AQ!Full, Full
  <2> QED
    BY <1>1, <2>2 DEF Emplace, AQ!Post, AQ!Next, AQ!Alert, Alert
<1> QED
  BY <1>2, <1>3

(* get_all is the take of the abstract queue: here the room for the report *)
(* is what makes the two agree.                                            *)
LEMMA GetAllRefines ==
    ASSUME QueueInv, GetAll
    PROVE  AQ!Next
<1> USE DEF QueueInv
<1>1. DropReport \in AQ!Report /\ DropReport.lost = m_dropped
  BY ReportIsAnAlert DEF DropReport, AQ!Report, Report
<1>2. /\ batch' = IF m_dropped = {} THEN Queue ELSE Append(Queue, DropReport)
      /\ m_dropped' = {}
      /\ Queue # <<>>
      /\ UNCHANGED serial
  BY DEF GetAll, HandOut, RoomForReport
<1>3. Queue' = <<>>
  BY DEF GetAll, HandOut, Queue, TypeOK
<1>4. AQ!Take
  BY <1>1, <1>2, <1>3 DEF AQ!Take
<1> QED
  BY <1>4 DEF AQ!Next

(* The double-buffered manager, with its waiting and waking, implements    *)
(* the bounded lossy queue.                                                *)
THEOREM ManagerIsQueue == Spec => ImplementsQueue
<1>1. Init => AQ!Init
  BY DEF Init, AQ!Init, Queue
<1>2. QueueInv /\ [Next]_vars => [AQ!Next]_(AQ!vars)
  <2> SUFFICES ASSUME QueueInv, [Next]_vars PROVE [AQ!Next]_(AQ!vars)
    OBVIOUS
  <2>1. CASE \E t \in Types : Emplace(t)
    BY <2>1, PostRefines
  <2>2. CASE GetAll
    BY <2>2, GetAllRefines
  <2>3. CASE Handled
    BY <2>3 DEF Handled, AQ!Next, AQ!Release, Queue
  <2>4. CASE WaitForAlert \/ WaitEnds \/ Recheck \/ UNCHANGED vars
    BY <2>4 DEF WaitForAlert, WaitEnds, Recheck, vars, AQ!vars, Queue
  <2> QED
    BY <2>1, <2>2, <2>3, <2>4 DEF Next, ClientStep
<1> QED
  BY <1>1, <1>2, QueueSafe, PTL DEF Spec, AQ!Spec, ImplementsQueue
=============================================================================
