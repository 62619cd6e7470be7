--------------------------- MODULE AlertManager ---------------------------
(***************************************************************************)
(* libtorrent::alert_manager: the mutex-protected, double-buffered queue   *)
(* between the network thread, which posts alerts, and one client thread,  *)
(* which waits, takes everything and then reads what it took without a     *)
(* lock.  Every action is a critical section of m_mutex, except Handled,   *)
(* which is the client at work on the pointers get_all gave it.            *)
(***************************************************************************)
EXTENDS Alerts

CONSTANTS
    InitialLimit,  \* queue_limit given to the constructor
    Limits,        \* what set_alert_queue_size_limit may be called with
    MaxPosts       \* bound: alerts posted in a behaviour

ASSUME LimitsAssumption ==
    /\ InitialLimit \in Nat \ {0}
    /\ Limits \subseteq Nat
    /\ MaxPosts \in Nat
    /\ Subjects = 0 .. MaxPosts

VARIABLES
    m_alerts,            \* the two heterogeneous queues
    m_generation,        \* the one the network thread writes to
    m_dropped,           \* bitset of the types dropped since the last report
    m_queue_size_limit,
    client,              \* where the client thread is
    batch,               \* the alerts the client's pointers stand for
    serial               \* alerts posted so far: tells them apart

vars == <<m_alerts, m_generation, m_dropped, m_queue_size_limit, client, batch,
          serial>>

(* idle: outside the manager.  waiting: in m_condition.wait_for, lock      *)
(* released.  notified: woken or timed out, lock not yet taken again.      *)
(* ready: wait_for_alert returned a pointer.  handling: reads its batch.   *)
ClientStates == {"idle", "waiting", "notified", "ready", "handling"}

Queue == m_alerts[m_generation]

(* Every member has its type: two buffers, one of them current             *)
(* (m_generation is always 0 or 1), and bits for known alert types.        *)
TypeOK ==
    /\ m_alerts \in [{0, 1} -> Seq(Alert \cup Report)]
    /\ m_generation \in {0, 1}
    /\ m_dropped \in SUBSET Types
    /\ m_queue_size_limit \in Nat
    /\ client \in ClientStates
    /\ batch \in Seq(Alert \cup Report)
    /\ serial \in 0 .. MaxPosts

Init ==
    /\ m_alerts = [g \in {0, 1} |-> <<>>]
    /\ m_generation = 0
    /\ m_dropped = {}
    /\ m_queue_size_limit = InitialLimit
    /\ client = "idle"
    /\ batch = <<>>
    /\ serial = 0

(* Mutant of Notified: wakes the client for the second alert. *)
NotifiedLate(c, n) == IF n = 2 /\ c = "waiting" THEN "notified" ELSE c

(* maybe_notify, after an alert made the queue n long *)
Notified(c, n) == IF n = 1 /\ c = "waiting" THEN "notified" ELSE c

NewAlert(t) == [type |-> t, about |-> serial + 1, lost |-> {}]

(* Mutant of Emplace: an alert that does not fit leaves no trace. *)
EmplaceSilently(t) ==
    /\ serial < MaxPosts
    /\ serial' = serial + 1
    /\ m_alerts' = [m_alerts EXCEPT ![m_generation] =
                      IF Full(Queue, m_queue_size_limit, t) THEN @ ELSE Append(@, NewAlert(t))]
    /\ client' = Notified(client, Len(Queue) + 1)
    /\ UNCHANGED <<m_generation, m_dropped, m_queue_size_limit, batch>>

(* emplace_alert *)
Emplace(t) ==
    /\ serial < MaxPosts
    /\ serial' = serial + 1
    /\ \/ /\ ~ Full(Queue, m_queue_size_limit, t)
          /\ m_alerts' = [m_alerts EXCEPT ![m_generation] = Append(@, NewAlert(t))]
          /\ client' = Notified(client, Len(Queue) + 1)
          /\ UNCHANGED m_dropped
       \/ /\ Full(Queue, m_queue_size_limit, t)
          /\ m_dropped' = m_dropped \cup {t}
          /\ UNCHANGED <<m_alerts, client>>
    /\ UNCHANGED <<m_generation, m_queue_size_limit, batch>>

(* emplace_alert when the allocation throws bad_alloc *)
EmplaceOutOfMemory(t) ==
    /\ serial < MaxPosts
    /\ serial' = serial + 1
    /\ m_dropped' = m_dropped \cup {t}
    /\ UNCHANGED <<m_alerts, m_generation, m_queue_size_limit, client, batch>>

(* wait_for_alert up to the wait: a pointer at once, or the lock released *)
WaitForAlert ==
    /\ client = "idle"
    /\ client' = IF Queue # <<>> THEN "ready" ELSE "waiting"
    /\ UNCHANGED <<m_alerts, m_generation, m_dropped, m_queue_size_limit, batch, serial>>

(* max_wait passed, or the wait was interrupted *)
WaitEnds ==
    /\ client = "waiting"
    /\ client' = "notified"
    /\ UNCHANGED <<m_alerts, m_generation, m_dropped, m_queue_size_limit, batch, serial>>

(* Mutant of Recheck: takes a wake-up for an alert. *)
RecheckNothing ==
    /\ client = "notified"
    /\ client' = "ready"
    /\ UNCHANGED <<m_alerts, m_generation, m_dropped, m_queue_size_limit, batch, serial>>

(* wait_for_alert after the wait: looks once more *)
Recheck ==
    /\ client = "notified"
    /\ client' = IF Queue # <<>> THEN "ready" ELSE "idle"
    /\ UNCHANGED <<m_alerts, m_generation, m_dropped, m_queue_size_limit, batch, serial>>

DropReport == [type |-> DroppedType, about |-> 0, lost |-> m_dropped]

(* Mutant of HandOut: the buffers are not swapped. *)
HandOutUnswapped(q) ==
    /\ m_dropped' = {}
    /\ m_generation' = m_generation
    /\ m_alerts' = [m_alerts EXCEPT ![m_generation] = <<>>]
    /\ batch' = q
    /\ client' = "handling"

(* Mutant of HandOut: the generation is not taken modulo two. *)
HandOutUnmasked(q) ==
    /\ m_dropped' = {}
    /\ m_generation' = m_generation + 1
    /\ m_alerts' = [m_alerts EXCEPT ![m_generation] = q]
    /\ batch' = q
    /\ client' = "handling"

(* get_all on a queue that is not empty, with what it hands out: the alert *)
(* about lost alerts is emplaced like any other, the bits are cleared, the *)
(* buffers swapped and the new one cleared.                                *)
HandOut(q) ==
    /\ m_dropped' = {}
    /\ m_generation' = 1 - m_generation
    /\ m_alerts' = [m_alerts EXCEPT ![m_generation] = q, ![1 - m_generation] = <<>>]
    /\ batch' = q
    /\ client' = "handling"

ReportFits == ~ Full(Queue, m_queue_size_limit, DroppedType)

(* Mutant of GetAll: clears the bits first, and finds none to report. *)
GetAllResetsFirst ==
    /\ client \in {"idle", "ready"}
    /\ Queue # <<>>
    /\ HandOut(Queue)
    /\ UNCHANGED <<m_queue_size_limit, serial>>

(* Mutant of GetAll: takes a single alert for an empty queue. *)
GetAllOffByOne ==
    /\ client \in {"idle", "ready"}
    /\ Len(Queue) > 1
    /\ HandOut(IF m_dropped # {} /\ ReportFits THEN Append(Queue, DropReport) ELSE Queue)
    /\ UNCHANGED <<m_queue_size_limit, serial>>

(* get_all.  It returns at once when the queue is empty. *)
GetAll ==
    /\ client \in {"idle", "ready"}
    /\ Queue # <<>>
    /\ HandOut(IF m_dropped # {} /\ ReportFits THEN Append(Queue, DropReport) ELSE Queue)
    /\ UNCHANGED <<m_queue_size_limit, serial>>

(* get_all when there is no memory for the alert about lost alerts *)
GetAllOutOfMemory ==
    /\ client \in {"idle", "ready"}
    /\ Queue # <<>>
    /\ m_dropped # {}
    /\ HandOut(Queue)
    /\ UNCHANGED <<m_queue_size_limit, serial>>

(* The client is done with its batch. *)
Handled ==
    /\ client = "handling"
    /\ client' = "idle"
    /\ batch' = <<>>
    /\ UNCHANGED <<m_alerts, m_generation, m_dropped, m_queue_size_limit, serial>>

(* set_alert_queue_size_limit *)
SetLimit(l) ==
    /\ m_queue_size_limit' = l
    /\ UNCHANGED <<m_alerts, m_generation, m_dropped, client, batch, serial>>

ClientStep == WaitForAlert \/ WaitEnds \/ Recheck \/ GetAll \/ Handled

(* The manager as the application uses it: the limit is never changed and  *)
(* memory does not run out.                                                *)
Next == ClientStep \/ \E t \in Types : Emplace(t)

(* The manager as any client may use it. *)
NextAny ==
    \/ Next
    \/ \E l \in Limits : SetLimit(l)
    \/ \E t \in Types : EmplaceOutOfMemory(t)
    \/ GetAllOutOfMemory

Spec == Init /\ [][Next]_vars

(* The client polls for ever: the timer behind alertsLoop repeats, and     *)
(* every wait is bounded by max_wait.                                      *)
FairSpec == Spec /\ WF_vars(WaitForAlert) /\ WF_vars(WaitEnds)
                 /\ WF_vars(Recheck) /\ WF_vars(GetAll) /\ WF_vars(Handled)

SpecAny == Init /\ [][NextAny]_vars
-----------------------------------------------------------------------------
(* No wake-up is lost: a client that sleeps in wait_for_alert and has not  *)
(* been notified has nothing to wake up for (maybe_notify notifies only    *)
(* on the step from zero alerts to one).                                   *)
NoLostWakeup == client = "waiting" => Queue = <<>>

(* The pointers get_all handed out stay good until the client asks again:  *)
(* no post ever touches the buffer the client reads without the lock.      *)
BatchIntact == client = "handling" => m_alerts[1 - m_generation] = batch

(* wait_for_alert never returns a pointer into a queue that is then empty. *)
ReadyMeansQueued == client = "ready" => Queue # <<>>

(* There is room for the alert about lost alerts at every moment, however  *)
(* full the queue is for all other types.                                  *)
RoomForReport == ReportFits

(* Whenever get_all clears the bits of the dropped types, the client's     *)
(* batch ends with an alert that names exactly these types.                *)
DropsAreReported ==
    [][m_dropped # {} /\ m_dropped' = {} =>
         /\ batch' # <<>>
         /\ batch'[Len(batch')].type = DroppedType
         /\ batch'[Len(batch')].lost = m_dropped]_vars

InSeq(i, s) == \E k \in DOMAIN s : s[k].about = i

(* Every alert that entered the queue reaches the client. *)
QueuedIsDelivered == \A i \in 1 .. MaxPosts : InSeq(i, Queue) ~> InSeq(i, batch)

AQ == INSTANCE AlertQueue WITH Limit <- InitialLimit, queue <- Queue,
                               lost <- m_dropped, posted <- serial

(* The manager implements the bounded lossy queue: two buffers, swaps and  *)
(* a lossy report notwithstanding, nothing is duplicated, reordered, or    *)
(* lost without a report (emplace_alert, get_all).                         *)
ImplementsQueue == AQ!Spec
=============================================================================
