---------------------------- MODULE AlertQueue ----------------------------
(***************************************************************************)
(* What alert_manager promises its client: one bounded queue.  An alert is *)
(* either appended or counted as lost; the client takes everything queued  *)
(* at once and in order, and whatever was lost since the last take is      *)
(* reported behind it.  Neither the two buffers, nor the waiting, nor the  *)
(* waking appear here.                                                     *)
(***************************************************************************)
EXTENDS Alerts

CONSTANT Limit     \* settings_pack::alert_queue_size

VARIABLES
    queue,   \* alerts posted and not yet taken
    lost,    \* types lost since the client was last told
    batch,   \* what the client took last
    posted   \* alerts posted so far: alert number n is about n

vars == <<queue, lost, batch, posted>>

TypeOK ==
    /\ queue \in Seq(Alert)
    /\ lost \in SUBSET Types
    /\ batch \in Seq(Alert \cup Report)
    /\ posted \in Nat

Init ==
    /\ queue = <<>>
    /\ lost = {}
    /\ batch = <<>>
    /\ posted = 0

Accept(a) ==
    /\ ~ Full(queue, Limit, a.type)
    /\ queue' = Append(queue, a)
    /\ UNCHANGED <<lost, batch>>

Lose(a) ==
    /\ Full(queue, Limit, a.type)
    /\ lost' = lost \cup {a.type}
    /\ UNCHANGED <<queue, batch>>

Post(a) ==
    /\ a.about = posted + 1
    /\ posted' = posted + 1
    /\ Accept(a) \/ Lose(a)

Take ==
    /\ queue # <<>>
    /\ \E r \in Report :
          /\ r.lost = lost
          /\ batch' = IF lost = {} THEN queue ELSE Append(queue, r)
    /\ queue' = <<>>
    /\ lost' = {}
    /\ UNCHANGED posted

(* The client lets go of what it took. *)
Release ==
    /\ batch' = <<>>
    /\ UNCHANGED <<queue, lost, posted>>

Next ==
    \/ \E a \in Alert : Post(a)
    \/ Take
    \/ Release

Spec == Init /\ [][Next]_vars
=============================================================================
