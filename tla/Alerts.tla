------------------------------ MODULE Alerts ------------------------------
(***************************************************************************)
(* The alerts libtorrent's network thread posts to the client, and the     *)
(* capacity rule of the queue that carries them (alert_manager).  An alert *)
(* is a record: its type, what it is about, and, for the alert that        *)
(* reports a loss, the set of types that were lost.  The rule is stated    *)
(* once here for the queue as promised (AlertQueue), the queue as built    *)
(* (AlertManager) and the client that polls it (PTTorrentStreamer).        *)
(***************************************************************************)
EXTENDS Integers, Sequences

CONSTANTS
    Types,         \* alert types that the network thread posts
    DroppedType,   \* alerts_dropped_alert, posted by the queue itself
    Priority,      \* T::priority of every type
    Subjects       \* what an alert is about (a torrent handle)

ASSUME TypesAssumption ==
    /\ DroppedType \notin Types
    /\ Priority \in [Types \cup {DroppedType} -> Nat]

(* alerts_dropped_alert has a priority above every other alert's. *)
ASSUME DroppedOutranks == \A t \in Types : Priority[t] < Priority[DroppedType]

Alert == [type : Types, about : Subjects, lost : {{}}]

Report == [type : {DroppedType}, about : Subjects, lost : SUBSET Types]

(* Mutant of Full: one limit for all types. *)
FullForAll(q, limit, t) == Len(q) >= limit

(* The queue is full for alerts of type t.  The limit counts in multiples  *)
(* of 1 + priority, by an integer division.                                *)
Full(q, limit, t) == Len(q) \div (1 + Priority[t]) >= limit
=============================================================================
