-------------------------- MODULE TorrentSession --------------------------
(***************************************************************************)
(* The part of libtorrent that PTTorrentStreamer drives: a session with    *)
(* its torrents and its alert queue.  A session is a value; every call the *)
(* streamer makes and every event of the network thread is an operator     *)
(* from a session to a session.  A torrent handle is an index into the     *)
(* sequence of all torrents the session was ever given, so that a handle   *)
(* in an old alert still names the torrent it was made for.                *)
(*                                                                         *)
(* The library is vendored; what is kept of it is what the streamer can    *)
(* observe.  The alert queue is AlertQueue, which AlertManager implements. *)
(***************************************************************************)
EXTENDS Alerts, FiniteSets, SequencesExt

CONSTANTS
    Sources,     \* what can be streamed: torrent files and magnet links
    Magnets,     \* the magnet links among them
    NumPieces,   \* pieces of each source
    Files,       \* files of each source, from index 0, as [first, last, size]
    Limit        \* settings_pack::alert_queue_size

ASSUME GeometryAssumption ==
    /\ Magnets \subseteq Sources
    /\ NumPieces \in [Sources -> Nat \ {0}]
    /\ \A src \in Sources : \A f \in DOMAIN Files[src] :
          /\ Files[src][f].first \in 0 .. Files[src][f].last
          /\ Files[src][f].last \in 0 .. NumPieces[src] - 1
          /\ Files[src][f].size \in Nat
    /\ Limit \in Nat \ {0}

DontDownload == 0
LowPriority == 1
DefaultPriority == 4
TopPriority == 7

Pieces(src) == 0 .. NumPieces[src] - 1
FilePieces(src, f) == Files[src][f].first .. Files[src][f].last

TorrentStates == {"downloading_metadata", "checking", "downloading", "finished"}

(* A torrent just added: auto-managed, paused until the session's manager  *)
(* gets to it, and with unsaved resume data (the default flags).  Pieces   *)
(* known from resume data need no check.                                   *)
NewTorrent(src, known) ==
    [src |-> src, inSession |-> TRUE, meta |-> src \notin Magnets,
     state |-> IF src \in Magnets THEN "downloading_metadata" ELSE "checking",
     have |-> known, prio |-> [p \in Pieces(src) |-> DefaultPriority],
     critical |-> {}, reading |-> 0, paused |-> TRUE, needSave |-> TRUE]

NewSession == [paused |-> FALSE, torrents |-> <<>>, queue |-> <<>>, lost |-> {}]

Post(ses, type, h) ==
    IF Full(ses.queue, Limit, type)
    THEN [ses EXCEPT !.lost = @ \cup {type}]
    ELSE [ses EXCEPT !.queue = Append(@, [type |-> type, about |-> h, lost |-> {}])]

(* How many more alerts of a type the queue takes. *)
Room(ses, type) ==
    LET most == Limit * (1 + Priority[type])
    IN  IF Len(ses.queue) < most THEN most - Len(ses.queue) ELSE 0

(* n read_piece_alerts at once: what the deadline of a piece ends in, as   *)
(* all of them were asked for with alert_when_available.                   *)
PostReads(ses, h, n) ==
    LET room == Room(ses, "read_piece")
        fit  == IF n < room THEN n ELSE room
    IN  [ses EXCEPT
            !.queue = @ \o [i \in 1 .. fit |-> [type |-> "read_piece", about |-> h, lost |-> {}]],
            !.lost = IF fit < n THEN @ \cup {"read_piece"} ELSE @]

(* pop_alerts: what the client gets *)
Popped(ses) ==
    IF ses.lost = {} THEN ses.queue
    ELSE Append(ses.queue, [type |-> DroppedType, about |-> 0, lost |-> ses.lost])

(* get_torrents *)
Torrents(ses) == {h \in DOMAIN ses.torrents : ses.torrents[h].inSession}

IsSeed(t) == t.meta /\ t.have = Pieces(t.src)
IsFinished(t) == t.meta /\ \A p \in Pieces(t.src) \ t.have : t.prio[p] = DontDownload

(* finished, which set_state makes an alert of on the way into the state *)
Finish(ses, h) ==
    IF ses.torrents[h].state = "finished" THEN ses
    ELSE Post([ses EXCEPT !.torrents[h].state = "finished"], "torrent_finished", h)

(* prioritize_pieces: the torrent may become finished by it, or stop being *)
(* finished; then pieces that are skipped now lose their deadlines.        *)
PrioritizePieces(ses, h, prio) ==
    LET t   == ses.torrents[h]
        cut == {p \in t.critical : prio[p] = DontDownload}
        new == [t EXCEPT !.prio = prio, !.critical = @ \ cut,
                         !.needSave = @ \/ \E p \in Pieces(t.src) :
                             (prio[p] = DontDownload) # (t.prio[p] = DontDownload)]
        upd == [ses EXCEPT !.torrents[h] = new]
    IN  IF ~ t.meta \/ IsSeed(t) THEN ses
        ELSE PostReads(IF t.state = "checking" \/ IsFinished(t) = IsFinished(new) THEN upd
                       ELSE IF IsFinished(new) THEN Finish(upd, h)
                       ELSE [upd EXCEPT !.torrents[h].state = "downloading"],
                       h, Cardinality(cut))

(* prioritize_files, for one file at the top and all others skipped; the   *)
(* piece priorities follow at once.                                        *)
PrioritizeFile(ses, h, f) ==
    LET src == ses.torrents[h].src
    IN  PrioritizePieces(ses, h, [p \in Pieces(src) |->
            IF p \in FilePieces(src, f) THEN TopPriority ELSE DontDownload])

(* clear_piece_deadlines: each of them ends in an alert *)
ClearDeadlines(ses, h) ==
    LET t == ses.torrents[h]
    IN  PostReads([ses EXCEPT !.torrents[h] =
            [t EXCEPT !.prio = [p \in DOMAIN @ |-> IF p \in t.critical THEN LowPriority ELSE @[p]],
                      !.critical = {}]],
            h, Cardinality(t.critical))

(* Mutant of SetDeadlines: no check of the range. *)
SetDeadlinesUnchecked(ses, h, want) ==
    LET t   == ses.torrents[h]
        new == ToSet(want) \ t.have
    IN  [ses EXCEPT !.torrents[h] =
            [t EXCEPT !.critical = @ \cup new,
                      !.prio = [p \in DOMAIN @ |-> IF p \in new THEN TopPriority ELSE @[p]]]]

(* set_piece_deadline for each of a sequence of pieces.  One that is out   *)
(* of range, or of a torrent that cannot have it, is answered at once; one *)
(* that is already there is read from the disk.                            *)
SetDeadlines(ses, h, want) ==
    LET t      == ses.torrents[h]
        new    == (ToSet(want) \cap Pieces(t.src)) \ t.have
        amiss  == {i \in DOMAIN want : want[i] \notin Pieces(t.src)}
        there  == {i \in DOMAIN want : want[i] \in t.have}
        timely == [t EXCEPT !.critical = @ \cup new, !.reading = @ + Cardinality(there),
                            !.prio = [p \in DOMAIN @ |->
                                         IF p \in new THEN TopPriority ELSE @[p]]]
    IN  IF ~ t.inSession \/ ~ t.meta THEN PostReads(ses, h, Len(want))
        ELSE PostReads([ses EXCEPT !.torrents[h] = timely], h, Cardinality(amiss))

(* The disk threads have read a piece, or could not.                       *)
ReadComplete(ses, h) ==
    Post([ses EXCEPT !.torrents[h].reading = @ - 1], "read_piece", h)

(* we_have: a piece passed its hash check, downloaded or found on disk.    *)
(* One that had a deadline is read back for the client.                    *)
WeHave(ses, h, p) ==
    LET t   == ses.torrents[h]
        new == [t EXCEPT !.have = @ \cup {p}, !.critical = @ \ {p}, !.needSave = TRUE,
                         !.reading = IF p \in t.critical THEN @ + 1 ELSE @,
                         !.prio[p] = IF p \in t.critical THEN LowPriority ELSE @]
        upd == Post([ses EXCEPT !.torrents[h] = new], "piece_finished", h)
    IN  IF t.state = "downloading" /\ IsFinished(new) THEN Finish(upd, h) ELSE upd

(* files_checked.  If the pieces were hashed, and not taken from resume    *)
(* data, the torrent is left paused to the session's manager.              *)
FilesChecked(ses, h, hashed) ==
    LET upd == [ses EXCEPT !.torrents[h].paused = @ \/ hashed]
    IN  IF IsFinished(upd.torrents[h]) THEN Finish(upd, h)
        ELSE [upd EXCEPT !.torrents[h].state = "downloading"]

ReceiveMetadata(ses, h) ==
    Post([ses EXCEPT !.torrents[h] = [@ EXCEPT !.meta = TRUE, !.state = "checking"]],
         "metadata_received", h)

(* torrent_handle::pause *)
Pause(ses, h) ==
    LET t == ses.torrents[h]
    IN  [ses EXCEPT !.torrents[h] =
            [t EXCEPT !.needSave = @ \/ ~ t.paused, !.paused = TRUE]]

(* save_resume_data; without metadata it fails, with an alert nobody reads *)
SaveResumeData(ses, h) ==
    IF ses.torrents[h].meta
    THEN Post([ses EXCEPT !.torrents[h].needSave = FALSE], "save_resume_data", h)
    ELSE Post(ses, "ignored", h)

(* remove_torrent and abort: the torrent lives on for those who hold it. *)
Removed(t) == [t EXCEPT !.inSession = FALSE, !.paused = FALSE]

RemoveTorrent(ses, h) == [ses EXCEPT !.torrents[h] = Removed(@)]

RemoveAll(ses) ==
    [ses EXCEPT !.torrents = [h \in DOMAIN @ |-> IF h \in Torrents(ses) THEN Removed(@[h]) ELSE @[h]]]

(* add_torrent: a source that is in the session already keeps its torrent, *)
(* as it is.                                                               *)
Known(ses, src) == {h \in Torrents(ses) : ses.torrents[h].src = src}

AddTorrent(ses, src, known) ==
    IF Known(ses, src) # {} THEN ses
    ELSE [ses EXCEPT !.torrents = Append(@, NewTorrent(src, known))]

(* The torrent is neither paused itself nor by the session. *)
Running(ses, h) == /\ h \in Torrents(ses)
                   /\ ~ ses.paused
                   /\ ~ ses.torrents[h].paused
=============================================================================
