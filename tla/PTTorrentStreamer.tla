------------------------- MODULE PTTorrentStreamer -------------------------
(***************************************************************************)
(* PTTorrentStreamer: one object per download, each with a libtorrent      *)
(* session of its own, all of them on the main thread.  The user starts    *)
(* and cancels; a repeating timer runs alertsLoop, which takes the alerts  *)
(* of the session and handles them one after another; callbacks run later, *)
(* from the main queue.  libtorrent's network thread works all the time,   *)
(* also between two alerts of one batch.                                   *)
(*                                                                         *)
(* A handler of the code is an operator from a context to a context: the   *)
(* fields of the object, its session, and what all objects share.  What    *)
(* the environment decides in it (free space, the user's pick, memory that *)
(* is read but was never written) is a parameter.                          *)
(***************************************************************************)
EXTENDS TorrentSession

CONSTANTS
    Streamers,
    None,             \* nil
    PieceLength,
    BufferPercent,    \* share of the file to buffer (0.03 in the code)
    TailPieces,       \* pieces wanted from the end of the file (10 in the code)
    FileOutcomes,     \* of reading the torrent file; of a corrupt one, fields are
                      \* read that are not there, which may end the program (fatal)
    DirOutcomes,      \* of creating the download directory
    SpaceOutcomes,    \* is there enough free space
    ResumeOutcomes,   \* what the resume file holds after it was written
    ExpiryOutcomes,   \* has the handle of a removed torrent expired
    HeapOutcomes,     \* of a write before the beginning of piece_priorities
    Deletes,          \* the deleteData arguments cancel is called with
    Selecting,        \* does the user start with or without a file selection
    MaxStarts,        \* bound: starts of one streamer
    MaxCancels, MaxForwards, MaxIgnored   \* bounds: of all streamers

ASSUME StreamerAssumption ==
    /\ Types = {"metadata_received", "piece_finished", "torrent_finished",
                "save_resume_data", "read_piece", "ignored"}
    /\ PieceLength \in Nat \ {0}
    /\ BufferPercent \in Nat
    /\ TailPieces \in Nat
    /\ FileOutcomes \subseteq {"ok", "missing", "corrupt", "fatal"}
    /\ DirOutcomes \subseteq {"ok", "nobase", "nodir"}
    /\ ResumeOutcomes \subseteq {"good", "garbage"}
    /\ HeapOutcomes \subseteq {"unharmed", "fatal"}
    /\ SpaceOutcomes \cup ExpiryOutcomes \cup Deletes \cup Selecting \subseteq BOOLEAN
    /\ MaxStarts \in Nat /\ MaxCancels \in Nat /\ MaxForwards \in Nat /\ MaxIgnored \in Nat
    /\ 0 .. MaxStarts \subseteq Subjects

VARIABLES
    streamer,    \* the fields of each object
    session,     \* its _session
    batch,       \* alerts that alertsLoop took and has still to handle
    globals,     \* MIN_PIECES, selectedFileIndex, shouldUserSelectFiles
    mainQueue,   \* blocks dispatched to the main queue that report a download ready
    disk,        \* the download directory of each source
    fault,       \* why the application crashed, or "none"
    run,         \* what the callbacks of the current start have been told
    budget       \* how often the environment may still act

vars == <<streamer, session, batch, globals, mainQueue, disk, fault, run, budget>>

ZeroStatus == [kind |-> "zero", got |-> 0, need |-> 0]

NewStreamer ==
    [blocks |-> FALSE, selectionBlock |-> FALSE, alertsLoopActive |-> FALSE,
     timers |-> 0, timerLive |-> FALSE, savePath |-> None, required |-> <<>>,
     firstPiece |-> -1, streaming |-> FALSE, fileName |-> None, status |-> ZeroStatus]

NewGlobals == [MIN_PIECES |-> 0, selectedFileIndex |-> -1, shouldUserSelectFiles |-> FALSE]

NewRun == [ready |-> 0, failed |-> 0, deleted |-> FALSE, returned |-> FALSE]

EmptyDir == [pieces |-> {}, resume |-> "none"]

Init ==
    /\ streamer = [s \in Streamers |-> NewStreamer]
    /\ session = [s \in Streamers |-> NewSession]
    /\ batch = [s \in Streamers |-> <<>>]
    /\ globals = NewGlobals
    /\ mainQueue = <<>>
    /\ disk = [src \in Sources |-> EmptyDir]
    /\ fault = "none"
    /\ run = [s \in Streamers |-> NewRun]
    /\ budget = [starts |-> [s \in Streamers |-> MaxStarts], cancels |-> MaxCancels,
                 forwards |-> MaxForwards, ignored |-> MaxIgnored]
-----------------------------------------------------------------------------
(* Contexts: everything a handler of streamer s may read and write. *)

Context(s) ==
    [id |-> s, st |-> streamer[s], ses |-> session[s], glob |-> globals,
     main |-> mainQueue, disk |-> disk, fault |-> "none", run |-> run[s]]

Commit(c) ==
    /\ streamer' = [streamer EXCEPT ![c.id] = c.st]
    /\ session' = [session EXCEPT ![c.id] = c.ses]
    /\ globals' = c.glob
    /\ mainQueue' = c.main
    /\ disk' = c.disk
    /\ fault' = c.fault
    /\ run' = [run EXCEPT ![c.id] = c.run]

Crash(c, why) == [c EXCEPT !.fault = why]

Dispatch(c, item) == [c EXCEPT !.main = Append(@, item)]

(* The path handed to readyToPlay: the directory of the streamer, and in   *)
(* it the file that was chosen in the torrent that has finished.           *)
ReadyBlock(c) ==
    [id |-> c.id,
     path |-> [dir |-> c.st.savePath, src |-> c.st.fileName.src, file |-> c.st.fileName.file]]

(* [preventSleepTimer invalidate]: the last timer made, not the ones that  *)
(* an earlier start left in the run loop.                                  *)
InvalidateTimer(st) ==
    [st EXCEPT !.timers = IF st.timerLive THEN @ - 1 ELSE @, !.timerLive = FALSE]
-----------------------------------------------------------------------------
(* cancelStreamingAndDeleteData *)

(* Mutant of StopTorrent: the session is not paused. *)
StopTorrentOnly(ses, h, delete) ==
    LET paused == Pause(ses, h)
    IN  IF ~ delete /\ paused.torrents[h].needSave THEN SaveResumeData(paused, h) ELSE paused

StopTorrent(ses, h, delete) ==
    LET paused == Pause(ses, h)
        saved  == IF ~ delete /\ paused.torrents[h].needSave
                  THEN SaveResumeData(paused, h) ELSE paused
    IN  [saved EXCEPT !.paused = TRUE]

(* for every torrent of the session *)
StopAll(ses, delete) ==
    LET stopped[n \in 0 .. Len(ses.torrents)] ==
            IF n = 0 THEN ses
            ELSE IF n \in Torrents(ses) THEN StopTorrent(stopped[n - 1], n, delete)
            ELSE stopped[n - 1]
    IN  stopped[Len(ses.torrents)]

ResetFields(st) ==
    [st EXCEPT !.required = <<>>, !.blocks = FALSE, !.selectionBlock = FALSE,
               !.fileName = None, !.firstPiece = -1, !.streaming = FALSE,
               !.status = ZeroStatus]

(* Mutant of Cancelled: a delete keeps the session and its loop, as the    *)
(* lines commented out at the end of resumeDataReadyAlertWithData would.   *)
CancelledInPlace(c, delete) ==
    LET stopped == StopAll(c.ses, delete)
    IN  [c EXCEPT !.st = ResetFields(c.st), !.glob.selectedFileIndex = -1,
                  !.ses = IF delete THEN RemoveAll(stopped) ELSE stopped,
                  !.run.deleted = @ \/ delete]

Cancelled(c, delete) ==
    LET stopped == StopAll(c.ses, delete)
        reset   == ResetFields(c.st)
    IN  IF ~ delete
        THEN [c EXCEPT !.st = reset, !.ses = stopped, !.glob.selectedFileIndex = -1]
        ELSE [c EXCEPT
                !.st = [InvalidateTimer(reset) EXCEPT !.alertsLoopActive = FALSE,
                                                      !.savePath = None],
                !.ses = NewSession,
                !.disk = [src \in Sources |->
                             IF src = c.st.savePath THEN EmptyDir ELSE @[src]],
                !.glob.selectedFileIndex = -1,
                !.run.deleted = TRUE]

(* The failure block, and the cancel that follows it everywhere. *)
Failed(c) ==
    Cancelled([c EXCEPT !.run.failed = IF c.st.blocks THEN @ + 1 ELSE @], FALSE)
-----------------------------------------------------------------------------
(* indexOfLargestFileInTorrentWithTorrentInfo *)

IndexOfLargestFile(src) ==
    CHOOSE f \in DOMAIN Files[src] :
        \A g \in DOMAIN Files[src] :
            \/ Files[src][g].size < Files[src][f].size
            \/ Files[src][g].size = Files[src][f].size /\ f <= g

(* The context with the choice made, in its field file. *)
ChooseFile(c, src, pick) ==
    LET asked == [c EXCEPT !.glob.shouldUserSelectFiles = FALSE]
        with(d, f) == [file |-> f, ctx |-> d]
    IN  IF c.glob.shouldUserSelectFiles
        THEN IF c.glob.selectedFileIndex # -1 THEN with(asked, c.glob.selectedFileIndex)
             ELSE IF ~ c.st.selectionBlock THEN with(Crash(asked, "nil_block"), pick)
             ELSE with([asked EXCEPT !.glob.selectedFileIndex = pick], pick)
        ELSE IF Cardinality(DOMAIN Files[src]) > 1
        THEN with([c EXCEPT !.glob.selectedFileIndex = IndexOfLargestFile(src)],
                  IndexOfLargestFile(src))
        ELSE with(c, 0)

MinPieces(src, f) == (Files[src][f].size * BufferPercent) \div (100 * PieceLength)

(* from, from + 1, ... below upto *)
Interval(from, upto) == [i \in 1 .. (IF upto > from THEN upto - from ELSE 0) |-> from + i - 1]

(* min pieces of the source from next on, as far as there are so many *)
Window(next, min, src) ==
    Interval(next, IF next + min < NumPieces[src] THEN next + min ELSE NumPieces[src])

(* Mutant of MetadataReceived: the priorities are lowered after the        *)
(* deadlines are set.                                                      *)
MetadataFillsLast(c, h, env) ==
    LET src    == c.ses.torrents[h].src
        chosen == ChooseFile(c, src, env.pick)
        d      == chosen.ctx
        f      == chosen.file
        min    == MinPieces(src, f)
        first  == Files[src][f].first
        tail   == [i \in 1 .. TailPieces |-> Files[src][f].last - (i - 1)]
        wanted == c.st.required \o Interval(first, first + min) \o tail
        ses1   == ClearDeadlines(PrioritizeFile(d.ses, h, f), h)
        ses2   == SetDeadlines(ses1, h, wanted)
    IN  IF c.st.savePath = None THEN Crash(c, "nil_path")
        ELSE IF ~ env.space THEN Failed(c)
        ELSE IF d.fault # "none" THEN d
        ELSE [d EXCEPT !.glob.MIN_PIECES = min, !.st.required = wanted,
                       !.ses = PrioritizePieces(ses2, h, [p \in Pieces(src) |-> LowPriority])]

(* metadataReceivedAlert.  env is what the environment decides. *)
MetadataReceived(c, h, env) ==
    LET src    == c.ses.torrents[h].src
        chosen == ChooseFile(c, src, env.pick)
        d      == chosen.ctx
        f      == chosen.file
        min    == MinPieces(src, f)
        first  == Files[src][f].first
        tail   == [i \in 1 .. TailPieces |-> Files[src][f].last - (i - 1)]
        wanted == c.st.required \o Interval(first, first + min) \o tail
        ses1   == ClearDeadlines(PrioritizeFile(d.ses, h, f), h)
        ses2   == PrioritizePieces(ses1, h, [p \in Pieces(src) |-> LowPriority])
    IN  IF c.st.savePath = None THEN Crash(c, "nil_path")
        ELSE IF ~ env.space THEN Failed(c)
        ELSE IF d.fault # "none" THEN d
        ELSE IF f \notin DOMAIN Files[src] THEN Crash(d, "file_index")
        ELSE [d EXCEPT !.glob.MIN_PIECES = min, !.st.required = wanted,
                       !.ses = SetDeadlines(ses2, h, wanted)]

(* Mutant of PrioritizeNextPieces: the old deadlines stay. *)
PrioritizeUncleared(c, h, env) ==
    LET src  == c.ses.torrents[h].src
        next == IF c.st.firstPiece # -1 THEN c.st.firstPiece ELSE env.stale + 1
        window == Window(next, c.glob.MIN_PIECES, src)
        ses1 == SetDeadlines(c.ses, h, window)
    IN  [c EXCEPT !.st.firstPiece = -1, !.st.required = window,
                  !.ses = PrioritizePieces(ses1, h, [p \in Pieces(src) |->
                      IF p \in ToSet(window) THEN TopPriority ELSE LowPriority])]

(* prioritizeNextPieces.  required_pieces[MIN_PIECES - 1] lies outside the *)
(* vector when the last window was cut short: stale is what is read then.  *)
(* It may be negative, from the tail of a short file.  The indices of the  *)
(* window are compared with the number of pieces only, and                 *)
(* piece_priorities is then written before its beginning, with the outcome *)
(* heap.                                                                   *)
PrioritizeNextPieces(c, h, env) ==
    LET src  == c.ses.torrents[h].src
        min  == c.glob.MIN_PIECES
        next == IF c.st.firstPiece # -1 THEN c.st.firstPiece
                ELSE IF c.st.required = <<>> THEN 0
                ELSE IF min \in DOMAIN c.st.required THEN c.st.required[min] + 1
                ELSE env.stale + 1
        window == Window(next, min, src)
        ses1 == SetDeadlines(ClearDeadlines(c.ses, h), h, window)
    IN  IF env.heap = "fatal" /\ (\E i \in DOMAIN window : window[i] < 0)
        THEN Crash(c, "piece_priorities")
        ELSE [c EXCEPT !.st.firstPiece = -1, !.st.required = window,
                       !.ses = PrioritizePieces(ses1, h, [p \in Pieces(src) |->
                           IF p \in ToSet(window) THEN TopPriority ELSE LowPriority])]

(* The file to play: the global index, whoever set it, or a new choice. *)
SelectedFile(c, src, pick) ==
    IF c.glob.selectedFileIndex # -1 THEN [file |-> c.glob.selectedFileIndex, ctx |-> c]
    ELSE ChooseFile(c, src, pick)

(* Mutant of ProcessTorrent: no guard against a second call. *)
ProcessTorrentAgain(c, h, env) ==
    LET src    == c.ses.torrents[h].src
        chosen == SelectedFile(c, src, env.pick)
        named  == [chosen.ctx EXCEPT !.st.streaming = TRUE,
                                     !.st.fileName = [src |-> src, file |-> chosen.file]]
    IN  IF chosen.ctx.fault # "none" THEN chosen.ctx
        ELSE IF chosen.file \notin DOMAIN Files[src] THEN Crash(chosen.ctx, "file_index")
        ELSE IF ~ c.st.blocks THEN named
        ELSE Dispatch([named EXCEPT
                 !.st = [InvalidateTimer(named.st) EXCEPT !.alertsLoopActive = FALSE]],
                 ReadyBlock(named))

(* processTorrent and startWebServerAndPlay *)
ProcessTorrent(c, h, env) ==
    LET src    == c.ses.torrents[h].src
        chosen == SelectedFile(c, src, env.pick)
        named  == [chosen.ctx EXCEPT !.st.streaming = TRUE,
                                     !.st.fileName = [src |-> src, file |-> chosen.file]]
    IN  IF c.st.streaming THEN c
        ELSE IF chosen.ctx.fault # "none" THEN chosen.ctx
        ELSE IF chosen.file \notin DOMAIN Files[src] THEN Crash(chosen.ctx, "file_index")
        ELSE IF ~ c.st.blocks THEN named
        ELSE Dispatch([named EXCEPT
                 !.st = [InvalidateTimer(named.st) EXCEPT !.alertsLoopActive = FALSE]],
                 ReadyBlock(named))

(* Mutant of PieceFinished: with the call of processTorrent that is        *)
(* commented out in the code.                                              *)
PieceFinishedPlays(c, h, env) ==
    LET t == c.ses.torrents[h]
    IN  IF ToSet(c.st.required) \subseteq t.have
        THEN ProcessTorrent(PrioritizeNextPieces(c, h, env), h, env) ELSE c

(* pieceFinishedAlert.  The block it dispatches shows the status, and      *)
(* changes nothing.                                                        *)
PieceFinished(c, h, env) ==
    LET t    == c.ses.torrents[h]
        got  == {i \in DOMAIN c.st.required : c.st.required[i] \in t.have}
        all  == c.ses.paused \/ got = DOMAIN c.st.required
        told == [c EXCEPT !.st.status =
                    [kind |-> "buffering", got |-> IF c.ses.paused THEN 0 ELSE Cardinality(got),
                     need |-> Len(c.st.required)]]
        again == IF c.glob.MIN_PIECES = 0 THEN MetadataReceived(told, h, env) ELSE told
    IN  IF ~ all THEN told
        ELSE IF again.fault # "none" THEN again
        ELSE PrioritizeNextPieces(again, h, env)

(* torrentFinishedAlert *)
TorrentFinished(c, h, env) ==
    LET processed == ProcessTorrent(c, h, env)
        told == [processed EXCEPT !.st.status = [kind |-> "finished", got |-> 1, need |-> 1]]
    IN  IF processed.fault # "none" THEN processed
        ELSE [told EXCEPT !.ses = RemoveTorrent(@, h)]

(* resumeDataReadyAlertWithData *)
ResumeDataReady(c, h, env) ==
    [c EXCEPT !.st.alertsLoopActive = FALSE, !.st.savePath = None,
              !.ses = RemoveAll(@),
              !.disk[c.ses.torrents[h].src].resume = env.resume]
-----------------------------------------------------------------------------
(* startStreamingFromFile *)

(* Mutant of Begun: the loop is left as it is. *)
BegunSilent(c, select) ==
    [c EXCEPT !.st.blocks = TRUE, !.st.timers = @ + 1, !.st.timerLive = TRUE,
              !.st.selectionBlock = @ \/ select,
              !.glob.shouldUserSelectFiles = @ \/ select,
              !.run = NewRun]

(* The callbacks, the loop and a new timer; the old one stays in the run   *)
(* loop.                                                                   *)
Begun(c, select) ==
    [c EXCEPT !.st.blocks = TRUE, !.st.alertsLoopActive = TRUE,
              !.st.timers = @ + 1, !.st.timerLive = TRUE,
              !.st.selectionBlock = @ \/ select,
              !.glob.shouldUserSelectFiles = @ \/ select,
              !.run = NewRun]

(* MIN_PIECES from the torrent file, before anything is added.  A file     *)
(* that could not be parsed is measured all the same, and fails then: the  *)
(* quotient of its fields is not a number, which converts to 0.            *)
Measured(c, src, env) ==
    LET chosen == ChooseFile(c, src, env.pick)
    IN  IF chosen.ctx.fault # "none" THEN chosen.ctx
        ELSE IF env.file = "corrupt" THEN Failed([chosen.ctx EXCEPT !.glob.MIN_PIECES = 0])
        ELSE IF chosen.file \notin DOMAIN Files[src] THEN Crash(chosen.ctx, "file_index")
        ELSE [chosen.ctx EXCEPT !.glob.MIN_PIECES = MinPieces(src, chosen.file)]

(* From the download directory on. *)
Added(c, src, env) ==
    LET here  == [c EXCEPT !.st.savePath = src]
        known == IF src \in Magnets /\ c.disk[src].resume = "good"
                 THEN c.disk[src].pieces ELSE {}
        added == [here EXCEPT !.ses = AddTorrent(@, src, known)]
        h     == CHOOSE k \in Known(added.ses, src) : TRUE
        ready == IF src \in Magnets THEN added ELSE MetadataReceived(added, h, env)
    IN  IF env.dir = "nobase" THEN Failed(c)
        ELSE IF env.dir = "nodir" /\ c.disk[src] = EmptyDir THEN Failed(here)
        ELSE IF src \in Magnets /\ c.disk[src].resume = "garbage"
             THEN Crash(here, "add_torrent")
        ELSE IF ready.fault # "none" THEN ready
        ELSE [ready EXCEPT !.ses.paused = FALSE]

Started(c, src, select, env) ==
    LET begun    == Begun(c, select)
        measured == Measured(begun, src, env)
    IN  IF src \in Magnets THEN Added(begun, src, env)
        ELSE CASE env.file = "missing" -> Failed(begun)
               [] env.file = "corrupt" -> measured
               [] env.file = "fatal" -> Crash(begun, "torrent_info")
               [] env.file = "ok" -> IF measured.fault # "none" THEN measured
                                     ELSE Added(measured, src, env)
-----------------------------------------------------------------------------
(* Steps of the main thread.  It handles one batch at a time and does      *)
(* nothing else meanwhile.                                                 *)

Alive == fault = "none"
MainIdle == Alive /\ \A s \in Streamers : batch[s] = <<>>

Spend(what) ==
    /\ budget[what] > 0
    /\ budget' = [budget EXCEPT ![what] = @ - 1]

FileIndices == UNION {DOMAIN Files[src] : src \in Sources}

(* The user starts a download (startStreamingFromFile, or, with a file     *)
(* selection, startStreamingFromMultiTorrentFile).                         *)
Start(s, src) ==
    /\ MainIdle
    /\ budget.starts[s] > 0
    /\ budget' = [budget EXCEPT !.starts[s] = @ - 1]
    /\ \E c \in {Started(Context(s), src, select, env) :
                    select \in Selecting,
                    env \in [file : FileOutcomes, dir : DirOutcomes,
                             space : SpaceOutcomes, pick : DOMAIN Files[src]]} :
          Commit(c)
    /\ UNCHANGED batch

Cancel(s) ==
    /\ MainIdle
    /\ Spend("cancels")
    /\ \E c \in {Cancelled(Context(s), delete) : delete \in Deletes} : Commit(c)
    /\ UNCHANGED batch

(* fastForwardTorrentForRange: the last piece of the requested part. *)
FinalPiece(c, src, start) ==
    LET final == start + c.glob.MIN_PIECES - 1
    IN  IF final > NumPieces[src] THEN NumPieces[src] - 1 ELSE final

(* One torrent of the session, for a range that begins offset pieces into  *)
(* the file.                                                               *)
ForwardedOne(c, h, offset, pick) ==
    LET t      == c.ses.torrents[h]
        chosen == SelectedFile(c, t.src, pick)
        d      == chosen.ctx
        file   == Files[t.src][chosen.file]
        start  == IF file.first + offset > file.last THEN file.last ELSE file.first + offset
        final  == FinalPiece(d, t.src, start)
        had    == start <= final /\ start .. final \subseteq t.have
        moved  == [d EXCEPT !.st.firstPiece = start, !.run.returned = had]
    IN  IF ~ t.meta THEN Crash(c, "null_info")
        ELSE IF d.fault # "none" THEN d
        ELSE IF chosen.file \notin DOMAIN Files[t.src] THEN Crash(d, "file_index")
        ELSE IF had THEN moved
        ELSE PrioritizeNextPieces([moved EXCEPT !.st.required = <<>>], h,
                                  [stale |-> 0, heap |-> "unharmed"])

(* The torrents of the session one after another, until one returns. *)
Forwarded(c, offset, pick) ==
    LET forwarded[n \in 0 .. Len(c.ses.torrents)] ==
            IF n = 0 THEN [c EXCEPT !.run.returned = FALSE]
            ELSE IF \/ n \notin Torrents(c.ses)
                    \/ forwarded[n - 1].run.returned \/ forwarded[n - 1].fault # "none"
            THEN forwarded[n - 1]
            ELSE ForwardedOne(forwarded[n - 1], n, offset, pick)
    IN  forwarded[Len(c.ses.torrents)]

FastForward(s) ==
    /\ MainIdle
    /\ Spend("forwards")
    /\ \E c \in {Forwarded(Context(s), offset, pick) :
                    offset \in UNION {Pieces(src) : src \in Sources}, pick \in FileIndices} :
          Commit(c)
    /\ UNCHANGED batch

(* alertsLoop takes the alerts, if any, when a timer fires. *)
AlertsLoop(s) ==
    /\ MainIdle
    /\ streamer[s].timers > 0
    /\ streamer[s].alertsLoopActive
    /\ session[s].queue # <<>>
    /\ batch' = [batch EXCEPT ![s] = Popped(session[s])]
    /\ session' = [session EXCEPT ![s].queue = <<>>, ![s].lost = {}]
    /\ UNCHANGED <<streamer, globals, mainQueue, disk, fault, run, budget>>

(* The next alert of the batch is one of type, and is taken off. *)
Dequeue(s, type) ==
    /\ Alive
    /\ batch[s] # <<>>
    /\ Head(batch[s]).type = type
    /\ batch' = [batch EXCEPT ![s] = Tail(@)]
    /\ UNCHANGED budget

Subject(s) == Head(batch[s]).about

(* What can come of a handler whose contexts at the end are ends.  Its     *)
(* first use of the handle throws if the torrent is gone for good.         *)
Outcomes(s, ends) ==
    IF Subject(s) \in Torrents(session[s]) THEN ends
    ELSE UNION {IF expired THEN {Crash(Context(s), "expired_handle")} ELSE ends :
                   expired \in ExpiryOutcomes}

(* What may lie behind the end of required_pieces: pieces of an older      *)
(* window or of an older tail.                                             *)
StaleValues(src) ==
    Pieces(src) \cup
    UNION {Files[src][f].last - TailPieces + 1 .. Files[src][f].last : f \in DOMAIN Files[src]}

SourceOf(s) == session[s].torrents[Subject(s)].src

HandleMetadata(s) ==
    /\ Dequeue(s, "metadata_received")
    /\ \E c \in Outcomes(s, {MetadataReceived(Context(s), Subject(s), env) :
                    env \in [space : SpaceOutcomes, pick : DOMAIN Files[SourceOf(s)]]}) :
          Commit(c)

HandlePiece(s) ==
    /\ Dequeue(s, "piece_finished")
    /\ \E c \in Outcomes(s, {PieceFinished(Context(s), Subject(s), env) :
                    env \in [space : SpaceOutcomes, pick : DOMAIN Files[SourceOf(s)],
                             stale : StaleValues(SourceOf(s)), heap : HeapOutcomes]}) :
          Commit(c)

HandleFinished(s) ==
    /\ Dequeue(s, "torrent_finished")
    /\ \E c \in Outcomes(s, {TorrentFinished(Context(s), Subject(s), env) :
                    env \in [pick : DOMAIN Files[SourceOf(s)]]}) :
          Commit(c)

HandleResumeData(s) ==
    /\ Dequeue(s, "save_resume_data")
    /\ \E c \in Outcomes(s, {ResumeDataReady(Context(s), Subject(s), env) :
                    env \in [resume : ResumeOutcomes]}) :
          Commit(c)

HandleOther(s) ==
    /\ \E type \in {"read_piece", "ignored", DroppedType} : Dequeue(s, type)
    /\ UNCHANGED <<streamer, session, globals, mainQueue, disk, fault, run>>

HandleAlert(s) ==
    \/ HandleMetadata(s)
    \/ HandlePiece(s)
    \/ HandleFinished(s)
    \/ HandleResumeData(s)
    \/ HandleOther(s)

(* The main queue runs its oldest block: the callback the object has now.  *)
RunBlock ==
    /\ MainIdle
    /\ mainQueue # <<>>
    /\ LET b == Head(mainQueue)
       IN  run' = IF streamer[b.id].blocks
                  THEN [run EXCEPT ![b.id].ready = @ + 1] ELSE run
    /\ mainQueue' = Tail(mainQueue)
    /\ UNCHANGED <<streamer, session, batch, globals, disk, fault, budget>>

(* The user opens the application again after a crash. *)
Relaunch ==
    /\ ~ Alive
    /\ streamer' = [s \in Streamers |-> NewStreamer]
    /\ session' = [s \in Streamers |-> NewSession]
    /\ batch' = [s \in Streamers |-> <<>>]
    /\ globals' = NewGlobals
    /\ mainQueue' = <<>>
    /\ fault' = "none"
    /\ run' = [s \in Streamers |-> NewRun]
    /\ UNCHANGED <<disk, budget>>
-----------------------------------------------------------------------------
(* Steps of libtorrent's threads. *)

NetworkStep(s, ses) ==
    /\ session' = [session EXCEPT ![s] = ses]
    /\ UNCHANGED <<streamer, batch, globals, mainQueue, fault, run>>

(* A piece arrives from a peer and is written. *)
DownloadPiece(s, h) ==
    /\ Alive
    /\ Running(session[s], h)
    /\ LET t == session[s].torrents[h]
       IN  /\ t.state = "downloading"
           /\ \E p \in Pieces(t.src) \ t.have :
                 /\ t.prio[p] # DontDownload
                 /\ NetworkStep(s, WeHave(session[s], h, p))
                 /\ disk' = [disk EXCEPT ![t.src].pieces = @ \cup {p}]
    /\ UNCHANGED budget

(* The check of the files finds a piece on disk, or comes to its end. *)
CheckFiles(s, h) ==
    /\ Alive
    /\ Running(session[s], h)
    /\ LET t == session[s].torrents[h]
       IN  /\ t.state = "checking"
           /\ \/ \E p \in disk[t.src].pieces \ t.have :
                    NetworkStep(s, WeHave(session[s], h, p))
              \/ /\ disk[t.src].pieces \subseteq t.have
                 /\ \E hashed \in BOOLEAN : NetworkStep(s, FilesChecked(session[s], h, hashed))
    /\ UNCHANGED <<disk, budget>>

FetchMetadata(s, h) ==
    /\ Alive
    /\ Running(session[s], h)
    /\ ~ session[s].torrents[h].meta
    /\ NetworkStep(s, ReceiveMetadata(session[s], h))
    /\ UNCHANGED <<disk, budget>>

(* The session's manager resumes its torrents, unless the session pauses.  *)
AutoManage(s, h) ==
    /\ Alive
    /\ h \in Torrents(session[s])
    /\ ~ session[s].paused
    /\ session[s].torrents[h].paused
    /\ NetworkStep(s, [session[s] EXCEPT !.torrents[h].paused = FALSE])
    /\ UNCHANGED <<disk, budget>>

(* A piece with a deadline, or one that was there when it got its          *)
(* deadline, has been read.  The disk threads do not wait for the torrent. *)
ReadPiece(s, h) ==
    /\ Alive
    /\ session[s].torrents[h].reading > 0
    /\ NetworkStep(s, ReadComplete(session[s], h))
    /\ UNCHANGED <<disk, budget>>

(* Another alert the streamer does not look at: the torrent's state has    *)
(* changed, it has been resumed, and so on.                                *)
PostIgnored(s, h) ==
    /\ Alive
    /\ Running(session[s], h)
    /\ Spend("ignored")
    /\ NetworkStep(s, Post(session[s], "ignored", h))
    /\ UNCHANGED disk

Network(s, h) ==
    \/ DownloadPiece(s, h)
    \/ CheckFiles(s, h)
    \/ FetchMetadata(s, h)
    \/ AutoManage(s, h)

User == \E s \in Streamers : (\E src \in Sources : Start(s, src)) \/ Cancel(s) \/ FastForward(s)

Next ==
    \/ User
    \/ \E s \in Streamers : AlertsLoop(s) \/ HandleAlert(s)
    \/ RunBlock
    \/ Relaunch
    \/ \E s \in Streamers : \E h \in Torrents(session[s]) : Network(s, h) \/ PostIgnored(s, h)
    \/ \E s \in Streamers : \E h \in DOMAIN session[s].torrents : ReadPiece(s, h)

Spec == Init /\ [][Next]_vars

(* The timer repeats, the main thread works off what was dispatched, and   *)
(* there are peers with every piece.  That a batch is handled to its end   *)
(* is weak fairness of HandleAlert, which is possible as long as there is  *)
(* an alert in the batch.  Nothing is assumed of the user.                 *)
Fairness ==
    /\ \A s \in Streamers :
          /\ WF_vars(AlertsLoop(s))
          /\ []<>(batch[s] = <<>> \/ ~ Alive)
          /\ WF_vars(\E h \in Torrents(session[s]) : Network(s, h))
    /\ WF_vars(RunBlock)

FairSpec == Spec /\ Fairness
-----------------------------------------------------------------------------
(* Every field holds what the code lets it hold.  required_pieces may hold *)
(* indices before the first piece; no such index becomes a deadline        *)
(* (set_piece_deadline), and what a torrent and the disk have are pieces   *)
(* of the source.                                                          *)
TypeOK ==
    /\ \A s \in Streamers :
          /\ streamer[s].timers \in 0 .. MaxStarts
          /\ streamer[s].timerLive => streamer[s].timers > 0
          /\ streamer[s].savePath \in Sources \cup {None}
          /\ streamer[s].required \in Seq(Int)
          /\ streamer[s].firstPiece \in Int
          /\ streamer[s].status.kind \in {"zero", "buffering", "finished"}
          /\ \A h \in DOMAIN session[s].torrents :
                LET t == session[s].torrents[h]
                IN  /\ t.src \in Sources
                    /\ t.state \in TorrentStates
                    /\ t.have \cup t.critical \subseteq Pieces(t.src)
                    /\ t.prio \in [Pieces(t.src) -> 0 .. TopPriority]
          /\ batch[s] \in Seq(Alert \cup Report)
    /\ globals.MIN_PIECES \in Nat
    /\ \A src \in Sources : disk[src].pieces \subseteq Pieces(src)

(* The streamer and libtorrent agree on what is urgent, although the       *)
(* network thread takes pieces off the list at any time and MIN_PIECES is  *)
(* shared by all streamers: once required_pieces is filled, the pieces     *)
(* with a deadline are the required ones that exist and are missing, and   *)
(* each has the top priority (metadataReceivedAlert, prioritizeNextPieces, *)
(* fastForwardTorrentForRange).                                            *)
DeadlinesFollowRequired ==
    \A s \in Streamers : \A h \in Torrents(session[s]) :
        LET t == session[s].torrents[h]
        IN  streamer[s].required # <<>> =>
               /\ t.critical = (ToSet(streamer[s].required) \cap Pieces(t.src)) \ t.have
               /\ \A p \in t.critical : t.prio[p] = TopPriority

(* A piece with a deadline is missing and has the top priority, whatever   *)
(* stale alert, cancel or second start came before: the handlers clear the *)
(* deadlines, lower all priorities and only then set new deadlines.        *)
DeadlinesAreMissing ==
    \A s \in Streamers : \A h \in Torrents(session[s]) :
        LET t == session[s].torrents[h]
        IN  \A p \in t.critical : p \notin t.have /\ t.prio[p] = TopPriority

(* A streamer that is started once calls readyToPlay at most once,         *)
(* although libtorrent may report the same torrent finished twice          *)
(* (processTorrent is guarded by isStreaming; the priorities set in        *)
(* metadataReceivedAlert finish the torrent and unfinish it again).        *)
ReadyOnce == \A s \in Streamers : run[s].ready <= 1

(* When a download is reported ready, the file that was chosen is complete *)
(* on disk, whatever stale alerts of an earlier start were in the batch    *)
(* (processTorrent dispatches the callback, for torrent_finished_alert     *)
(* only).                                                                  *)
ReadyMeansComplete ==
    [][\A i \in DOMAIN mainQueue' :
          LET b == mainQueue'[i]
          IN  i > Len(mainQueue) =>
                 FilePieces(b.path.src, b.path.file) \subseteq disk[b.path.src].pieces]_vars

(* Once cancelStreamingAndDeleteData has returned, no piece is downloaded  *)
(* for that streamer until it is started again: the torrents stay in the   *)
(* session, auto-managed, and only the pause of the session holds them.    *)
CancelStopsDownload ==
    [][\A s \in Streamers :
          (\E h \in Torrents(session[s]) : DownloadPiece(s, h)) => streamer[s].blocks]_vars

(* After a cancel that deletes, no alert of the old session reaches the    *)
(* fields again until the next start, whatever timers are still in the run *)
(* loop: the loop is off and the session is a new one.                     *)
DeleteIsFinal ==
    \A s \in Streamers : run[s].deleted =>
        /\ streamer[s].status = ZeroStatus
        /\ streamer[s].fileName = None
        /\ streamer[s].required = <<>>
        /\ session[s].queue = <<>>

(* A start has its answer: readyToPlay or failure was called, or the user  *)
(* cancelled.                                                              *)
Answered(s) == run[s].ready > 0 \/ run[s].failed > 0 \/ ~ streamer[s].blocks

(* Every start is answered (the callbacks of startStreamingFromFile). *)
StartIsAnswered == \A s \in Streamers : streamer[s].blocks ~> Answered(s)

(* A start is answered unless the one alert is lost that the answer hangs  *)
(* on: torrent_finished_alert, for which read_piece_alerts of a higher     *)
(* priority may leave no room.  The loss of all others, checks, metadata   *)
(* and the polling loop lie in between (alertsLoop, processTorrent).       *)
AnsweredUnlessLost ==
    \A s \in Streamers :
        []("torrent_finished" \notin session[s].lost) => (streamer[s].blocks ~> Answered(s))
=============================================================================
