---------------------- MODULE PTTorrentStreamerProofs ----------------------
(***************************************************************************)
(* Theorems about PTTorrentStreamer, for any number of streamers, sources, *)
(* pieces and starts.                                                      *)
(*                                                                         *)
(* A handler is an operator from a context to a context, and calls others. *)
(* The proof follows it: lemmas about the session operators say what they  *)
(* do to a torrent and to the queue; every operator on contexts is shown   *)
(* to do no more than Works allows; and the actions commit what comes out. *)
(***************************************************************************)
EXTENDS PTTorrentStreamer, FiniteSetTheorems, NaturalsInduction, WellFoundedInduction, TLAPS

(* Hypotheses of single theorems. *)
OneStart == MaxStarts <= 1
SingleFiles == \A src \in Sources : DOMAIN Files[src] = {0}
SpaceSuffices == SpaceOutcomes \subseteq {TRUE}
OwnDirectories == (\A s, u \in Streamers : s = u) \/ Deletes \subseteq {FALSE}
-----------------------------------------------------------------------------
(* Torrents and sessions *)

Prios == UNION {[Pieces(src) -> 0 .. TopPriority] : src \in Sources}

TorrentRecs ==
    [src : Sources, inSession : BOOLEAN, meta : BOOLEAN, state : TorrentStates,
     have : SUBSET Int, prio : Prios, critical : SUBSET Int, reading : Nat,
     paused : BOOLEAN, needSave : BOOLEAN]

(* A priority is lowered to nothing only outside of the file that is       *)
(* wanted, so that with one file a finished torrent has the file.          *)
TorrentOK(t) ==
    /\ t.have \cup t.critical \subseteq Pieces(t.src)
    /\ t.prio \in [Pieces(t.src) -> 0 .. TopPriority]
    /\ \A p \in t.critical : p \notin t.have /\ t.prio[p] = TopPriority
    /\ t.src \notin Magnets \/ t.state # "downloading_metadata" => t.meta
    /\ SingleFiles => \A p \in FilePieces(t.src, 0) : t.prio[p] # DontDownload

SessionRecs ==
    [paused : BOOLEAN, torrents : Seq(TorrentRecs), queue : Seq(Alert), lost : SUBSET Types]

(* What an alert says of its torrent is true, and stays so. *)
AlertOK(torrents, a) ==
    a.type # DroppedType =>
        /\ a.about \in DOMAIN torrents
        /\ a.type \in {"metadata_received", "piece_finished"} => torrents[a.about].meta
        /\ a.type = "torrent_finished" /\ SingleFiles =>
              FilePieces(torrents[a.about].src, 0) \subseteq torrents[a.about].have

SessionOK(ses) ==
    /\ ses \in SessionRecs
    /\ DOMAIN ses.torrents \subseteq Subjects
    /\ \A h \in DOMAIN ses.torrents : TorrentOK(ses.torrents[h])
    /\ \A i \in DOMAIN ses.queue : AlertOK(ses.torrents, ses.queue[i])
-----------------------------------------------------------------------------
(* Contexts *)

FileChoices == {-1, 0} \cup FileIndices \cup {IndexOfLargestFile(src) : src \in Sources}

FileNames == {None} \cup [src : Sources, file : FileChoices]
Statuses == [kind : {"zero", "buffering", "finished"}, got : Nat, need : Nat]

StreamerRecs ==
    [blocks : BOOLEAN, selectionBlock : BOOLEAN, alertsLoopActive : BOOLEAN,
     timers : Nat, timerLive : BOOLEAN, savePath : Sources \cup {None},
     required : Seq(Int), firstPiece : Int, streaming : BOOLEAN,
     fileName : FileNames, status : Statuses]

GlobalRecs ==
    [MIN_PIECES : Nat, selectedFileIndex : FileChoices, shouldUserSelectFiles : BOOLEAN]

RunRecs == [ready : Nat, failed : Nat, deleted : BOOLEAN, returned : BOOLEAN]

Paths == [dir : Sources \cup {None}, src : Sources, file : FileChoices]
Blocks == [id : Streamers, path : Paths]

Faults ==
    {"none", "nil_block", "nil_path", "file_index", "null_info", "torrent_info", "add_torrent",
     "expired_handle", "piece_priorities"}

Dirs == [pieces : SUBSET Int, resume : {"none", "good", "garbage"}]

Contexts ==
    [id : Streamers, st : StreamerRecs, ses : SessionRecs, glob : GlobalRecs,
     main : Seq(Blocks), disk : [Sources -> Dirs], fault : Faults, run : RunRecs]

StreamerOK(st) == st.timerLive => st.timers > 0
GlobalOK(glob) == SingleFiles => glob.selectedFileIndex \in {-1, 0}
DiskOK(dir) == \A src \in Sources : dir[src].pieces \subseteq Pieces(src)

Sound(c) ==
    /\ c \in Contexts
    /\ StreamerOK(c.st) /\ SessionOK(c.ses) /\ GlobalOK(c.glob) /\ DiskOK(c.disk)

(* The calls of readyToPlay that are due for s. *)
Pending(main, s) == {i \in DOMAIN main : main[i].id = s}

(* Without callbacks, nothing is downloaded. *)
Held(st, ses) ==
    ~ st.blocks => ses.paused \/ \A h \in DOMAIN ses.torrents : ~ ses.torrents[h].inSession

(* The urgent pieces are the required ones that are missing. *)
Follows(st, ses) ==
    \A h \in DOMAIN ses.torrents :
        LET t == ses.torrents[h]
        IN  t.inSession /\ st.required # <<>> =>
               t.critical = (ToSet(st.required) \cap Pieces(t.src)) \ t.have

OnDisk(ses, dir) ==
    \A h \in DOMAIN ses.torrents : ses.torrents[h].have \subseteq dir[ses.torrents[h].src].pieces
-----------------------------------------------------------------------------
(* The invariant *)

Budgets == [starts : [Streamers -> Nat], cancels : Nat, forwards : Nat, ignored : Nat]

VarTypes ==
    /\ streamer \in [Streamers -> StreamerRecs]
    /\ session \in [Streamers -> SessionRecs]
    /\ batch \in [Streamers -> Seq(Alert \cup Report)]
    /\ globals \in GlobalRecs
    /\ mainQueue \in Seq(Blocks)
    /\ disk \in [Sources -> Dirs]
    /\ fault \in Faults
    /\ run \in [Streamers -> RunRecs]
    /\ budget \in Budgets

BatchOK(s) == \A i \in DOMAIN batch[s] : AlertOK(session[s].torrents, batch[s][i])

(* A start makes one timer and at most one torrent. *)
BudgetOK(s) ==
    /\ streamer[s].timers + budget.starts[s] <= MaxStarts
    /\ Len(session[s].torrents) + budget.starts[s] <= MaxStarts

DeletedOK(s) ==
    run[s].deleted =>
        /\ streamer[s].status = ZeroStatus
        /\ streamer[s].fileName = None
        /\ streamer[s].required = <<>>
        /\ session[s].torrents = <<>>
        /\ session[s].queue = <<>>
        /\ batch[s] = <<>>

(* A ready block is dispatched only while there was none, and the flag     *)
(* streaming is kept until the callbacks go.                               *)
OnceOK(s) ==
    /\ run[s].ready <= 1
    /\ \A i, j \in Pending(mainQueue, s) : i = j
    /\ (\/ Pending(mainQueue, s) # {}
        \/ streamer[s].blocks /\ ~ streamer[s].streaming
        \/ budget.starts[s] = MaxStarts)
       => run[s].ready = 0
    /\ (\/ streamer[s].blocks /\ ~ streamer[s].streaming
        \/ budget.starts[s] = MaxStarts)
       => Pending(mainQueue, s) = {}

Fresh(s) == budget.starts[s] = MaxStarts =>
                streamer[s].required = <<>> /\ session[s].torrents = <<>>

Good(s) ==
    /\ StreamerOK(streamer[s]) /\ SessionOK(session[s]) /\ BatchOK(s) /\ BudgetOK(s)
    /\ DeletedOK(s) /\ Fresh(s)
    /\ SpaceSuffices => Held(streamer[s], session[s])
    /\ OneStart => OnceOK(s) /\ Follows(streamer[s], session[s])
    /\ OwnDirectories => OnDisk(session[s], disk)

StreamerInv ==
    /\ VarTypes
    /\ GlobalOK(globals) /\ DiskOK(disk)
    /\ \A s \in Streamers : Good(s)
-----------------------------------------------------------------------------
(* The session operators *)

LEMMA Geometry ==
    ASSUME NEW src \in Sources
    PROVE  /\ NumPieces[src] \in Nat \ {0}
           /\ Pieces(src) \subseteq Int
           /\ \A f \in DOMAIN Files[src] :
                 /\ Files[src][f].first \in Nat /\ Files[src][f].last \in Nat
                 /\ Files[src][f].size \in Nat
                 /\ FilePieces(src, f) \subseteq Pieces(src)
           /\ SingleFiles => FilePieces(src, 0) \subseteq Pieces(src)
<1>1. NumPieces[src] \in Nat \ {0} /\ Pieces(src) \subseteq Int
  BY GeometryAssumption DEF GeometryAssumption, Pieces
<1>2. ASSUME NEW f \in DOMAIN Files[src]
      PROVE  /\ Files[src][f].first \in Nat /\ Files[src][f].last \in Nat
             /\ Files[src][f].size \in Nat
             /\ FilePieces(src, f) \subseteq Pieces(src)
  <2>1. /\ Files[src][f].first \in 0 .. Files[src][f].last
        /\ Files[src][f].last \in 0 .. NumPieces[src] - 1
        /\ Files[src][f].size \in Nat
    BY GeometryAssumption DEF GeometryAssumption
  <2> QED
    BY <1>1, <2>1 DEF FilePieces, Pieces
<1> QED
  BY <1>1, <1>2 DEF SingleFiles

(* The session r is ses with the torrent h made u; the queue may differ. *)
One(ses, r, h, u) ==
    /\ r.paused = ses.paused
    /\ DOMAIN r.torrents = DOMAIN ses.torrents
    /\ r.torrents[h] = u
    /\ \A k \in DOMAIN ses.torrents : k # h => r.torrents[k] = ses.torrents[k]

LEMMA TorrentAt ==
    ASSUME NEW ses, SessionOK(ses), NEW h \in DOMAIN ses.torrents
    PROVE  /\ ses.torrents[h] \in TorrentRecs
           /\ TorrentOK(ses.torrents[h])
           /\ h \in Subjects
           /\ ses.torrents[h].src \in Sources
<1>1. ses \in SessionRecs
  BY DEF SessionOK
<1>2. ses.torrents \in Seq(TorrentRecs)
  BY <1>1 DEF SessionRecs
<1>3. ses.torrents[h] \in TorrentRecs
  BY <1>2
<1> QED
  BY <1>3 DEF SessionOK, TorrentRecs

LEMMA TorrentChanges ==
    ASSUME NEW ses, SessionOK(ses), NEW h \in DOMAIN ses.torrents,
           NEW u \in TorrentRecs, TorrentOK(u),
           u.src = ses.torrents[h].src, ses.torrents[h].have \subseteq u.have,
           ses.torrents[h].meta => u.meta,
           NEW r, r = [ses EXCEPT !.torrents[h] = u]
    PROVE  SessionOK(r) /\ One(ses, r, h, u)
<1>1. ses \in SessionRecs /\ ses.torrents \in Seq(TorrentRecs)
  BY DEF SessionOK, SessionRecs
<1> DEFINE torrents == [ses.torrents EXCEPT ![h] = u]
<1>2. r = [ses EXCEPT !.torrents = torrents]
  OBVIOUS
<1>3. /\ torrents \in Seq(TorrentRecs) /\ DOMAIN torrents = DOMAIN ses.torrents
      /\ torrents[h] = u
      /\ \A k \in DOMAIN ses.torrents : k # h => torrents[k] = ses.torrents[k]
  BY <1>1
<1> HIDE DEF torrents
<1>4. /\ r \in SessionRecs /\ r.torrents = torrents
      /\ r.queue = ses.queue /\ r.paused = ses.paused
  BY <1>1, <1>2, <1>3 DEF SessionRecs
<1>5. One(ses, r, h, u)
  BY <1>3, <1>4 DEF One
<1>6. \A k \in DOMAIN torrents : TorrentOK(torrents[k])
  BY <1>3 DEF SessionOK
<1>7. \A k \in DOMAIN ses.torrents :
         /\ torrents[k].src = ses.torrents[k].src
         /\ ses.torrents[k].have \subseteq torrents[k].have
         /\ ses.torrents[k].meta => torrents[k].meta
  BY <1>3
<1>8. ASSUME NEW i \in DOMAIN ses.queue
      PROVE  AlertOK(torrents, ses.queue[i])
  <2>1. AlertOK(ses.torrents, ses.queue[i])
    BY DEF SessionOK
  <2> QED
    BY <1>3, <1>7, <2>1 DEF AlertOK
<1> QED
  BY <1>3, <1>4, <1>5, <1>6, <1>8 DEF SessionOK

LEMMA Appended ==
    ASSUME NEW S, NEW q \in Seq(S), NEW e \in S
    PROVE  /\ Append(q, e) \in Seq(S)
           /\ Len(Append(q, e)) = Len(q) + 1
           /\ \A i \in DOMAIN q : i \in DOMAIN Append(q, e) /\ Append(q, e)[i] = q[i]
           /\ Append(q, e)[Len(q) + 1] = e
           /\ \A i \in DOMAIN Append(q, e) :
                 \/ i = Len(q) + 1 /\ Append(q, e)[i] = e
                 \/ i \in DOMAIN q /\ Append(q, e)[i] = q[i]
OBVIOUS

LEMMA Posted ==
    ASSUME NEW ses, SessionOK(ses), NEW h \in DOMAIN ses.torrents, NEW type \in Types,
           AlertOK(ses.torrents, [type |-> type, about |-> h, lost |-> {}])
    PROVE  /\ SessionOK(Post(ses, type, h))
           /\ Post(ses, type, h).torrents = ses.torrents
           /\ Post(ses, type, h).paused = ses.paused
<1> DEFINE a == [type |-> type, about |-> h, lost |-> {}]
           r == Post(ses, type, h)
<1>1. ses \in SessionRecs /\ ses.queue \in Seq(Alert)
  BY DEF SessionOK, SessionRecs
<1>2. a \in Alert
  BY DEF Alert, SessionOK
<1>3. CASE Full(ses.queue, Limit, type)
  <2>1. r = [ses EXCEPT !.lost = ses.lost \cup {type}]
    BY <1>3 DEF Post
  <2>2. r \in SessionRecs /\ r.torrents = ses.torrents /\ r.queue = ses.queue /\ r.paused = ses.paused
    BY <1>1, <2>1 DEF SessionRecs
  <2> QED
    BY <2>2 DEF SessionOK
<1>4. CASE ~ Full(ses.queue, Limit, type)
  <2> DEFINE q == Append(ses.queue, a)
  <2> HIDE DEF a
  <2>1. r = [ses EXCEPT !.queue = q]
    BY <1>4 DEF Post, a
  <2>2. q \in Seq(Alert) /\ \A i \in DOMAIN q : q[i] = a \/ (i \in DOMAIN ses.queue /\ q[i] = ses.queue[i])
    BY <1>1, <1>2, Appended
  <2> HIDE DEF q
  <2>3. r \in SessionRecs /\ r.torrents = ses.torrents /\ r.queue = q /\ r.paused = ses.paused
    BY <1>1, <2>1, <2>2 DEF SessionRecs
  <2> QED
    BY <2>2, <2>3 DEF SessionOK, a
<1> QED
  BY <1>3, <1>4

LEMMA Joined ==
    ASSUME NEW S, NEW q \in Seq(S), NEW e \in S, NEW n \in Nat,
           NEW r, r = q \o [i \in 1 .. n |-> e]
    PROVE  r \in Seq(S) /\ \A i \in DOMAIN r : r[i] = e \/ (i \in DOMAIN q /\ r[i] = q[i])
<1> DEFINE more == [i \in 1 .. n |-> e]
<1>1. more \in Seq(S) /\ Len(more) = n /\ \A i \in 1 .. n : more[i] = e
  OBVIOUS
<1>2. r = q \o more
  OBVIOUS
<1> HIDE DEF more
<1>3. /\ r \in Seq(S) /\ Len(r) = Len(q) + n /\ DOMAIN r = 1 .. Len(q) + n
      /\ DOMAIN q = 1 .. Len(q) /\ Len(q) \in Nat
  BY <1>1, <1>2
<1>4. \A i \in 1 .. Len(q) : r[i] = q[i]
  BY <1>1, <1>2
<1>5. ASSUME NEW i \in 1 .. Len(q) + n, i \notin 1 .. Len(q) PROVE r[i] = e
  <2>1. i - Len(q) \in 1 .. n
    BY <1>3, <1>5
  <2>2. r[i] = more[i - Len(q)]
    BY <1>1, <1>2, <1>3, <1>5
  <2> QED
    BY <1>1, <2>1, <2>2
<1> QED
  BY <1>3, <1>4, <1>5

LEMMA RoomTyped ==
    ASSUME NEW ses, SessionOK(ses), NEW type \in Types
    PROVE  Room(ses, type) \in Nat
<1>1. ses.queue \in Seq(Alert) /\ Len(ses.queue) \in Nat
  BY DEF SessionOK, SessionRecs
<1>2. Limit \in Nat /\ Priority[type] \in Nat
  BY GeometryAssumption, TypesAssumption DEF GeometryAssumption, TypesAssumption
<1> DEFINE most == Limit * (1 + Priority[type])
<1>3. most \in Nat
  BY <1>2
<1>4. Room(ses, type) = IF Len(ses.queue) < most THEN most - Len(ses.queue) ELSE 0
  BY DEF Room
<1> HIDE DEF most
<1> QED
  BY <1>1, <1>3, <1>4

LEMMA ReadsPosted ==
    ASSUME NEW ses, SessionOK(ses), NEW h \in DOMAIN ses.torrents, NEW n \in Nat,
           NEW r, r = PostReads(ses, h, n)
    PROVE  SessionOK(r) /\ r.torrents = ses.torrents /\ r.paused = ses.paused
<1> DEFINE a == [type |-> "read_piece", about |-> h, lost |-> {}]
           room == Room(ses, "read_piece")
           fit == IF n < room THEN n ELSE room
           q == ses.queue \o [i \in 1 .. fit |-> a]
           lost == IF fit < n THEN ses.lost \cup {"read_piece"} ELSE ses.lost
<1>1. ses \in SessionRecs /\ ses.queue \in Seq(Alert) /\ ses.lost \subseteq Types
  BY DEF SessionOK, SessionRecs
<1>2. "read_piece" \in Types
  BY StreamerAssumption DEF StreamerAssumption
<1>3. a \in Alert /\ AlertOK(ses.torrents, a)
  BY <1>2 DEF Alert, SessionOK, AlertOK
<1>4. r = [ses EXCEPT !.queue = q, !.lost = lost]
  BY DEF PostReads
<1> HIDE DEF a
<1>5. fit \in Nat
  BY <1>2, RoomTyped
<1> HIDE DEF fit
<1>6. q \in Seq(Alert) /\ \A i \in DOMAIN q : q[i] = a \/ (i \in DOMAIN ses.queue /\ q[i] = ses.queue[i])
  BY <1>1, <1>3, <1>5, Joined
<1>7. lost \subseteq Types
  BY <1>1, <1>2
<1> HIDE DEF q, lost
<1>8. r \in SessionRecs /\ r.torrents = ses.torrents /\ r.queue = q /\ r.paused = ses.paused
  BY <1>1, <1>4, <1>6, <1>7 DEF SessionRecs
<1> QED
  BY <1>3, <1>6, <1>8 DEF SessionOK

LEMMA SomePieces ==
    ASSUME NEW src \in Sources, NEW S, S \subseteq Pieces(src)
    PROVE  Cardinality(S) \in Nat
<1>1. NumPieces[src] - 1 \in Int
  BY Geometry
<1>2. IsFiniteSet(Pieces(src))
  BY <1>1, FS_Interval DEF Pieces
<1> QED
  BY <1>2, FS_Subset, FS_CardinalityType

LEMMA SomeIndices ==
    ASSUME NEW T, NEW q \in Seq(T), NEW S, S \subseteq DOMAIN q
    PROVE  Cardinality(S) \in Nat
<1>1. DOMAIN q = 1 .. Len(q) /\ Len(q) \in Int
  OBVIOUS
<1>2. IsFiniteSet(DOMAIN q)
  BY <1>1, FS_Interval
<1> QED
  BY <1>2, FS_Subset, FS_CardinalityType

(* A finished torrent of one file has the file. *)
LEMMA FinishedHasFile ==
    ASSUME NEW t \in TorrentRecs, TorrentOK(t), IsFinished(t), SingleFiles
    PROVE  FilePieces(t.src, 0) \subseteq t.have
<1>1. t.src \in Sources
  BY DEF TorrentRecs
<1>2. FilePieces(t.src, 0) \subseteq Pieces(t.src)
  BY <1>1, Geometry
<1> QED
  BY <1>2 DEF TorrentOK, IsFinished

LEMMA InState ==
    ASSUME NEW t \in TorrentRecs, TorrentOK(t), NEW state \in TorrentStates,
           t.meta, NEW u, u = [t EXCEPT !.state = state]
    PROVE  /\ u \in TorrentRecs /\ TorrentOK(u)
           /\ u.src = t.src /\ u.have = t.have /\ u.meta = t.meta
           /\ u.inSession = t.inSession /\ u.critical = t.critical /\ u.prio = t.prio
<1>1. /\ u \in TorrentRecs /\ u.state = state
      /\ u.src = t.src /\ u.have = t.have /\ u.meta = t.meta
      /\ u.inSession = t.inSession /\ u.critical = t.critical /\ u.prio = t.prio
  BY DEF TorrentRecs
<1>2. TorrentOK(u)
  BY <1>1 DEF TorrentOK
<1> QED
  BY <1>1, <1>2

LEMMA FinishKeeps ==
    ASSUME NEW ses, SessionOK(ses), NEW h \in DOMAIN ses.torrents, IsFinished(ses.torrents[h])
    PROVE  /\ SessionOK(Finish(ses, h))
           /\ One(ses, Finish(ses, h), h, [ses.torrents[h] EXCEPT !.state = "finished"])
<1> DEFINE t == ses.torrents[h]
           u == [t EXCEPT !.state = "finished"]
           m == [ses EXCEPT !.torrents[h] = u]
           r == Finish(ses, h)
<1>1. t \in TorrentRecs /\ TorrentOK(t)
  BY TorrentAt
<1>2. t.meta
  BY DEF IsFinished
<1>3. CASE t.state = "finished"
  <2>1. u = t
    BY <1>1, <1>3 DEF TorrentRecs
  <2>2. r = ses
    BY <1>3 DEF Finish
  <2> QED
    BY <2>1, <2>2 DEF One
<1>4. CASE t.state # "finished"
  <2>1. r = Post(m, "torrent_finished", h)
    BY <1>4 DEF Finish
  <2>2. /\ u \in TorrentRecs /\ TorrentOK(u) /\ u.src = t.src /\ u.have = t.have /\ u.meta = t.meta
        /\ u.prio = t.prio
    <3>1. "finished" \in TorrentStates
      BY DEF TorrentStates
    <3>2. u = [t EXCEPT !.state = "finished"]
      OBVIOUS
    <3> HIDE DEF u, t
    <3> QED
      BY <1>1, <1>2, <3>1, <3>2, InState, ZenonT(40)
  <2> HIDE DEF u
  <2>3. SessionOK(m) /\ One(ses, m, h, u)
    BY <2>2, TorrentChanges
  <2>4. "torrent_finished" \in Types /\ DroppedType \notin Types
    BY StreamerAssumption, TypesAssumption DEF StreamerAssumption, TypesAssumption
  <2>5. IsFinished(u)
    BY <2>2 DEF IsFinished
  <2>6. AlertOK(m.torrents, [type |-> "torrent_finished", about |-> h, lost |-> {}])
    BY <2>2, <2>3, <2>5, FinishedHasFile DEF AlertOK, One
  <2> HIDE DEF m
  <2>7. SessionOK(r) /\ r.torrents = m.torrents /\ r.paused = m.paused
    BY <2>1, <2>3, <2>4, <2>6, Posted DEF One
  <2> QED
    BY <2>3, <2>7 DEF One, u
<1> QED
  BY <1>3, <1>4

(* What the calls of the main thread leave of a torrent ... *)
Kept(t, u) ==
    /\ u.src = t.src /\ u.have = t.have /\ u.meta = t.meta /\ u.inSession = t.inSession

(* ... and of a session, where they change the torrent h. *)
Others(ses, r, h) ==
    /\ r.paused = ses.paused
    /\ DOMAIN r.torrents = DOMAIN ses.torrents
    /\ \A k \in DOMAIN ses.torrents : k # h => r.torrents[k] = ses.torrents[k]

LEMMA PrioritizePiecesKeeps ==
    ASSUME NEW ses, SessionOK(ses), NEW h \in DOMAIN ses.torrents,
           NEW t, t = ses.torrents[h],
           NEW prio \in [Pieces(t.src) -> 0 .. TopPriority],
           \A p \in t.critical : prio[p] = DontDownload \/ prio[p] = TopPriority,
           SingleFiles => \A p \in FilePieces(t.src, 0) : prio[p] # DontDownload,
           NEW r, r = PrioritizePieces(ses, h, prio)
    PROVE  /\ SessionOK(r) /\ Others(ses, r, h) /\ Kept(t, r.torrents[h])
           /\ r.torrents[h].critical \subseteq t.critical
           /\ (\A p \in t.critical : prio[p] # DontDownload) => r.torrents[h].critical = t.critical
<1> DEFINE save == t.needSave \/ \E p \in Pieces(t.src) :
                      (prio[p] = DontDownload) # (t.prio[p] = DontDownload)
           cut == {p \in t.critical : prio[p] = DontDownload}
           crit == t.critical \ cut
           new == [t EXCEPT !.prio = prio, !.critical = crit, !.needSave = save]
           upd == [ses EXCEPT !.torrents[h] = new]
<1>1. t \in TorrentRecs /\ TorrentOK(t) /\ t.src \in Sources
  BY TorrentAt
<1> DEFINE m == IF t.state = "checking" \/ IsFinished(t) = IsFinished(new) THEN upd
                ELSE IF IsFinished(new) THEN Finish(upd, h)
                ELSE [upd EXCEPT !.torrents[h].state = "downloading"]
           Fine(x) ==
              /\ SessionOK(x) /\ Others(ses, x, h) /\ Kept(t, x.torrents[h])
              /\ x.torrents[h].critical \subseteq t.critical
              /\ (\A p \in t.critical : prio[p] # DontDownload) => x.torrents[h].critical = t.critical
<1>2. r = IF ~ t.meta \/ IsSeed(t) THEN ses ELSE PostReads(m, h, Cardinality(cut))
  BY DEF PrioritizePieces
<1>3. /\ prio \in Prios /\ save \in BOOLEAN /\ crit \in SUBSET Int /\ crit \subseteq t.critical
      /\ \A p \in crit : prio[p] = TopPriority
      /\ (\A p \in t.critical : prio[p] # DontDownload) => crit = t.critical
  <2>1. t.critical \subseteq Int /\ t.needSave \in BOOLEAN
    BY <1>1 DEF TorrentRecs
  <2> QED
    BY <1>1, <2>1 DEF Prios
<1>11. Cardinality(cut) \in Nat
  BY <1>1, SomePieces DEF TorrentOK
<1> HIDE DEF save, crit, cut
<1>4. /\ new \in TorrentRecs /\ Kept(t, new) /\ new.state = t.state
      /\ new.prio = prio /\ new.critical = crit
  BY <1>1, <1>3 DEF TorrentRecs, Kept
<1> HIDE DEF new
<1>5. TorrentOK(new)
  BY <1>1, <1>3, <1>4 DEF TorrentOK, Kept
<1>6. SessionOK(upd) /\ One(ses, upd, h, new)
  BY <1>4, <1>5, TorrentChanges DEF Kept
<1> HIDE DEF upd
<1>7. CASE ~ t.meta \/ IsSeed(t)
  <2>1. r = ses
    BY <1>2, <1>7
  <2> QED
    BY <2>1 DEF Others, Kept
<1>12. \/ m = upd
       \/ IsFinished(new) /\ m = Finish(upd, h)
       \/ m = [upd EXCEPT !.torrents[h].state = "downloading"]
  OBVIOUS
<1> HIDE DEF m
<1>8. ASSUME m = upd PROVE Fine(m)
  BY <1>3, <1>4, <1>6, <1>8 DEF One, Others
<1>9. ASSUME t.meta, IsFinished(new), m = Finish(upd, h) PROVE Fine(m)
  <2> DEFINE u == [new EXCEPT !.state = "finished"]
  <2>1. h \in DOMAIN upd.torrents /\ upd.torrents[h] = new
    BY <1>6 DEF One
  <2>2. SessionOK(m) /\ One(upd, m, h, u)
    BY <1>6, <1>9, <2>1, FinishKeeps
  <2>3. Kept(new, u) /\ u.critical = new.critical
    BY <1>4 DEF TorrentRecs, Kept
  <2> HIDE DEF u
  <2> QED
    BY <1>3, <1>4, <1>6, <2>2, <2>3 DEF One, Others, Kept
<1>10. ASSUME t.meta, m = [upd EXCEPT !.torrents[h].state = "downloading"] PROVE Fine(m)
  <2> DEFINE u == [new EXCEPT !.state = "downloading"]
  <2>1. h \in DOMAIN upd.torrents /\ upd.torrents[h] = new
    BY <1>6 DEF One
  <2>2. m = [upd EXCEPT !.torrents[h] = u]
    BY <1>10, <2>1
  <2>3. u \in TorrentRecs /\ TorrentOK(u) /\ Kept(new, u) /\ u.critical = new.critical
    <3>1. "downloading" \in TorrentStates /\ new.meta
      BY <1>4, <1>10 DEF TorrentStates, Kept
    <3>2. u = [new EXCEPT !.state = "downloading"]
      OBVIOUS
    <3> HIDE DEF u
    <3> QED
      BY <1>4, <1>5, <3>1, <3>2, InState, ZenonT(40) DEF Kept
  <2> HIDE DEF u
  <2>4. SessionOK(m) /\ One(upd, m, h, u)
    BY <1>6, <2>1, <2>2, <2>3, TorrentChanges DEF Kept
  <2> QED
    BY <1>3, <1>4, <1>6, <2>3, <2>4 DEF One, Others, Kept
<1>13. CASE t.meta /\ ~ IsSeed(t)
  <2>1. Fine(m)
    BY <1>8, <1>9, <1>10, <1>12, <1>13
  <2>2. h \in DOMAIN m.torrents /\ r = PostReads(m, h, Cardinality(cut))
    BY <1>2, <1>13, <2>1 DEF Others
  <2>3. SessionOK(r) /\ r.torrents = m.torrents /\ r.paused = m.paused
    BY <1>11, <2>1, <2>2, ReadsPosted
  <2> QED
    BY <2>1, <2>3 DEF Others
<1> QED
  BY <1>7, <1>13

LEMMA ClearDeadlinesKeeps ==
    ASSUME NEW ses, SessionOK(ses), NEW h \in DOMAIN ses.torrents,
           NEW r, r = ClearDeadlines(ses, h)
    PROVE  /\ SessionOK(r) /\ Others(ses, r, h) /\ Kept(ses.torrents[h], r.torrents[h])
           /\ r.torrents[h].critical = {}
<1> DEFINE t == ses.torrents[h]
           prio == [p \in DOMAIN t.prio |-> IF p \in t.critical THEN LowPriority ELSE t.prio[p]]
           u == [t EXCEPT !.prio = prio, !.critical = {}]
           m == [ses EXCEPT !.torrents[h] = u]
<1>1. t \in TorrentRecs /\ TorrentOK(t) /\ t.src \in Sources
  BY TorrentAt
<1>2. r = PostReads(m, h, Cardinality(t.critical))
  BY DEF ClearDeadlines
<1>3. /\ prio \in [Pieces(t.src) -> 0 .. TopPriority]
      /\ \A p \in Pieces(t.src) : t.prio[p] # DontDownload => prio[p] # DontDownload
  BY <1>1 DEF TorrentOK, LowPriority, TopPriority, DontDownload
<1>4. prio \in Prios
  BY <1>1, <1>3 DEF Prios
<1> HIDE DEF prio
<1>5. u \in TorrentRecs /\ Kept(t, u) /\ u.prio = prio /\ u.critical = {} /\ u.state = t.state
  BY <1>1, <1>4 DEF TorrentRecs, Kept
<1> HIDE DEF u
<1>6. SingleFiles => FilePieces(t.src, 0) \subseteq Pieces(t.src)
  BY <1>1, Geometry
<1>7. TorrentOK(u)
  BY <1>1, <1>3, <1>5, <1>6 DEF TorrentOK, Kept
<1>8. SessionOK(m) /\ One(ses, m, h, u)
  BY <1>5, <1>7, TorrentChanges DEF Kept
<1>9. Cardinality(t.critical) \in Nat
  BY <1>1, SomePieces DEF TorrentOK
<1> HIDE DEF m
<1>10. SessionOK(r) /\ r.torrents = m.torrents /\ r.paused = m.paused
  BY <1>2, <1>8, <1>9, ReadsPosted DEF One
<1> QED
  BY <1>5, <1>8, <1>10 DEF One, Others

LEMMA SetDeadlinesKeeps ==
    ASSUME NEW ses, SessionOK(ses), NEW h \in DOMAIN ses.torrents, NEW want \in Seq(Int),
           NEW r, r = SetDeadlines(ses, h, want)
    PROVE  LET t == ses.torrents[h]
               new == IF t.inSession /\ t.meta THEN (ToSet(want) \cap Pieces(t.src)) \ t.have ELSE {}
           IN  /\ SessionOK(r) /\ Others(ses, r, h) /\ Kept(t, r.torrents[h])
               /\ r.torrents[h].critical = t.critical \cup new
<1> DEFINE t == ses.torrents[h]
           new == (ToSet(want) \cap Pieces(t.src)) \ t.have
           prio == [p \in DOMAIN t.prio |-> IF p \in new THEN TopPriority ELSE t.prio[p]]
           amiss == {i \in DOMAIN want : want[i] \notin Pieces(t.src)}
           there == {i \in DOMAIN want : want[i] \in t.have}
           reading == t.reading + Cardinality(there)
           u == [t EXCEPT !.critical = t.critical \cup new, !.reading = reading, !.prio = prio]
           m == [ses EXCEPT !.torrents[h] = u]
<1>1. t \in TorrentRecs /\ TorrentOK(t) /\ t.src \in Sources
  BY TorrentAt
<1>2. CASE ~ t.inSession \/ ~ t.meta
  <2>1. r = PostReads(ses, h, Len(want)) /\ Len(want) \in Nat
    BY <1>2 DEF SetDeadlines
  <2>2. SessionOK(r) /\ r.torrents = ses.torrents /\ r.paused = ses.paused
    BY <2>1, ReadsPosted
  <2> QED
    BY <1>2, <2>2 DEF Others, Kept
<1>3. CASE t.inSession /\ t.meta
  <2>1. r = PostReads(m, h, Cardinality(amiss))
    BY <1>3 DEF SetDeadlines
  <2>10. Cardinality(amiss) \in Nat /\ Cardinality(there) \in Nat
    BY SomeIndices
  <2>11. reading \in Nat
    BY <1>1, <2>10 DEF TorrentRecs
  <2> HIDE DEF reading, amiss
  <2>2. new \subseteq Pieces(t.src) /\ new \cap t.have = {} /\ new \subseteq Int
    BY <1>1, Geometry
  <2> HIDE DEF new
  <2>3. /\ prio \in [Pieces(t.src) -> 0 .. TopPriority]
        /\ \A p \in Pieces(t.src) : prio[p] = IF p \in new THEN TopPriority ELSE t.prio[p]
    BY <1>1, <2>2 DEF TorrentOK, TopPriority
  <2>4. prio \in Prios
    BY <1>1, <2>3 DEF Prios
  <2> HIDE DEF prio
  <2>5. /\ u \in TorrentRecs /\ Kept(t, u) /\ u.prio = prio /\ u.state = t.state
        /\ u.critical = t.critical \cup new
    BY <1>1, <2>2, <2>4, <2>11 DEF TorrentRecs, Kept
  <2> HIDE DEF u
  <2>6. SingleFiles => FilePieces(t.src, 0) \subseteq Pieces(t.src)
    BY <1>1, Geometry
  <2>7. TopPriority # DontDownload
    BY DEF TopPriority, DontDownload
  <2>8. TorrentOK(u)
    BY <1>1, <2>2, <2>3, <2>5, <2>6, <2>7 DEF TorrentOK, Kept
  <2>9. SessionOK(m) /\ One(ses, m, h, u)
    BY <2>5, <2>8, TorrentChanges DEF Kept
  <2> HIDE DEF m
  <2>12. SessionOK(r) /\ r.torrents = m.torrents /\ r.paused = m.paused
    BY <2>1, <2>9, <2>10, ReadsPosted DEF One
  <2> QED
    BY <1>3, <2>5, <2>9, <2>12 DEF One, Others, new
<1> QED
  BY <1>2, <1>3

LEMMA WeHaveKeeps ==
    ASSUME NEW ses, SessionOK(ses), NEW h \in DOMAIN ses.torrents,
           NEW t, t = ses.torrents[h], t.meta, NEW p \in Pieces(t.src),
           NEW r, r = WeHave(ses, h, p)
    PROVE  /\ SessionOK(r) /\ Others(ses, r, h)
           /\ r.torrents[h].src = t.src /\ r.torrents[h].meta
           /\ r.torrents[h].inSession = t.inSession
           /\ r.torrents[h].have = t.have \cup {p} /\ r.torrents[h].critical = t.critical \ {p}
<1> DEFINE prio == [t.prio EXCEPT ![p] = IF p \in t.critical THEN LowPriority ELSE t.prio[p]]
           reading == IF p \in t.critical THEN t.reading + 1 ELSE t.reading
           new == [t EXCEPT !.have = t.have \cup {p}, !.critical = t.critical \ {p},
                            !.needSave = TRUE, !.reading = reading, !.prio = prio]
           one == [ses EXCEPT !.torrents[h] = new]
           upd == Post(one, "piece_finished", h)
<1>1. t \in TorrentRecs /\ TorrentOK(t) /\ t.src \in Sources
  BY TorrentAt
<1>2. t.prio \in [Pieces(t.src) -> 0 .. TopPriority]
  BY <1>1 DEF TorrentOK
<1>3. r = IF t.state = "downloading" /\ IsFinished(new) THEN Finish(upd, h) ELSE upd
  BY DEF WeHave
<1>4. /\ prio \in [Pieces(t.src) -> 0 .. TopPriority]
      /\ \A q \in Pieces(t.src) : q # p => prio[q] = t.prio[q]
      /\ t.prio[p] # DontDownload => prio[p] # DontDownload
  BY <1>2 DEF LowPriority, TopPriority, DontDownload
<1>5. prio \in Prios /\ p \in Int /\ reading \in Nat
  <2>1. t.reading \in Nat
    BY <1>1 DEF TorrentRecs
  <2> QED
    BY <1>1, <1>4, <2>1, Geometry DEF Prios
<1> HIDE DEF prio, reading
<1>6. /\ new \in TorrentRecs /\ new.src = t.src /\ new.meta = t.meta /\ new.inSession = t.inSession
      /\ new.have = t.have \cup {p} /\ new.critical = t.critical \ {p}
      /\ new.prio = prio /\ new.state = t.state
  BY <1>1, <1>5 DEF TorrentRecs
<1> HIDE DEF new
<1>7. SingleFiles => FilePieces(t.src, 0) \subseteq Pieces(t.src)
  BY <1>1, Geometry
<1>8. TorrentOK(new)
  BY <1>1, <1>4, <1>6, <1>7 DEF TorrentOK
<1>9. SessionOK(one) /\ One(ses, one, h, new)
  BY <1>6, <1>8, TorrentChanges
<1> HIDE DEF one
<1>10. "piece_finished" \in Types /\ DroppedType \notin Types
  BY StreamerAssumption, TypesAssumption DEF StreamerAssumption, TypesAssumption
<1>11. AlertOK(one.torrents, [type |-> "piece_finished", about |-> h, lost |-> {}])
  BY <1>6, <1>9 DEF AlertOK, One
<1>12. SessionOK(upd) /\ upd.torrents = one.torrents /\ upd.paused = one.paused
  BY <1>9, <1>10, <1>11, Posted DEF One
<1> HIDE DEF upd
<1>13. One(ses, upd, h, new)
  BY <1>9, <1>12 DEF One
<1>14. CASE r = upd
  BY <1>6, <1>12, <1>13, <1>14 DEF One, Others
<1>15. CASE IsFinished(new) /\ r = Finish(upd, h)
  <2> DEFINE u == [new EXCEPT !.state = "finished"]
  <2>1. SessionOK(r) /\ One(upd, r, h, u)
    BY <1>12, <1>13, <1>15, FinishKeeps DEF One
  <2>2. /\ u.src = new.src /\ u.meta = new.meta /\ u.inSession = new.inSession
        /\ u.have = new.have /\ u.critical = new.critical
    BY <1>6 DEF TorrentRecs
  <2> HIDE DEF u
  <2> QED
    BY <1>6, <1>13, <2>1, <2>2 DEF One, Others
<1> QED
  BY <1>3, <1>14, <1>15

(* A torrent that is the same but for its flags. *)
LEMMA FlagsKept ==
    ASSUME NEW t \in TorrentRecs, TorrentOK(t), NEW u \in TorrentRecs, Kept(t, u),
           u.critical = t.critical, u.prio = t.prio, u.state = t.state
    PROVE  TorrentOK(u)
BY DEF TorrentOK, Kept

LEMMA FilesCheckedKeeps ==
    ASSUME NEW ses, SessionOK(ses), NEW h \in DOMAIN ses.torrents, ses.torrents[h].meta,
           NEW hashed \in BOOLEAN, NEW r, r = FilesChecked(ses, h, hashed)
    PROVE  /\ SessionOK(r) /\ Others(ses, r, h) /\ Kept(ses.torrents[h], r.torrents[h])
           /\ r.torrents[h].critical = ses.torrents[h].critical
<1> DEFINE t == ses.torrents[h]
           new == [t EXCEPT !.paused = t.paused \/ hashed]
           upd == [ses EXCEPT !.torrents[h].paused = t.paused \/ hashed]
<1>1. t \in TorrentRecs /\ TorrentOK(t)
  BY TorrentAt
<1>2. upd = [ses EXCEPT !.torrents[h] = new]
  OBVIOUS
<1>3. r = IF IsFinished(upd.torrents[h]) THEN Finish(upd, h)
          ELSE [upd EXCEPT !.torrents[h].state = "downloading"]
  BY DEF FilesChecked
<1>4. /\ new \in TorrentRecs /\ Kept(t, new) /\ new.critical = t.critical /\ new.prio = t.prio
      /\ new.state = t.state
  BY <1>1 DEF TorrentRecs, Kept
<1> HIDE DEF new
<1>5. TorrentOK(new)
  BY <1>1, <1>4, FlagsKept
<1>6. SessionOK(upd) /\ One(ses, upd, h, new)
  BY <1>2, <1>4, <1>5, TorrentChanges DEF Kept
<1> HIDE DEF upd
<1>7. h \in DOMAIN upd.torrents /\ upd.torrents[h] = new
  BY <1>6 DEF One
<1>8. CASE IsFinished(new) /\ r = Finish(upd, h)
  <2> DEFINE u == [new EXCEPT !.state = "finished"]
  <2>1. SessionOK(r) /\ One(upd, r, h, u)
    BY <1>6, <1>7, <1>8, FinishKeeps
  <2>2. Kept(new, u) /\ u.critical = new.critical
    BY <1>4 DEF TorrentRecs, Kept
  <2> HIDE DEF u
  <2> QED
    BY <1>4, <1>6, <2>1, <2>2 DEF One, Others, Kept
<1>9. CASE r = [upd EXCEPT !.torrents[h].state = "downloading"]
  <2> DEFINE u == [new EXCEPT !.state = "downloading"]
  <2>1. r = [upd EXCEPT !.torrents[h] = u]
    BY <1>7, <1>9
  <2>2. u \in TorrentRecs /\ TorrentOK(u) /\ Kept(new, u) /\ u.critical = new.critical
    <3>1. "downloading" \in TorrentStates /\ new.meta
      BY <1>4 DEF TorrentStates, Kept
    <3>2. u = [new EXCEPT !.state = "downloading"]
      OBVIOUS
    <3> HIDE DEF u
    <3> QED
      BY <1>4, <1>5, <3>1, <3>2, InState DEF Kept
  <2> HIDE DEF u
  <2>3. SessionOK(r) /\ One(upd, r, h, u)
    BY <1>6, <1>7, <2>1, <2>2, TorrentChanges DEF Kept
  <2> QED
    BY <1>4, <1>6, <2>2, <2>3 DEF One, Others, Kept
<1> QED
  BY <1>3, <1>7, <1>8, <1>9

LEMMA ReceiveMetadataKeeps ==
    ASSUME NEW ses, SessionOK(ses), NEW h \in DOMAIN ses.torrents,
           NEW r, r = ReceiveMetadata(ses, h)
    PROVE  LET t == ses.torrents[h]
               u == r.torrents[h]
           IN  /\ SessionOK(r) /\ Others(ses, r, h)
               /\ u.src = t.src /\ u.meta /\ u.inSession = t.inSession
               /\ u.have = t.have /\ u.critical = t.critical
<1> DEFINE t == ses.torrents[h]
           new == [t EXCEPT !.meta = TRUE, !.state = "checking"]
           upd == [ses EXCEPT !.torrents[h] = new]
<1>1. t \in TorrentRecs /\ TorrentOK(t)
  BY TorrentAt
<1>2. r = Post(upd, "metadata_received", h)
  BY DEF ReceiveMetadata
<1>3. /\ new \in TorrentRecs /\ new.src = t.src /\ new.meta = TRUE /\ new.inSession = t.inSession
      /\ new.have = t.have /\ new.critical = t.critical /\ new.prio = t.prio
  BY <1>1 DEF TorrentRecs, TorrentStates
<1> HIDE DEF new
<1>4. TorrentOK(new)
  BY <1>1, <1>3 DEF TorrentOK
<1>5. SessionOK(upd) /\ One(ses, upd, h, new)
  BY <1>3, <1>4, TorrentChanges
<1> HIDE DEF upd
<1>6. "metadata_received" \in Types
  BY StreamerAssumption DEF StreamerAssumption
<1>7. AlertOK(upd.torrents, [type |-> "metadata_received", about |-> h, lost |-> {}])
  BY <1>3, <1>5 DEF AlertOK, One
<1>8. SessionOK(r) /\ r.torrents = upd.torrents /\ r.paused = upd.paused
  BY <1>2, <1>5, <1>6, <1>7, Posted DEF One
<1> QED
  BY <1>3, <1>5, <1>8 DEF One, Others

LEMMA ResumedKeeps ==
    ASSUME NEW ses, SessionOK(ses), NEW h \in DOMAIN ses.torrents,
           NEW r, r = [ses EXCEPT !.torrents[h].paused = FALSE]
    PROVE  /\ SessionOK(r) /\ Others(ses, r, h) /\ Kept(ses.torrents[h], r.torrents[h])
           /\ r.torrents[h].critical = ses.torrents[h].critical
<1> DEFINE t == ses.torrents[h]
           new == [t EXCEPT !.paused = FALSE]
<1>1. t \in TorrentRecs /\ TorrentOK(t)
  BY TorrentAt
<1>2. r = [ses EXCEPT !.torrents[h] = new]
  OBVIOUS
<1>3. /\ new \in TorrentRecs /\ Kept(t, new) /\ new.critical = t.critical /\ new.prio = t.prio
      /\ new.state = t.state
  BY <1>1 DEF TorrentRecs, Kept
<1> HIDE DEF new
<1>4. TorrentOK(new)
  BY <1>1, <1>3, FlagsKept
<1>5. SessionOK(r) /\ One(ses, r, h, new)
  BY <1>2, <1>3, <1>4, TorrentChanges DEF Kept
<1> QED
  BY <1>3, <1>5 DEF One, Others

LEMMA ReadCompleteKeeps ==
    ASSUME NEW ses, SessionOK(ses), NEW h \in DOMAIN ses.torrents, ses.torrents[h].reading > 0,
           NEW r, r = ReadComplete(ses, h)
    PROVE  /\ SessionOK(r) /\ Others(ses, r, h) /\ Kept(ses.torrents[h], r.torrents[h])
           /\ r.torrents[h].critical = ses.torrents[h].critical
<1> DEFINE t == ses.torrents[h]
           new == [t EXCEPT !.reading = t.reading - 1]
           m == [ses EXCEPT !.torrents[h].reading = t.reading - 1]
<1>1. t \in TorrentRecs /\ TorrentOK(t)
  BY TorrentAt
<1>2. m = [ses EXCEPT !.torrents[h] = new] /\ r = Post(m, "read_piece", h)
  BY DEF ReadComplete
<1>3. t.reading - 1 \in Nat
  BY <1>1 DEF TorrentRecs
<1>4. /\ new \in TorrentRecs /\ Kept(t, new) /\ new.critical = t.critical /\ new.prio = t.prio
      /\ new.state = t.state
  BY <1>1, <1>3 DEF TorrentRecs, Kept
<1> HIDE DEF new
<1>5. TorrentOK(new)
  BY <1>1, <1>4, FlagsKept
<1>6. SessionOK(m) /\ One(ses, m, h, new)
  BY <1>2, <1>4, <1>5, TorrentChanges DEF Kept
<1> HIDE DEF m
<1>7. /\ "read_piece" \in Types /\ h \in DOMAIN m.torrents
      /\ AlertOK(m.torrents, [type |-> "read_piece", about |-> h, lost |-> {}])
  BY <1>6, StreamerAssumption DEF StreamerAssumption, AlertOK, One
<1>8. SessionOK(r) /\ r.torrents = m.torrents /\ r.paused = m.paused
  <2>1. r = Post(m, "read_piece", h)
    BY <1>2
  <2> QED
    BY <1>6, <1>7, <2>1, Posted
<1> QED
  BY <1>4, <1>6, <1>8 DEF One, Others
-----------------------------------------------------------------------------
(* Stopping, removing and adding *)

(* The torrents keep what Kept says, and their deadlines. *)
Calm(ses, r) ==
    /\ DOMAIN r.torrents = DOMAIN ses.torrents
    /\ \A k \in DOMAIN ses.torrents :
          /\ Kept(ses.torrents[k], r.torrents[k])
          /\ r.torrents[k].critical = ses.torrents[k].critical

LEMMA CalmTransitive ==
    ASSUME NEW a, NEW b, NEW c, Calm(a, b), Calm(b, c)
    PROVE  Calm(a, c)
BY DEF Calm, Kept

LEMMA FlagChanges ==
    ASSUME NEW ses, SessionOK(ses), NEW h \in DOMAIN ses.torrents,
           NEW u \in TorrentRecs, Kept(ses.torrents[h], u),
           u.critical = ses.torrents[h].critical, u.prio = ses.torrents[h].prio,
           u.state = ses.torrents[h].state,
           NEW r, r = [ses EXCEPT !.torrents[h] = u]
    PROVE  SessionOK(r) /\ Calm(ses, r) /\ r.paused = ses.paused
<1>1. ses.torrents[h] \in TorrentRecs /\ TorrentOK(ses.torrents[h])
  BY TorrentAt
<1>2. TorrentOK(u)
  BY <1>1, FlagsKept
<1>3. SessionOK(r) /\ One(ses, r, h, u)
  BY <1>2, TorrentChanges DEF Kept
<1> QED
  BY <1>3 DEF One, Calm, Kept

LEMMA PauseKeeps ==
    ASSUME NEW ses, SessionOK(ses), NEW h \in DOMAIN ses.torrents, NEW r, r = Pause(ses, h)
    PROVE  SessionOK(r) /\ Calm(ses, r)
<1> DEFINE t == ses.torrents[h]
           u == [t EXCEPT !.needSave = t.needSave \/ ~ t.paused, !.paused = TRUE]
<1>1. t \in TorrentRecs
  BY TorrentAt
<1>2. r = [ses EXCEPT !.torrents[h] = u]
  BY DEF Pause
<1>3. /\ u \in TorrentRecs /\ Kept(t, u) /\ u.critical = t.critical /\ u.prio = t.prio
      /\ u.state = t.state
  BY <1>1 DEF TorrentRecs, Kept
<1> HIDE DEF u
<1> QED
  BY <1>2, <1>3, FlagChanges

LEMMA IgnoredPosted ==
    ASSUME NEW ses, SessionOK(ses), NEW h \in DOMAIN ses.torrents,
           NEW type \in {"ignored", "save_resume_data"}, NEW r, r = Post(ses, type, h)
    PROVE  SessionOK(r) /\ Calm(ses, r) /\ r.paused = ses.paused
<1>1. type \in Types
  BY StreamerAssumption DEF StreamerAssumption
<1>2. AlertOK(ses.torrents, [type |-> type, about |-> h, lost |-> {}])
  BY DEF AlertOK
<1>3. SessionOK(r) /\ r.torrents = ses.torrents /\ r.paused = ses.paused
  BY <1>1, <1>2, Posted
<1> QED
  BY <1>3 DEF Calm, Kept

LEMMA SaveResumeDataKeeps ==
    ASSUME NEW ses, SessionOK(ses), NEW h \in DOMAIN ses.torrents,
           NEW r, r = SaveResumeData(ses, h)
    PROVE  SessionOK(r) /\ Calm(ses, r)
<1> DEFINE t == ses.torrents[h]
           u == [t EXCEPT !.needSave = FALSE]
           m == [ses EXCEPT !.torrents[h].needSave = FALSE]
<1>1. t \in TorrentRecs
  BY TorrentAt
<1>2. m = [ses EXCEPT !.torrents[h] = u]
  OBVIOUS
<1>3. /\ u \in TorrentRecs /\ Kept(t, u) /\ u.critical = t.critical /\ u.prio = t.prio
      /\ u.state = t.state
  BY <1>1 DEF TorrentRecs, Kept
<1> HIDE DEF u
<1>4. SessionOK(m) /\ Calm(ses, m)
  BY <1>2, <1>3, FlagChanges
<1>5. r = IF t.meta THEN Post(m, "save_resume_data", h) ELSE Post(ses, "ignored", h)
  BY DEF SaveResumeData
<1> HIDE DEF m
<1>6. h \in DOMAIN m.torrents
  BY <1>4 DEF Calm
<1>7. CASE r = Post(m, "save_resume_data", h)
  <2>1. SessionOK(r) /\ Calm(m, r)
    BY <1>4, <1>6, <1>7, IgnoredPosted
  <2> QED
    BY <1>4, <2>1, CalmTransitive
<1>8. CASE r = Post(ses, "ignored", h)
  BY <1>8, IgnoredPosted
<1> QED
  BY <1>5, <1>7, <1>8

LEMMA SetPaused ==
    ASSUME NEW ses, SessionOK(ses), NEW b \in BOOLEAN, NEW r, r = [ses EXCEPT !.paused = b]
    PROVE  SessionOK(r) /\ Calm(ses, r) /\ r.paused = b /\ r.torrents = ses.torrents
<1>1. ses \in SessionRecs
  BY DEF SessionOK
<1>2. r \in SessionRecs /\ r.torrents = ses.torrents /\ r.queue = ses.queue /\ r.paused = b
  BY <1>1 DEF SessionRecs
<1> QED
  BY <1>2 DEF SessionOK, Calm, Kept

LEMMA StopTorrentKeeps ==
    ASSUME NEW ses, SessionOK(ses), NEW h \in DOMAIN ses.torrents, NEW delete,
           NEW r, r = StopTorrent(ses, h, delete)
    PROVE  SessionOK(r) /\ Calm(ses, r) /\ r.paused
<1> DEFINE paused == Pause(ses, h)
           saved == IF ~ delete /\ paused.torrents[h].needSave
                    THEN SaveResumeData(paused, h) ELSE paused
<1>1. SessionOK(paused) /\ Calm(ses, paused)
  BY PauseKeeps
<1>2. h \in DOMAIN paused.torrents
  BY <1>1 DEF Calm
<1>3. SessionOK(saved) /\ Calm(ses, saved)
  <2> HIDE DEF paused
  <2>1. CASE saved = paused
    BY <1>1, <2>1
  <2>2. CASE saved = SaveResumeData(paused, h)
    <3>1. SessionOK(saved) /\ Calm(paused, saved)
      BY <1>1, <1>2, <2>2, SaveResumeDataKeeps
    <3> QED
      BY <1>1, <3>1, CalmTransitive
  <2> QED
    BY <2>1, <2>2
<1>4. r = [saved EXCEPT !.paused = TRUE]
  BY DEF StopTorrent
<1> HIDE DEF saved
<1>5. SessionOK(r) /\ Calm(saved, r) /\ r.paused
  BY <1>3, <1>4, SetPaused
<1> QED
  BY <1>3, <1>5, CalmTransitive

LEMMA LeastNumber ==
    ASSUME NEW B \in SUBSET Nat, B # {}
    PROVE  \E n \in B : \A m \in B : n <= m
<1>1. \E n \in B : \A m \in B : ~ (<<m, n>> \in OpToRel(<, Nat))
  BY NatLessThanWellFounded, WFMin
<1>2. OpToRel(<, Nat) = {p \in Nat \X Nat : p[1] < p[2]}
  BY DEF OpToRel
<1>3. ASSUME NEW n \in Nat, NEW m \in Nat, ~ (<<m, n>> \in OpToRel(<, Nat)) PROVE n <= m
  <2>1. ~ (<<m, n>> \in {p \in Nat \X Nat : p[1] < p[2]})
    BY ONLY <1>2, <1>3
  <2> QED
    BY ONLY <2>1, n \in Nat, m \in Nat
<1> QED
  BY <1>1, <1>3

(* The recursive function of StopAll exists: on the fewest torrents for    *)
(* which it did not, it could be made from the one before.                 *)
StopNext(ses, delete, n, prev) ==
    IF n \in Torrents(ses) THEN StopTorrent(prev, n, delete) ELSE prev

Stops(ses, delete, n, f) ==
    f = [i \in 0 .. n |-> IF i = 0 THEN ses ELSE StopNext(ses, delete, i, f[i - 1])]

LEMMA StopsExists ==
    ASSUME NEW ses, NEW delete, NEW n \in Nat
    PROVE  \E f : Stops(ses, delete, n, f)
<1> DEFINE B == {m \in Nat : ~ \E f : Stops(ses, delete, m, f)}
<1>1. SUFFICES ASSUME B # {} PROVE FALSE
  OBVIOUS
<1>2. PICK m \in B : \A k \in B : m <= k
  <2>1. B \in SUBSET Nat
    OBVIOUS
  <2> HIDE DEF B
  <2> QED
    BY <1>1, <2>1, LeastNumber
<1>3. m # 0
  <2>1. Stops(ses, delete, 0, [i \in 0 .. 0 |-> ses])
    BY DEF Stops
  <2> QED
    BY <2>1
<1>4. m - 1 \in Nat /\ m - 1 \notin B
  BY <1>2, <1>3
<1>5. PICK g : Stops(ses, delete, m - 1, g)
  BY <1>4
<1> DEFINE next == StopNext(ses, delete, m, g[m - 1])
           f == [i \in 0 .. m |-> IF i = m THEN next ELSE g[i]]
<1>6. \A i \in 0 .. m - 1 : g[i] = IF i = 0 THEN ses ELSE StopNext(ses, delete, i, g[i - 1])
  BY <1>5 DEF Stops
<1>7. ASSUME NEW i \in 0 .. m
      PROVE  f[i] = IF i = 0 THEN ses ELSE StopNext(ses, delete, i, f[i - 1])
  <2>1. CASE i = m
    <3>1. m - 1 \in 0 .. m /\ m - 1 # m
      BY <1>4
    <3>2. f[m - 1] = g[m - 1] /\ f[m] = next
      BY <3>1
    <3> HIDE DEF f
    <3> QED
      BY <1>3, <2>1, <3>2
  <2>2. CASE i # m
    <3>1. i \in 0 .. m - 1 /\ (i # 0 => i - 1 \in 0 .. m /\ i - 1 # m)
      BY <1>4, <2>2
    <3>2. f[i] = g[i] /\ (i # 0 => f[i - 1] = g[i - 1])
      BY <2>2, <3>1
    <3> HIDE DEF f
    <3> QED
      BY <1>6, <3>1, <3>2
  <2> QED
    BY <2>1, <2>2
<1>8. f = [i \in 0 .. m |-> f[i]]
  OBVIOUS
<1> HIDE DEF f
<1>9. Stops(ses, delete, m, f)
  BY <1>7, <1>8 DEF Stops
<1> QED
  BY <1>9

(* All torrents of the session are stopped, and the session is paused if   *)
(* there is one.                                                           *)
LEMMA StopAllKeeps ==
    ASSUME NEW ses, SessionOK(ses), NEW delete, NEW r, r = StopAll(ses, delete)
    PROVE  /\ SessionOK(r) /\ Calm(ses, r)
           /\ r.paused \/ \A h \in DOMAIN r.torrents : ~ r.torrents[h].inSession
           /\ ses.torrents = <<>> => r = ses
<1> DEFINE N == Len(ses.torrents)
<1>1. N \in Nat /\ DOMAIN ses.torrents = 1 .. N
  BY DEF SessionOK, SessionRecs
<1>2. PICK g : Stops(ses, delete, N, g)
  BY <1>1, StopsExists
<1>3. PICK f : Stops(ses, delete, N, f) /\ r = f[N]
  <2> DEFINE c == CHOOSE f : Stops(ses, delete, N, f)
  <2>1. r = c[N]
    BY DEF StopAll, Stops, StopNext
  <2>2. Stops(ses, delete, N, c)
    BY <1>2
  <2> QED
    BY <2>1, <2>2
<1>4. \A i \in 0 .. N : f[i] = IF i = 0 THEN ses ELSE StopNext(ses, delete, i, f[i - 1])
  BY <1>3 DEF Stops
<1> DEFINE Upto(n) == /\ SessionOK(f[n]) /\ Calm(ses, f[n])
                      /\ f[n].paused \/ \A h \in 1 .. n : h \notin Torrents(ses)
           B == {n \in 0 .. N : ~ Upto(n)}
<1>5. B = {}
  <2>1. SUFFICES ASSUME B # {} PROVE FALSE
    OBVIOUS
  <2>2. PICK n \in B : \A k \in B : n <= k
    <3>1. B \in SUBSET Nat
      BY <1>1
    <3> HIDE DEF B
    <3> QED
      BY <2>1, <3>1, LeastNumber
  <2>3. n # 0
    <3>1. f[0] = ses
      BY <1>1, <1>4
    <3>2. Upto(0)
      BY <3>1 DEF Calm, Kept
    <3> QED
      BY <3>2
  <2>4. n \in 1 .. N /\ n - 1 \in 0 .. N /\ n - 1 \notin B
    <3>1. n \in 0 .. N
      OBVIOUS
    <3>2. n \in 1 .. N /\ n - 1 \in 0 .. N /\ ~ (n <= n - 1)
      BY <1>1, <2>3, <3>1
    <3> HIDE DEF B
    <3> QED
      BY <2>2, <3>2
  <2>5. /\ SessionOK(f[n - 1]) /\ Calm(ses, f[n - 1])
        /\ f[n - 1].paused \/ \A h \in 1 .. n - 1 : h \notin Torrents(ses)
    BY <2>4
  <2>6. f[n] = StopNext(ses, delete, n, f[n - 1])
    BY <1>4, <2>3, <2>4
  <2>7. CASE n \in Torrents(ses)
    <3>1. f[n] = StopTorrent(f[n - 1], n, delete)
      BY <2>6, <2>7 DEF StopNext
    <3>2. n \in DOMAIN f[n - 1].torrents
      BY <1>1, <2>4, <2>5 DEF Calm
    <3>3. SessionOK(f[n]) /\ Calm(f[n - 1], f[n]) /\ f[n].paused
      BY <2>5, <3>1, <3>2, StopTorrentKeeps
    <3>4. Upto(n)
      BY <2>5, <3>3, CalmTransitive
    <3> QED
      BY <3>4
  <2>8. CASE n \notin Torrents(ses)
    <3>1. f[n] = f[n - 1]
      BY <2>6, <2>8 DEF StopNext
    <3>2. \A h \in 1 .. n : h = n \/ h \in 1 .. n - 1
      BY <2>4
    <3>3. Upto(n)
      BY <2>5, <2>8, <3>1, <3>2
    <3> QED
      BY <3>3
  <2> QED
    BY <2>7, <2>8
<1>6. Upto(N)
  <2>1. N \in 0 .. N
    BY <1>1
  <2> HIDE DEF Upto
  <2> QED
    BY <1>5, <2>1
<1>7. r.paused \/ \A h \in DOMAIN r.torrents : ~ r.torrents[h].inSession
  BY <1>1, <1>3, <1>6 DEF Torrents, Calm, Kept
<1>8. ses.torrents = <<>> => r = ses
  <2>1. ses.torrents = <<>> => N = 0
    OBVIOUS
  <2> QED
    BY <1>1, <1>3, <1>4, <2>1
<1> QED
  BY <1>3, <1>6, <1>7, <1>8

(* What the main thread leaves of the torrents, all in all: it may remove  *)
(* some.                                                                   *)
Keeps(ses, r) ==
    /\ DOMAIN r.torrents = DOMAIN ses.torrents
    /\ \A k \in DOMAIN ses.torrents :
          /\ r.torrents[k].src = ses.torrents[k].src
          /\ r.torrents[k].have = ses.torrents[k].have
          /\ r.torrents[k].meta = ses.torrents[k].meta
          /\ r.torrents[k].inSession => ses.torrents[k].inSession

LEMMA OthersKeeps ==
    ASSUME NEW ses, NEW h \in DOMAIN ses.torrents, NEW r,
           Others(ses, r, h), Kept(ses.torrents[h], r.torrents[h])
    PROVE  Keeps(ses, r)
<1>1. \A k \in DOMAIN ses.torrents : k = h \/ r.torrents[k] = ses.torrents[k]
  BY DEF Others
<1> QED
  BY <1>1 DEF Others, Kept, Keeps

LEMMA CalmKeeps ==
    ASSUME NEW ses, NEW r, Calm(ses, r)
    PROVE  Keeps(ses, r)
BY DEF Calm, Kept, Keeps

LEMMA RemovedKeeps ==
    ASSUME NEW t \in TorrentRecs, TorrentOK(t), NEW u, u = Removed(t)
    PROVE  /\ u \in TorrentRecs /\ TorrentOK(u)
           /\ u.src = t.src /\ u.have = t.have /\ u.meta = t.meta /\ u.critical = t.critical
           /\ u.inSession = FALSE
<1>1. /\ u \in TorrentRecs /\ u.src = t.src /\ u.have = t.have /\ u.meta = t.meta
      /\ u.critical = t.critical /\ u.inSession = FALSE /\ u.prio = t.prio /\ u.state = t.state
  BY DEF TorrentRecs, Removed
<1>2. TorrentOK(u)
  BY <1>1 DEF TorrentOK
<1> QED
  BY <1>1, <1>2

LEMMA RemoveTorrentKeeps ==
    ASSUME NEW ses, SessionOK(ses), NEW h \in DOMAIN ses.torrents,
           NEW r, r = RemoveTorrent(ses, h)
    PROVE  /\ SessionOK(r) /\ Keeps(ses, r) /\ r.paused = ses.paused
           /\ \A k \in DOMAIN ses.torrents :
                 \/ r.torrents[k] = ses.torrents[k]
                 \/ ~ r.torrents[k].inSession
<1> DEFINE t == ses.torrents[h]
           u == Removed(t)
<1>1. t \in TorrentRecs /\ TorrentOK(t)
  BY TorrentAt
<1>2. r = [ses EXCEPT !.torrents[h] = u]
  BY DEF RemoveTorrent
<1>3. /\ u \in TorrentRecs /\ TorrentOK(u)
      /\ u.src = t.src /\ u.have = t.have /\ u.meta = t.meta /\ u.inSession = FALSE
  BY <1>1, RemovedKeeps
<1> HIDE DEF u
<1>4. SessionOK(r) /\ One(ses, r, h, u)
  BY <1>2, <1>3, TorrentChanges
<1>5. \A k \in DOMAIN ses.torrents : k # h => r.torrents[k] = ses.torrents[k]
  BY <1>4 DEF One
<1> QED
  BY <1>3, <1>4, <1>5 DEF One, Keeps

LEMMA RemoveAllKeeps ==
    ASSUME NEW ses, SessionOK(ses), NEW r, r = RemoveAll(ses)
    PROVE  /\ SessionOK(r) /\ Keeps(ses, r) /\ r.paused = ses.paused
           /\ \A k \in DOMAIN ses.torrents :
                 \/ r.torrents[k] = ses.torrents[k]
                 \/ ~ r.torrents[k].inSession
<1> DEFINE old == ses.torrents
           new == [h \in DOMAIN old |-> IF h \in Torrents(ses) THEN Removed(old[h]) ELSE old[h]]
<1>1. ses \in SessionRecs /\ old \in Seq(TorrentRecs)
  BY DEF SessionOK, SessionRecs
<1>2. r = [ses EXCEPT !.torrents = new]
  BY DEF RemoveAll
<1>3. DOMAIN new = DOMAIN old
  OBVIOUS
<1>4. ASSUME NEW k \in DOMAIN old
      PROVE  /\ new[k] \in TorrentRecs /\ TorrentOK(new[k])
             /\ new[k].src = old[k].src /\ new[k].have = old[k].have /\ new[k].meta = old[k].meta
             /\ new[k].inSession => old[k].inSession
             /\ new[k] = old[k] \/ ~ new[k].inSession
  <2>1. old[k] \in TorrentRecs /\ TorrentOK(old[k])
    BY TorrentAt
  <2>2. new[k] = old[k] \/ new[k] = Removed(old[k])
    OBVIOUS
  <2> HIDE DEF new, old
  <2> QED
    BY <2>1, <2>2, RemovedKeeps
<1> HIDE DEF new
<1>5. new \in Seq(TorrentRecs)
  <2>1. DOMAIN old = 1 .. Len(old) /\ Len(old) \in Nat
    BY <1>1
  <2>2. new \in [1 .. Len(old) -> TorrentRecs]
    BY <1>3, <1>4, <2>1 DEF new
  <2> QED
    BY <2>1, <2>2
<1>6. /\ r \in SessionRecs /\ r.torrents = new /\ r.paused = ses.paused /\ r.queue = ses.queue
  BY <1>1, <1>2, <1>5 DEF SessionRecs
<1>7. ASSUME NEW i \in DOMAIN ses.queue
      PROVE  AlertOK(new, ses.queue[i])
  <2>1. AlertOK(old, ses.queue[i])
    BY DEF SessionOK
  <2> HIDE DEF old
  <2> QED
    BY <1>3, <1>4, <2>1 DEF AlertOK
<1>8. SessionOK(r)
  BY <1>3, <1>4, <1>6, <1>7 DEF SessionOK
<1> QED
  BY <1>3, <1>4, <1>6, <1>8 DEF Keeps

LEMMA NewTorrentOK ==
    ASSUME NEW src \in Sources, NEW known \in SUBSET Pieces(src),
           NEW t, t = NewTorrent(src, known)
    PROVE  /\ t \in TorrentRecs /\ TorrentOK(t)
           /\ t.src = src /\ t.have = known /\ t.critical = {} /\ t.inSession
<1> DEFINE prio == [p \in Pieces(src) |-> DefaultPriority]
<1>1. prio \in [Pieces(src) -> 0 .. TopPriority] /\ \A p \in Pieces(src) : prio[p] # DontDownload
  BY DEF DefaultPriority, TopPriority, DontDownload
<1>2. prio \in Prios /\ known \subseteq Int
  BY <1>1, Geometry DEF Prios
<1>3. t = [src |-> src, inSession |-> TRUE, meta |-> src \notin Magnets,
           state |-> IF src \in Magnets THEN "downloading_metadata" ELSE "checking",
           have |-> known, prio |-> prio, critical |-> {}, reading |-> 0,
           paused |-> TRUE, needSave |-> TRUE]
  BY DEF NewTorrent
<1> HIDE DEF prio
<1>4. /\ t \in TorrentRecs /\ t.src = src /\ t.have = known /\ t.critical = {} /\ t.inSession
      /\ t.meta = (src \notin Magnets) /\ t.prio = prio
      /\ (src \in Magnets) => t.state = "downloading_metadata"
  BY <1>2, <1>3 DEF TorrentRecs, TorrentStates
<1>5. SingleFiles => FilePieces(src, 0) \subseteq Pieces(src)
  BY Geometry
<1>6. TorrentOK(t)
  BY <1>1, <1>4, <1>5 DEF TorrentOK
<1> QED
  BY <1>4, <1>6

LEMMA AddTorrentKeeps ==
    ASSUME NEW ses, SessionOK(ses), NEW src \in Sources, NEW known \in SUBSET Pieces(src),
           Len(ses.torrents) + 1 \in Subjects, NEW r, r = AddTorrent(ses, src, known)
    PROVE  /\ SessionOK(r) /\ Len(r.torrents) <= Len(ses.torrents) + 1
           /\ r.paused = ses.paused
           /\ Known(r, src) # {}
           /\ \A k \in DOMAIN ses.torrents :
                 k \in DOMAIN r.torrents /\ r.torrents[k] = ses.torrents[k]
           /\ \A k \in DOMAIN r.torrents :
                 \/ k \in DOMAIN ses.torrents /\ r.torrents[k] = ses.torrents[k]
                 \/ k = Len(ses.torrents) + 1 /\ r.torrents[k] = NewTorrent(src, known)
<1> DEFINE old == ses.torrents
           t == NewTorrent(src, known)
           new == Append(old, t)
<1>1. ses \in SessionRecs /\ old \in Seq(TorrentRecs) /\ Len(old) \in Nat
  BY DEF SessionOK, SessionRecs
<1>2. CASE Known(ses, src) # {}
  <2>1. r = ses
    BY <1>2 DEF AddTorrent
  <2> QED
    BY <1>1, <1>2, <2>1
<1>3. CASE Known(ses, src) = {}
  <2>1. r = [ses EXCEPT !.torrents = new]
    BY <1>3 DEF AddTorrent
  <2>2. t \in TorrentRecs /\ TorrentOK(t) /\ t.src = src /\ t.inSession
    BY NewTorrentOK
  <2> HIDE DEF t
  <2>3. /\ new \in Seq(TorrentRecs) /\ Len(new) = Len(old) + 1
        /\ Len(old) + 1 \in DOMAIN new /\ new[Len(old) + 1] = t
        /\ \A k \in DOMAIN old : k \in DOMAIN new /\ new[k] = old[k]
        /\ \A k \in DOMAIN new : (k = Len(old) + 1 /\ new[k] = t) \/ (k \in DOMAIN old /\ new[k] = old[k])
    BY <1>1, <2>2
  <2> HIDE DEF new
  <2>4. r \in SessionRecs /\ r.torrents = new /\ r.paused = ses.paused /\ r.queue = ses.queue
    BY <1>1, <2>1, <2>3 DEF SessionRecs
  <2>5. ASSUME NEW i \in DOMAIN ses.queue
        PROVE  AlertOK(new, ses.queue[i])
    <3>1. AlertOK(old, ses.queue[i])
      BY DEF SessionOK
    <3> HIDE DEF old
    <3> QED
      BY <2>3, <3>1 DEF AlertOK
  <2>6. DOMAIN new \subseteq Subjects /\ \A k \in DOMAIN new : TorrentOK(new[k])
    BY <2>2, <2>3 DEF SessionOK
  <2>7. SessionOK(r)
    BY <2>4, <2>5, <2>6 DEF SessionOK
  <2>8. Len(old) + 1 \in Known(r, src)
    BY <2>2, <2>3, <2>4 DEF Known, Torrents
  <2> QED
    BY <1>1, <2>3, <2>4, <2>7, <2>8 DEF t
<1> QED
  BY <1>2, <1>3
-----------------------------------------------------------------------------
(* The operators on contexts *)

(* The main queue is left as it is. *)
Quiet(q, r) == r = q

Single(ses) == \A h, k \in DOMAIN ses.torrents : h = k

(* What a handler may make of the context c, but for the main queue ... *)
Acts(c, d) ==
    /\ Sound(d)
    /\ d.id = c.id
    /\ d.st.timers <= c.st.timers
    /\ d.st.blocks /\ ~ d.st.streaming => c.st.blocks /\ ~ c.st.streaming
    /\ d.run.ready = c.run.ready /\ d.run.deleted = c.run.deleted
    /\ Keeps(c.ses, d.ses)
    /\ \A src \in Sources : d.disk[src].pieces = c.disk[src].pieces
    /\ Held(c.st, c.ses) => Held(d.st, d.ses)
    /\ Single(c.ses) /\ Follows(c.st, c.ses) => Follows(d.st, d.ses)

(* ... and with it: all handlers but three. *)
Works(c, d) == Acts(c, d) /\ Quiet(c.main, d.main)

LEMMA Fields ==
    ASSUME NEW c, Sound(c)
    PROVE  /\ c \in Contexts /\ c.id \in Streamers /\ c.st \in StreamerRecs
           /\ c.ses \in SessionRecs /\ c.glob \in GlobalRecs /\ c.main \in Seq(Blocks)
           /\ c.disk \in [Sources -> Dirs] /\ c.fault \in Faults /\ c.run \in RunRecs
           /\ c.st.timers \in Nat
           /\ SessionOK(c.ses) /\ GlobalOK(c.glob) /\ DiskOK(c.disk) /\ StreamerOK(c.st)
<1>1. /\ c \in Contexts /\ c.id \in Streamers /\ c.st \in StreamerRecs
      /\ c.ses \in SessionRecs /\ c.glob \in GlobalRecs /\ c.main \in Seq(Blocks)
      /\ c.disk \in [Sources -> Dirs] /\ c.fault \in Faults /\ c.run \in RunRecs
  BY DEF Sound, Contexts
<1>2. c.st.timers \in Nat
  BY <1>1 DEF StreamerRecs
<1> QED
  BY <1>1, <1>2 DEF Sound

LEMMA WorksReflexive ==
    ASSUME NEW c, Sound(c)
    PROVE  Works(c, c)
<1>1. c.st.timers \in Nat
  BY Fields
<1> QED
  BY <1>1 DEF Works, Acts, Keeps, Quiet

LEMMA QuietTransitive ==
    ASSUME NEW p, NEW q, NEW r, Quiet(p, q), Quiet(q, r)
    PROVE  Quiet(p, r)
BY DEF Quiet

LEMMA KeepsTransitive ==
    ASSUME NEW p, NEW q, NEW r, Keeps(p, q), Keeps(q, r)
    PROVE  Keeps(p, r)
BY DEF Keeps

LEMMA ActsTransitive ==
    ASSUME NEW c, Sound(c), NEW d, Acts(c, d), NEW e, Acts(d, e)
    PROVE  Acts(c, e)
<1>1. Sound(d) /\ Sound(e)
  BY DEF Acts
<1>2. c.st.timers \in Nat /\ d.st.timers \in Nat /\ e.st.timers \in Nat
  BY <1>1, Fields
<1>3. e.st.timers <= c.st.timers
  BY <1>2 DEF Acts
<1>4. Keeps(c.ses, e.ses)
  BY KeepsTransitive DEF Acts
<1>5. Single(c.ses) => Single(d.ses)
  BY DEF Acts, Keeps, Single
<1>6. \A src \in Sources : e.disk[src].pieces = c.disk[src].pieces
  BY DEF Acts
<1> QED
  BY <1>1, <1>3, <1>4, <1>5, <1>6 DEF Acts

LEMMA WorksTransitive ==
    ASSUME NEW c, Sound(c), NEW d, Works(c, d), NEW e, Works(d, e)
    PROVE  Works(c, e)
BY ActsTransitive, QuietTransitive DEF Works

(* The fields that Works does not look at. *)
LEMMA SameWorks ==
    ASSUME NEW c, Sound(c), NEW d, Sound(d), d.id = c.id,
           d.st.timers = c.st.timers, d.st.blocks = c.st.blocks,
           d.st.streaming = c.st.streaming, d.st.required = c.st.required,
           d.ses = c.ses, d.disk = c.disk, Quiet(c.main, d.main),
           d.run.ready = c.run.ready, d.run.deleted = c.run.deleted
    PROVE  Works(c, d)
<1>1. c.st.timers \in Nat
  BY Fields
<1>2. Held(c.st, c.ses) => Held(d.st, d.ses)
  BY DEF Held
<1>3. Follows(c.st, c.ses) => Follows(d.st, d.ses)
  BY DEF Follows
<1> QED
  BY <1>1, <1>2, <1>3 DEF Works, Acts, Keeps

(* Only the globals, or fault, differ. *)
Asked(c, d) ==
    /\ d.id = c.id /\ d.st = c.st /\ d.ses = c.ses /\ d.main = c.main /\ d.disk = c.disk
    /\ d.run = c.run

LEMMA CrashWorks ==
    ASSUME NEW c, Sound(c), NEW why \in Faults, NEW d, d = Crash(c, why)
    PROVE  Works(c, d) /\ Asked(c, d) /\ d.fault = why
<1>1. c \in Contexts
  BY Fields
<1>2. /\ d \in Contexts /\ d.id = c.id /\ d.st = c.st /\ d.ses = c.ses /\ d.glob = c.glob
      /\ d.main = c.main /\ d.disk = c.disk /\ d.run = c.run /\ d.fault = why
  BY <1>1 DEF Contexts, Crash
<1>3. Sound(d)
  BY <1>2 DEF Sound
<1>4. Quiet(c.main, d.main)
  BY <1>2 DEF Quiet
<1> QED
  BY <1>2, <1>3, <1>4, SameWorks DEF Asked

LEMMA ResetFieldsTyped ==
    ASSUME NEW st \in StreamerRecs, StreamerOK(st), NEW r, r = ResetFields(st)
    PROVE  /\ r \in StreamerRecs /\ StreamerOK(r) /\ r.blocks = FALSE /\ r.required = <<>>
           /\ r.timers = st.timers /\ r.timerLive = st.timerLive
           /\ r.status = ZeroStatus /\ r.fileName = None
           /\ r.streaming = FALSE
<1>1. <<>> \in Seq(Int) /\ ZeroStatus \in Statuses /\ None \in FileNames /\ -1 \in Int
  BY DEF ZeroStatus, Statuses, FileNames
<1>2. r = [st EXCEPT !.required = <<>>, !.blocks = FALSE, !.selectionBlock = FALSE,
                     !.fileName = None, !.firstPiece = -1, !.streaming = FALSE,
                     !.status = ZeroStatus]
  BY DEF ResetFields
<1>3. /\ r \in StreamerRecs /\ r.blocks = FALSE /\ r.required = <<>>
      /\ r.timers = st.timers /\ r.timerLive = st.timerLive
      /\ r.status = ZeroStatus /\ r.fileName = None
      /\ r.streaming = FALSE
  BY <1>1, <1>2 DEF StreamerRecs
<1> QED
  BY <1>3 DEF StreamerOK

LEMMA InvalidateTimerTyped ==
    ASSUME NEW st \in StreamerRecs, StreamerOK(st), NEW r, r = InvalidateTimer(st)
    PROVE  /\ r \in StreamerRecs /\ StreamerOK(r) /\ r.timers <= st.timers
           /\ r.blocks = st.blocks /\ r.required = st.required /\ r.streaming = st.streaming
           /\ r.status = st.status /\ r.fileName = st.fileName /\ r.savePath = st.savePath
<1> DEFINE n == IF st.timerLive THEN st.timers - 1 ELSE st.timers
<1>1. st.timers \in Nat
  BY DEF StreamerRecs
<1>2. n \in Nat /\ n <= st.timers
  BY <1>1 DEF StreamerOK
<1>3. r = [st EXCEPT !.timers = n, !.timerLive = FALSE]
  BY DEF InvalidateTimer
<1> HIDE DEF n
<1>4. /\ r \in StreamerRecs /\ r.timers = n /\ r.timerLive = FALSE
      /\ r.blocks = st.blocks /\ r.required = st.required /\ r.streaming = st.streaming
      /\ r.status = st.status /\ r.fileName = st.fileName /\ r.savePath = st.savePath
  BY <1>2, <1>3 DEF StreamerRecs
<1> QED
  BY <1>2, <1>4 DEF StreamerOK

LEMMA UnselectTyped ==
    ASSUME NEW glob \in GlobalRecs, NEW r, r = [glob EXCEPT !.selectedFileIndex = -1]
    PROVE  r \in GlobalRecs /\ GlobalOK(r)
<1>1. -1 \in FileChoices
  BY DEF FileChoices
<1>2. r \in GlobalRecs /\ r.selectedFileIndex = -1
  BY <1>1 DEF GlobalRecs
<1> QED
  BY <1>2 DEF GlobalOK

LEMMA CancelledWorks ==
    ASSUME NEW c, Sound(c), NEW d, d = Cancelled(c, FALSE)
    PROVE  /\ Works(c, d) /\ Held(d.st, d.ses)
           /\ d.st.blocks = FALSE /\ d.st.required = <<>> /\ d.st.status = ZeroStatus
           /\ d.st.fileName = None
           /\ c.ses.torrents = <<>> => d.ses = c.ses
<1> DEFINE stopped == StopAll(c.ses, FALSE)
           reset == ResetFields(c.st)
           glob == [c.glob EXCEPT !.selectedFileIndex = -1]
<1>1. d = [c EXCEPT !.st = reset, !.ses = stopped, !.glob = glob]
  BY DEF Cancelled
<1>2. /\ SessionOK(stopped) /\ Calm(c.ses, stopped)
      /\ stopped.paused \/ \A h \in DOMAIN stopped.torrents : ~ stopped.torrents[h].inSession
      /\ c.ses.torrents = <<>> => stopped = c.ses
  BY Fields, StopAllKeeps
<1>3. /\ reset \in StreamerRecs /\ StreamerOK(reset) /\ reset.blocks = FALSE
      /\ reset.required = <<>> /\ reset.timers = c.st.timers /\ reset.status = ZeroStatus
      /\ reset.fileName = None
  BY Fields, ResetFieldsTyped
<1>4. glob \in GlobalRecs /\ GlobalOK(glob)
  BY Fields, UnselectTyped
<1> HIDE DEF stopped, reset, glob
<1>5. stopped \in SessionRecs
  BY <1>2 DEF SessionOK
<1>6. /\ d \in Contexts /\ d.id = c.id /\ d.st = reset /\ d.ses = stopped /\ d.glob = glob
      /\ d.main = c.main /\ d.disk = c.disk /\ d.run = c.run /\ d.fault = c.fault
  <2>1. c \in Contexts
    BY Fields
  <2> QED
    BY <1>1, <1>3, <1>4, <1>5, <2>1 DEF Contexts
<1>7. Sound(d)
  BY <1>2, <1>3, <1>4, <1>6, Fields DEF Sound
<1>8. Held(d.st, d.ses) /\ Follows(d.st, d.ses)
  BY <1>2, <1>3, <1>6 DEF Held, Follows
<1>9. Keeps(c.ses, d.ses) /\ Quiet(c.main, d.main)
  BY <1>2, <1>6, CalmKeeps DEF Quiet
<1>10. d.st.timers <= c.st.timers
  <2>1. c.st.timers \in Nat
    BY Fields
  <2>2. d.st.timers = c.st.timers
    BY <1>3, <1>6
  <2> QED
    BY ONLY <2>1, <2>2
<1> QED
  BY <1>2, <1>3, <1>6, <1>7, <1>8, <1>9, <1>10 DEF Works, Acts

LEMMA FailedWorks ==
    ASSUME NEW c, Sound(c), NEW d, d = Failed(c)
    PROVE  Works(c, d) /\ Held(d.st, d.ses)
<1> DEFINE n == IF c.st.blocks THEN c.run.failed + 1 ELSE c.run.failed
           run1 == [c.run EXCEPT !.failed = n]
           told == [c EXCEPT !.run = run1]
<1>1. d = Cancelled(told, FALSE)
  BY DEF Failed
<1>2. c.run \in RunRecs /\ c \in Contexts
  BY Fields
<1>3. n \in Nat
  BY <1>2 DEF RunRecs
<1> HIDE DEF n
<1>4. run1 \in RunRecs /\ run1.ready = c.run.ready /\ run1.deleted = c.run.deleted
  BY <1>2, <1>3 DEF RunRecs
<1> HIDE DEF run1
<1>5. /\ told \in Contexts /\ told.id = c.id /\ told.st = c.st /\ told.ses = c.ses
      /\ told.glob = c.glob /\ told.main = c.main /\ told.disk = c.disk /\ told.run = run1
  BY <1>2, <1>4 DEF Contexts
<1> HIDE DEF told
<1>6. Sound(told)
  BY <1>5 DEF Sound
<1>7. Quiet(c.main, told.main)
  BY <1>5 DEF Quiet
<1>8. Works(c, told)
  BY <1>4, <1>5, <1>6, <1>7, SameWorks
<1>9. Works(told, d) /\ Held(d.st, d.ses)
  BY <1>1, <1>6, CancelledWorks
<1> QED
  BY <1>8, <1>9, WorksTransitive

LEMMA AskedWorks ==
    ASSUME NEW c, Sound(c), NEW d, Sound(d), Asked(c, d)
    PROVE  Works(c, d)
<1>1. Quiet(c.main, d.main)
  BY DEF Asked, Quiet
<1> QED
  BY <1>1, SameWorks DEF Asked

LEMMA GlobalsWork ==
    ASSUME NEW c, Sound(c), NEW glob \in GlobalRecs, GlobalOK(glob),
           NEW d, d = [c EXCEPT !.glob = glob]
    PROVE  Sound(d) /\ Asked(c, d) /\ d.glob = glob /\ d.fault = c.fault
<1>1. c \in Contexts
  BY Fields
<1>2. d \in Contexts /\ Asked(c, d) /\ d.glob = glob /\ d.fault = c.fault
  BY <1>1 DEF Contexts, Asked
<1> QED
  BY <1>2, Fields DEF Sound, Asked

LEMMA OneFile ==
    ASSUME NEW src \in Sources, SingleFiles
    PROVE  Cardinality(DOMAIN Files[src]) = 1 /\ FileIndices = {0}
<1>1. Cardinality({0}) = 1
  BY FS_Singleton
<1>2. DOMAIN Files[src] = {0}
  BY DEF SingleFiles
<1>3. FileIndices = {0}
  BY DEF SingleFiles, FileIndices
<1> QED
  BY <1>1, <1>2, <1>3

LEMMA ChooseFileWorks ==
    ASSUME NEW c, Sound(c), NEW src \in Sources, NEW pick \in FileIndices,
           NEW r, r = ChooseFile(c, src, pick)
    PROVE  /\ Sound(r.ctx) /\ Asked(c, r.ctx)
           /\ r.file \in FileChoices /\ (SingleFiles => r.file = 0)
<1> DEFINE g1 == [c.glob EXCEPT !.shouldUserSelectFiles = FALSE]
           asked == [c EXCEPT !.glob = g1]
<1>1. c.glob \in GlobalRecs /\ GlobalOK(c.glob)
  BY Fields
<1>2. c.glob.selectedFileIndex \in FileChoices
  BY <1>1 DEF GlobalRecs
<1>3. /\ g1 \in GlobalRecs /\ g1.selectedFileIndex = c.glob.selectedFileIndex
  BY <1>1 DEF GlobalRecs
<1> HIDE DEF g1
<1>4. GlobalOK(g1)
  BY <1>1, <1>3 DEF GlobalOK
<1>5. Sound(asked) /\ Asked(c, asked) /\ asked.glob = g1
  BY <1>3, <1>4, GlobalsWork
<1>6. SingleFiles => pick = 0
  BY OneFile
<1>7. pick \in FileChoices /\ 0 \in FileChoices /\ IndexOfLargestFile(src) \in FileChoices
  BY DEF FileChoices
<1>8. r = IF c.glob.shouldUserSelectFiles
          THEN IF c.glob.selectedFileIndex # -1
               THEN [file |-> c.glob.selectedFileIndex, ctx |-> asked]
               ELSE IF ~ c.st.selectionBlock
               THEN [file |-> pick, ctx |-> Crash(asked, "nil_block")]
               ELSE [file |-> pick, ctx |-> [asked EXCEPT !.glob.selectedFileIndex = pick]]
          ELSE IF Cardinality(DOMAIN Files[src]) > 1
          THEN [file |-> IndexOfLargestFile(src),
                ctx |-> [c EXCEPT !.glob.selectedFileIndex = IndexOfLargestFile(src)]]
          ELSE [file |-> 0, ctx |-> c]
  BY DEF ChooseFile, g1
<1> HIDE DEF asked
<1>9. CASE c.glob.selectedFileIndex # -1 /\ r = [file |-> c.glob.selectedFileIndex, ctx |-> asked]
  <2>1. r.file = c.glob.selectedFileIndex /\ r.ctx = asked
    BY <1>9
  <2> QED
    BY <1>1, <1>2, <1>5, <1>9, <2>1 DEF GlobalOK
<1>10. CASE r = [file |-> pick, ctx |-> Crash(asked, "nil_block")]
  <2> DEFINE d == Crash(asked, "nil_block")
  <2>1. r.file = pick /\ r.ctx = d
    BY <1>10
  <2>2. Sound(d) /\ Asked(asked, d)
    <3>1. "nil_block" \in Faults
      BY DEF Faults
    <3> QED
      BY <1>5, <3>1, CrashWorks DEF Works, Acts
  <2> HIDE DEF d
  <2>3. Asked(c, d)
    BY <1>5, <2>2 DEF Asked
  <2> QED
    BY <1>6, <1>7, <2>1, <2>2, <2>3
<1>11. CASE r = [file |-> pick, ctx |-> [asked EXCEPT !.glob.selectedFileIndex = pick]]
  <2> DEFINE g2 == [asked.glob EXCEPT !.selectedFileIndex = pick]
             d == [asked EXCEPT !.glob = g2]
  <2>1. r.file = pick /\ r.ctx = d
    BY <1>11
  <2>2. g2 \in GlobalRecs /\ g2.selectedFileIndex = pick
    BY <1>3, <1>5, <1>7 DEF GlobalRecs
  <2> HIDE DEF g2
  <2>3. GlobalOK(g2)
    BY <1>6, <2>2 DEF GlobalOK
  <2>4. Sound(d) /\ Asked(asked, d)
    BY <1>5, <2>2, <2>3, GlobalsWork
  <2> HIDE DEF d
  <2>5. Asked(c, d)
    BY <1>5, <2>4 DEF Asked
  <2> QED
    BY <1>6, <1>7, <2>1, <2>4, <2>5
<1>12. CASE /\ Cardinality(DOMAIN Files[src]) > 1
            /\ r = [file |-> IndexOfLargestFile(src),
                    ctx |-> [c EXCEPT !.glob.selectedFileIndex = IndexOfLargestFile(src)]]
  <2> DEFINE large == IndexOfLargestFile(src)
             g2 == [c.glob EXCEPT !.selectedFileIndex = large]
             d == [c EXCEPT !.glob = g2]
  <2>1. r.file = large /\ r.ctx = d
    BY <1>12
  <2>2. ~ SingleFiles
    BY <1>12, OneFile
  <2> HIDE DEF large
  <2>3. g2 \in GlobalRecs
    BY <1>1, <1>7 DEF GlobalRecs, large
  <2> HIDE DEF g2
  <2>4. GlobalOK(g2)
    BY <2>2 DEF GlobalOK
  <2>5. Sound(d) /\ Asked(c, d)
    BY <2>3, <2>4, GlobalsWork
  <2> HIDE DEF d
  <2> QED
    BY <1>7, <2>1, <2>2, <2>5 DEF large
<1>13. CASE r = [file |-> 0, ctx |-> c]
  <2>1. r.file = 0 /\ r.ctx = c
    BY <1>13
  <2> QED
    BY <1>7, <2>1 DEF Asked
<1> QED
  BY <1>8, <1>9, <1>10, <1>11, <1>12, <1>13

LEMMA SelectedFileWorks ==
    ASSUME NEW c, Sound(c), NEW src \in Sources, NEW pick \in FileIndices,
           NEW r, r = SelectedFile(c, src, pick)
    PROVE  /\ Sound(r.ctx) /\ Asked(c, r.ctx)
           /\ r.file \in FileChoices /\ (SingleFiles => r.file = 0)
<1>1. CASE c.glob.selectedFileIndex # -1
  <2>1. r = [file |-> c.glob.selectedFileIndex, ctx |-> c]
    BY <1>1 DEF SelectedFile
  <2>2. r.file = c.glob.selectedFileIndex /\ r.ctx = c
    BY <2>1
  <2>3. c.glob \in GlobalRecs /\ GlobalOK(c.glob)
    BY Fields
  <2>4. c.glob.selectedFileIndex \in FileChoices
    BY <2>3 DEF GlobalRecs
  <2> QED
    BY <1>1, <2>2, <2>3, <2>4 DEF GlobalOK, Asked
<1>2. CASE c.glob.selectedFileIndex = -1
  <2>1. r = ChooseFile(c, src, pick)
    BY <1>2 DEF SelectedFile
  <2> QED
    BY <2>1, ChooseFileWorks
<1> QED
  BY <1>1, <1>2

LEMMA Quotient ==
    ASSUME NEW a \in Nat, NEW b \in Nat \ {0}
    PROVE  a \div b \in Nat
OBVIOUS

LEMMA Product ==
    ASSUME NEW a \in Nat, NEW b \in Nat
    PROVE  a * b \in Nat
OBVIOUS

LEMMA MinPiecesTyped ==
    ASSUME NEW src \in Sources, NEW f \in DOMAIN Files[src]
    PROVE  MinPieces(src, f) \in Nat
<1>1. Files[src][f].size \in Nat
  BY Geometry
<1>2. BufferPercent \in Nat /\ PieceLength \in Nat \ {0}
  BY StreamerAssumption DEF StreamerAssumption
<1>3. Files[src][f].size * BufferPercent \in Nat
  BY <1>1, <1>2, Product
<1>4. 100 * PieceLength \in Nat \ {0}
  BY <1>2
<1> QED
  BY <1>3, <1>4, Quotient DEF MinPieces

LEMMA IntervalTyped ==
    ASSUME NEW from \in Int, NEW upto \in Int
    PROVE  Interval(from, upto) \in Seq(Int)
<1> DEFINE n == IF upto > from THEN upto - from ELSE 0
<1>1. n \in Nat
  OBVIOUS
<1>2. Interval(from, upto) = [i \in 1 .. n |-> from + i - 1]
  BY DEF Interval
<1> HIDE DEF n
<1>3. Interval(from, upto) \in [1 .. n -> Int]
  BY <1>1, <1>2
<1> QED
  BY <1>1, <1>3

LEMMA WindowTyped ==
    ASSUME NEW next \in Int, NEW min \in Nat, NEW src \in Sources
    PROVE  Window(next, min, src) \in Seq(Int)
<1>1. NumPieces[src] \in Nat
  BY Geometry
<1>2. (IF next + min < NumPieces[src] THEN next + min ELSE NumPieces[src]) \in Int
  BY <1>1
<1> QED
  BY <1>2, IntervalTyped DEF Window

LEMMA OthersTransitive ==
    ASSUME NEW a, NEW b, NEW c, NEW h \in DOMAIN a.torrents,
           Others(a, b, h), Kept(a.torrents[h], b.torrents[h]),
           Others(b, c, h), Kept(b.torrents[h], c.torrents[h])
    PROVE  Others(a, c, h) /\ Kept(a.torrents[h], c.torrents[h]) /\ h \in DOMAIN b.torrents
BY DEF Others, Kept

(* The session part of metadataReceivedAlert and of prioritizeNextPieces:  *)
(* what is urgent in the end is what is wanted.                            *)
LEMMA MetadataSession ==
    ASSUME NEW ses, SessionOK(ses), NEW h \in DOMAIN ses.torrents,
           NEW t, t = ses.torrents[h], t.meta, NEW f \in DOMAIN Files[t.src],
           NEW want \in Seq(Int),
           NEW ses1, ses1 = ClearDeadlines(PrioritizeFile(ses, h, f), h),
           NEW ses2, ses2 = PrioritizePieces(ses1, h, [p \in Pieces(t.src) |-> LowPriority]),
           NEW r, r = SetDeadlines(ses2, h, want)
    PROVE  /\ SessionOK(r) /\ Others(ses, r, h) /\ Kept(t, r.torrents[h])
           /\ r.torrents[h].inSession =>
                 r.torrents[h].critical = (ToSet(want) \cap Pieces(t.src)) \ t.have
<1> DEFINE top == [p \in Pieces(t.src) |->
                      IF p \in FilePieces(t.src, f) THEN TopPriority ELSE DontDownload]
           low == [p \in Pieces(t.src) |-> LowPriority]
           ses0 == PrioritizePieces(ses, h, top)
<1>1. t \in TorrentRecs /\ TorrentOK(t) /\ t.src \in Sources
  BY TorrentAt
<1>2. ses0 = PrioritizeFile(ses, h, f)
  BY DEF PrioritizeFile
<1>3. SingleFiles => f = 0 /\ FilePieces(t.src, 0) \subseteq Pieces(t.src)
  BY <1>1, Geometry DEF SingleFiles
<1>4. t.critical \subseteq Pieces(t.src)
  BY <1>1 DEF TorrentOK
<1>5. /\ top \in [Pieces(t.src) -> 0 .. TopPriority]
      /\ \A p \in t.critical : top[p] = DontDownload \/ top[p] = TopPriority
      /\ SingleFiles => \A p \in FilePieces(t.src, 0) : top[p] # DontDownload
  BY <1>3, <1>4 DEF TopPriority, DontDownload
<1>6. /\ low \in [Pieces(t.src) -> 0 .. TopPriority]
      /\ SingleFiles => \A p \in FilePieces(t.src, 0) : low[p] # DontDownload
  BY <1>3 DEF TopPriority, LowPriority, DontDownload
<1>7. ses2 = PrioritizePieces(ses1, h, low)
  OBVIOUS
<1> HIDE DEF top, low
<1>8. SessionOK(ses0) /\ Others(ses, ses0, h) /\ Kept(t, ses0.torrents[h])
  BY <1>5, PrioritizePiecesKeeps
<1> HIDE DEF ses0
<1>9. h \in DOMAIN ses0.torrents
  BY <1>8 DEF Others
<1>10. /\ SessionOK(ses1) /\ Others(ses0, ses1, h) /\ Kept(ses0.torrents[h], ses1.torrents[h])
       /\ ses1.torrents[h].critical = {}
  BY <1>2, <1>8, <1>9, ClearDeadlinesKeeps
<1>11. h \in DOMAIN ses1.torrents /\ ses1.torrents[h].src = t.src
  BY <1>8, <1>9, <1>10 DEF Others, Kept
<1>12. /\ SessionOK(ses2) /\ Others(ses1, ses2, h) /\ Kept(ses1.torrents[h], ses2.torrents[h])
       /\ ses2.torrents[h].critical \subseteq {}
  <2> SUFFICES ASSUME NEW t1, t1 = ses1.torrents[h]
               PROVE  /\ SessionOK(ses2) /\ Others(ses1, ses2, h) /\ Kept(t1, ses2.torrents[h])
                      /\ ses2.torrents[h].critical \subseteq t1.critical
    BY <1>10
  <2>1. /\ low \in [Pieces(t1.src) -> 0 .. TopPriority]
        /\ SingleFiles => \A p \in FilePieces(t1.src, 0) : low[p] # DontDownload
        /\ \A p \in t1.critical : low[p] = DontDownload \/ low[p] = TopPriority
    BY <1>6, <1>10, <1>11
  <2> QED
    BY ONLY t1 = ses1.torrents[h], <1>7, <1>10, <1>11, <2>1, PrioritizePiecesKeeps
<1>13. h \in DOMAIN ses2.torrents
  BY <1>11, <1>12 DEF Others
<1> DEFINE v == ses2.torrents[h]
           new == IF v.inSession /\ v.meta THEN (ToSet(want) \cap Pieces(v.src)) \ v.have ELSE {}
<1>14. /\ SessionOK(r) /\ Others(ses2, r, h) /\ Kept(v, r.torrents[h])
       /\ r.torrents[h].critical = v.critical \cup new
  BY <1>12, <1>13, SetDeadlinesKeeps, SMTT(30)
<1>15. Others(ses, ses1, h) /\ Kept(t, ses1.torrents[h])
  BY <1>8, <1>10, OthersTransitive
<1>16. Others(ses, ses2, h) /\ Kept(t, ses2.torrents[h])
  BY <1>12, <1>15, OthersTransitive
<1>17. Others(ses, r, h) /\ Kept(t, r.torrents[h])
  BY <1>14, <1>16, OthersTransitive
<1>18. v.meta /\ v.src = t.src /\ v.have = t.have /\ r.torrents[h].inSession = v.inSession
  BY <1>14, <1>16 DEF Kept
<1> HIDE DEF v
<1> QED
  BY <1>12, <1>14, <1>17, <1>18 DEF v

LEMMA WindowSession ==
    ASSUME NEW ses, SessionOK(ses), NEW h \in DOMAIN ses.torrents,
           NEW t, t = ses.torrents[h], t.meta, NEW want \in Seq(Int),
           NEW ses1, ses1 = SetDeadlines(ClearDeadlines(ses, h), h, want),
           NEW r, r = PrioritizePieces(ses1, h, [p \in Pieces(t.src) |->
                          IF p \in ToSet(want) THEN TopPriority ELSE LowPriority])
    PROVE  /\ SessionOK(r) /\ Others(ses, r, h) /\ Kept(t, r.torrents[h])
           /\ r.torrents[h].inSession =>
                 r.torrents[h].critical = (ToSet(want) \cap Pieces(t.src)) \ t.have
<1> DEFINE prio == [p \in Pieces(t.src) |-> IF p \in ToSet(want) THEN TopPriority ELSE LowPriority]
           ses0 == ClearDeadlines(ses, h)
<1>1. t.src \in Sources
  BY TorrentAt
<1>2. SingleFiles => FilePieces(t.src, 0) \subseteq Pieces(t.src)
  BY <1>1, Geometry
<1>3. /\ prio \in [Pieces(t.src) -> 0 .. TopPriority]
      /\ \A p \in ToSet(want) \cap Pieces(t.src) : prio[p] = TopPriority
      /\ \A p \in Pieces(t.src) : prio[p] # DontDownload
  BY DEF TopPriority, LowPriority, DontDownload
<1>4. r = PrioritizePieces(ses1, h, prio)
  OBVIOUS
<1> HIDE DEF prio
<1>5. /\ SessionOK(ses0) /\ Others(ses, ses0, h) /\ Kept(t, ses0.torrents[h])
      /\ ses0.torrents[h].critical = {}
  BY ClearDeadlinesKeeps
<1> HIDE DEF ses0
<1>6. h \in DOMAIN ses0.torrents
  BY <1>5 DEF Others
<1> DEFINE v == ses0.torrents[h]
           new == IF v.inSession /\ v.meta THEN (ToSet(want) \cap Pieces(v.src)) \ v.have ELSE {}
           w == ses1.torrents[h]
<1>7. /\ SessionOK(ses1) /\ Others(ses0, ses1, h) /\ Kept(v, w)
      /\ w.critical = v.critical \cup new
  <2>1. ses1 = SetDeadlines(ses0, h, want)
    BY DEF ses0
  <2> HIDE DEF ses0
  <2> QED
    BY ONLY <1>5, <1>6, <2>1, SetDeadlinesKeeps
<1>8. Others(ses, ses1, h) /\ Kept(t, w)
  BY <1>5, <1>7, OthersTransitive
<1>9. h \in DOMAIN ses1.torrents
  BY <1>8 DEF Others
<1>10. v.critical = {} /\ v.meta /\ v.src = t.src /\ v.have = t.have /\ v.inSession = t.inSession
  BY <1>5 DEF Kept
<1> HIDE DEF v
<1>11. /\ w.critical \subseteq ToSet(want) \cap Pieces(t.src)
       /\ t.inSession => w.critical = (ToSet(want) \cap Pieces(t.src)) \ t.have
  BY <1>7, <1>10
<1>12. w.src = t.src /\ w.inSession = t.inSession
  BY <1>8 DEF Kept
<1>13. /\ \A p \in w.critical : prio[p] = TopPriority /\ prio[p] # DontDownload
  BY <1>3, <1>11
<1>14. SingleFiles => \A p \in FilePieces(t.src, 0) : prio[p] # DontDownload
  BY <1>2, <1>3
<1>15. /\ SessionOK(r) /\ Others(ses1, r, h) /\ Kept(w, r.torrents[h])
       /\ r.torrents[h].critical = w.critical
  <2> SUFFICES ASSUME NEW t1, t1 = ses1.torrents[h]
               PROVE  /\ SessionOK(r) /\ Others(ses1, r, h) /\ Kept(t1, r.torrents[h])
                      /\ r.torrents[h].critical = t1.critical
    OBVIOUS
  <2>1. /\ prio \in [Pieces(t1.src) -> 0 .. TopPriority]
        /\ SingleFiles => \A p \in FilePieces(t1.src, 0) : prio[p] # DontDownload
        /\ \A p \in t1.critical : prio[p] = DontDownload \/ prio[p] = TopPriority
        /\ \A p \in t1.critical : prio[p] # DontDownload
    BY <1>3, <1>12, <1>13, <1>14
  <2> QED
    BY ONLY t1 = ses1.torrents[h], <1>4, <1>7, <1>9, <2>1, PrioritizePiecesKeeps
<1>16. Others(ses, r, h) /\ Kept(t, r.torrents[h])
  BY <1>8, <1>15, OthersTransitive
<1> QED
  BY <1>11, <1>15, <1>16 DEF Kept

(* A handler that makes the required pieces of one torrent the urgent ones. *)
LEMMA RedirectWorks ==
    ASSUME NEW c, Sound(c), NEW d, Sound(d), d.id = c.id,
           d.st.timers = c.st.timers, d.st.blocks = c.st.blocks,
           d.st.streaming = c.st.streaming, d.disk = c.disk, Quiet(c.main, d.main),
           d.run.ready = c.run.ready, d.run.deleted = c.run.deleted,
           NEW h \in DOMAIN c.ses.torrents, NEW t, t = c.ses.torrents[h],
           Others(c.ses, d.ses, h), Kept(t, d.ses.torrents[h]),
           d.ses.torrents[h].inSession =>
              d.ses.torrents[h].critical = (ToSet(d.st.required) \cap Pieces(t.src)) \ t.have
    PROVE  Works(c, d)
<1>1. c.st.timers \in Nat
  BY Fields
<1>2. Keeps(c.ses, d.ses)
  BY OthersKeeps
<1>3. Held(c.st, c.ses) => Held(d.st, d.ses)
  BY <1>2 DEF Held, Keeps, Others
<1>4. Single(c.ses) => Follows(d.st, d.ses)
  <2> SUFFICES ASSUME Single(c.ses), NEW k \in DOMAIN d.ses.torrents,
                      d.ses.torrents[k].inSession
               PROVE  d.ses.torrents[k].critical =
                         (ToSet(d.st.required) \cap Pieces(d.ses.torrents[k].src))
                             \ d.ses.torrents[k].have
    BY DEF Follows
  <2>1. k = h
    BY DEF Single, Others
  <2> QED
    BY <2>1 DEF Kept
<1>5. d.st.timers <= c.st.timers
  BY <1>1
<1> QED
  BY <1>2, <1>3, <1>4, <1>5 DEF Works, Acts

LEMMA MinPiecesSet ==
    ASSUME NEW glob \in GlobalRecs, GlobalOK(glob), NEW min \in Nat,
           NEW r, r = [glob EXCEPT !.MIN_PIECES = min]
    PROVE  r \in GlobalRecs /\ GlobalOK(r)
<1>1. r \in GlobalRecs /\ r.selectedFileIndex = glob.selectedFileIndex
  BY DEF GlobalRecs
<1> QED
  BY <1>1 DEF GlobalOK

LEMMA MetadataReceivedWorks ==
    ASSUME NEW c, Sound(c), NEW h \in DOMAIN c.ses.torrents, c.ses.torrents[h].meta,
           NEW env, env.pick \in FileIndices, NEW e, e = MetadataReceived(c, h, env)
    PROVE  Works(c, e) /\ (env.space => e.st.blocks = c.st.blocks)
<1> DEFINE t      == c.ses.torrents[h]
           src    == t.src
           chosen == ChooseFile(c, src, env.pick)
           d      == chosen.ctx
           f      == chosen.file
           min    == MinPieces(src, f)
           first  == Files[src][f].first
           tail   == [i \in 1 .. TailPieces |-> Files[src][f].last - (i - 1)]
           wanted == c.st.required \o Interval(first, first + min) \o tail
           ses1   == ClearDeadlines(PrioritizeFile(d.ses, h, f), h)
           ses2   == PrioritizePieces(ses1, h, [p \in Pieces(src) |-> LowPriority])
           ses3   == SetDeadlines(ses2, h, wanted)
<1>1. e = IF c.st.savePath = None THEN Crash(c, "nil_path")
          ELSE IF ~ env.space THEN Failed(c)
          ELSE IF d.fault # "none" THEN d
          ELSE IF f \notin DOMAIN Files[src] THEN Crash(d, "file_index")
          ELSE [d EXCEPT !.glob.MIN_PIECES = min, !.st.required = wanted, !.ses = ses3]
  BY DEF MetadataReceived
<1>2. SessionOK(c.ses) /\ src \in Sources
  BY Fields, TorrentAt
<1>3. Sound(d) /\ Asked(c, d)
  BY <1>2, ChooseFileWorks
<1>4. Works(c, d) /\ d.st = c.st
  BY <1>3, AskedWorks DEF Asked
<1>5. "nil_path" \in Faults /\ "file_index" \in Faults
  BY DEF Faults
<1>6. CASE e = Crash(c, "nil_path")
  <2>1. Works(c, e) /\ Asked(c, e)
    BY <1>5, <1>6, CrashWorks
  <2> QED
    BY <2>1 DEF Asked
<1>7. CASE ~ env.space /\ e = Failed(c)
  BY <1>7, FailedWorks
<1> HIDE DEF d, f
<1>8. CASE e = d
  BY <1>4, <1>8
<1>9. CASE e = Crash(d, "file_index")
  <2>1. Works(d, e) /\ Asked(d, e)
    BY <1>3, <1>5, <1>9, CrashWorks
  <2>2. e.st = c.st
    BY <1>4, <2>1 DEF Asked
  <2> QED
    BY <1>4, <2>1, <2>2, WorksTransitive
<1>10. CASE /\ f \in DOMAIN Files[src]
            /\ e = [d EXCEPT !.glob.MIN_PIECES = min, !.st.required = wanted, !.ses = ses3]
  <2>1. min \in Nat /\ first \in Nat /\ Files[src][f].last \in Nat
    BY <1>2, <1>10, MinPiecesTyped, Geometry
  <2>2. tail \in Seq(Int)
    <3>1. TailPieces \in Nat
      BY StreamerAssumption DEF StreamerAssumption
    <3>2. tail \in [1 .. TailPieces -> Int]
      BY <2>1, <3>1
    <3> HIDE DEF tail
    <3> QED
      BY <3>1, <3>2
  <2>3. Interval(first, first + min) \in Seq(Int)
    <3>1. first \in Int /\ first + min \in Int
      BY <2>1
    <3> QED
      BY <3>1, IntervalTyped
  <2>4. c.st.required \in Seq(Int) /\ c.st.firstPiece \in Int
    <3>1. c.st \in StreamerRecs
      BY Fields
    <3> QED
      BY <3>1 DEF StreamerRecs
  <2> HIDE DEF min, tail, first
  <2>5. wanted \in Seq(Int)
    BY <2>2, <2>3, <2>4
  <2> HIDE DEF wanted
  <2>6. d.ses = c.ses /\ d.glob \in GlobalRecs /\ GlobalOK(d.glob) /\ d.st \in StreamerRecs
        /\ StreamerOK(d.st)
    BY <1>3, Fields DEF Asked
  <2>7. /\ SessionOK(ses3) /\ Others(c.ses, ses3, h) /\ Kept(t, ses3.torrents[h])
        /\ ses3.torrents[h].inSession =>
              ses3.torrents[h].critical = (ToSet(wanted) \cap Pieces(t.src)) \ t.have
    <3>1. ses1 = ClearDeadlines(PrioritizeFile(c.ses, h, f), h)
      BY <2>6
    <3> HIDE DEF ses1
    <3> QED
      BY <1>2, <1>10, <2>5, <3>1, MetadataSession
  <2> HIDE DEF ses3
  <2> DEFINE st == [d.st EXCEPT !.required = wanted]
             glob == [d.glob EXCEPT !.MIN_PIECES = min]
  <2>8. e = [d EXCEPT !.glob = glob, !.st = st, !.ses = ses3]
    BY <1>10
  <2>9. glob \in GlobalRecs /\ GlobalOK(glob)
    BY <2>1, <2>6, MinPiecesSet
  <2>10. /\ st \in StreamerRecs /\ StreamerOK(st) /\ st.required = wanted
         /\ st.timers = d.st.timers /\ st.blocks = d.st.blocks /\ st.streaming = d.st.streaming
    <3>1. /\ st \in StreamerRecs /\ st.required = wanted /\ st.timers = d.st.timers
          /\ st.blocks = d.st.blocks /\ st.streaming = d.st.streaming
          /\ st.timerLive = d.st.timerLive
      BY <2>5, <2>6 DEF StreamerRecs
    <3> QED
      BY <2>6, <3>1 DEF StreamerOK
  <2> HIDE DEF st, glob
  <2>11. /\ Sound(e) /\ e.id = d.id /\ e.st = st /\ e.ses = ses3
         /\ e.disk = d.disk /\ e.run = d.run /\ Quiet(d.main, e.main)
    <3>1. d \in Contexts /\ ses3 \in SessionRecs
      BY <1>3, <2>7, Fields DEF SessionOK
    <3>2. /\ e \in Contexts /\ e.id = d.id /\ e.st = st /\ e.glob = glob /\ e.ses = ses3
          /\ e.disk = d.disk /\ e.run = d.run /\ e.main = d.main
      BY <2>8, <2>9, <2>10, <3>1 DEF Contexts
    <3> QED
      BY <1>3, <2>7, <2>9, <2>10, <3>2, Fields DEF Sound, Quiet
  <2>12. Works(c, e)
    <3>1. /\ e.id = c.id /\ e.disk = c.disk /\ e.run = c.run /\ Quiet(c.main, e.main)
          /\ e.st.timers = c.st.timers /\ e.st.blocks = c.st.blocks
          /\ e.st.streaming = c.st.streaming /\ e.st.required = wanted
      BY <1>3, <2>10, <2>11 DEF Asked
    <3> HIDE DEF t
    <3> QED
      BY <2>7, <2>11, <3>1, RedirectWorks DEF t
  <2> QED
    BY <1>4, <2>10, <2>11, <2>12
<1> QED
  BY <1>1, <1>6, <1>7, <1>8, <1>9, <1>10

LEMMA PrioritizeNextPiecesWorks ==
    ASSUME NEW c, Sound(c), NEW h \in DOMAIN c.ses.torrents, c.ses.torrents[h].meta,
           NEW env, env.stale \in Int, NEW e, e = PrioritizeNextPieces(c, h, env)
    PROVE  Works(c, e)
<1> DEFINE t    == c.ses.torrents[h]
           src  == t.src
           min  == c.glob.MIN_PIECES
           next == IF c.st.firstPiece # -1 THEN c.st.firstPiece
                   ELSE IF c.st.required = <<>> THEN 0
                   ELSE IF min \in DOMAIN c.st.required THEN c.st.required[min] + 1
                   ELSE env.stale + 1
           window == Window(next, min, src)
           ses1 == SetDeadlines(ClearDeadlines(c.ses, h), h, window)
           ses2 == PrioritizePieces(ses1, h, [p \in Pieces(src) |->
                       IF p \in ToSet(window) THEN TopPriority ELSE LowPriority])
           low  == env.heap = "fatal" /\ (\E i \in DOMAIN window : window[i] < 0)
           st   == [c.st EXCEPT !.firstPiece = -1, !.required = window]
<1>1. /\ SessionOK(c.ses) /\ src \in Sources /\ c.st \in StreamerRecs /\ c.glob \in GlobalRecs
      /\ StreamerOK(c.st) /\ GlobalOK(c.glob)
  BY Fields, TorrentAt
<1>2. e = IF low THEN Crash(c, "piece_priorities")
          ELSE [c EXCEPT !.st.firstPiece = -1, !.st.required = window, !.ses = ses2]
  BY DEF PrioritizeNextPieces
<1> HIDE DEF low
<1>10. CASE low
  <2>1. e = Crash(c, "piece_priorities") /\ "piece_priorities" \in Faults
    BY <1>2, <1>10 DEF Faults
  <2> QED
    BY <2>1, CrashWorks
<1> SUFFICES ASSUME ~ low PROVE Works(c, e)
  BY <1>10
<1>3. e = [c EXCEPT !.st = st, !.ses = ses2]
  BY <1>2
<1>4. /\ min \in Nat /\ c.st.firstPiece \in Int /\ c.st.required \in Seq(Int)
  BY <1>1 DEF StreamerRecs, GlobalRecs
<1>5. next \in Int
  BY <1>4
<1> HIDE DEF next
<1>6. window \in Seq(Int)
  BY <1>1, <1>4, <1>5, WindowTyped
<1> HIDE DEF window
<1>7. /\ SessionOK(ses2) /\ Others(c.ses, ses2, h) /\ Kept(t, ses2.torrents[h])
      /\ ses2.torrents[h].inSession =>
            ses2.torrents[h].critical = (ToSet(window) \cap Pieces(t.src)) \ t.have
  BY <1>1, <1>6, WindowSession
<1> HIDE DEF ses2
<1>8. /\ st \in StreamerRecs /\ StreamerOK(st) /\ st.required = window
      /\ st.timers = c.st.timers /\ st.blocks = c.st.blocks /\ st.streaming = c.st.streaming
  <2>1. /\ st \in StreamerRecs /\ st.required = window /\ st.timers = c.st.timers
        /\ st.blocks = c.st.blocks /\ st.streaming = c.st.streaming
        /\ st.timerLive = c.st.timerLive
    <3>1. -1 \in Int
      OBVIOUS
    <3>2. st = [c.st EXCEPT !.firstPiece = -1, !.required = window]
      OBVIOUS
    <3> HIDE DEF st
    <3> QED
      BY <1>1, <1>6, <3>1, <3>2 DEF StreamerRecs
  <2> QED
    BY <1>1, <2>1 DEF StreamerOK
<1> HIDE DEF st
<1>9. /\ Sound(e) /\ e.id = c.id /\ e.st = st /\ e.ses = ses2
      /\ e.disk = c.disk /\ e.run = c.run /\ Quiet(c.main, e.main)
  <2>1. c \in Contexts /\ ses2 \in SessionRecs
    BY <1>7, Fields DEF SessionOK
  <2>2. /\ e \in Contexts /\ e.id = c.id /\ e.st = st /\ e.glob = c.glob /\ e.ses = ses2
        /\ e.disk = c.disk /\ e.run = c.run /\ e.main = c.main
    BY <1>3, <1>8, <2>1 DEF Contexts
  <2> QED
    BY <1>1, <1>7, <1>8, <2>2, Fields DEF Sound, Quiet
<1> HIDE DEF t
<1> QED
  BY <1>7, <1>8, <1>9, RedirectWorks DEF t

LEMMA ToldWorks ==
    ASSUME NEW c, Sound(c), NEW status \in Statuses,
           NEW d, d = [c EXCEPT !.st.status = status]
    PROVE  /\ Works(c, d) /\ d.ses = c.ses /\ d.glob = c.glob /\ d.st.required = c.st.required
           /\ d.st.blocks = c.st.blocks /\ d.st.streaming = c.st.streaming /\ d.fault = c.fault
<1> DEFINE st == [c.st EXCEPT !.status = status]
<1>1. d = [c EXCEPT !.st = st]
  OBVIOUS
<1>2. c \in Contexts /\ c.st \in StreamerRecs /\ StreamerOK(c.st)
  BY Fields
<1>3. /\ st \in StreamerRecs /\ st.timers = c.st.timers /\ st.timerLive = c.st.timerLive
      /\ st.blocks = c.st.blocks /\ st.streaming = c.st.streaming
      /\ st.required = c.st.required
  BY <1>2 DEF StreamerRecs
<1> HIDE DEF st
<1>4. StreamerOK(st)
  BY <1>2, <1>3 DEF StreamerOK
<1>6. /\ d \in Contexts /\ d.id = c.id /\ d.st = st /\ d.glob = c.glob /\ d.ses = c.ses
      /\ d.disk = c.disk /\ d.run = c.run /\ d.main = c.main /\ d.fault = c.fault
  BY <1>1, <1>2, <1>3 DEF Contexts
<1>7. Sound(d)
  BY <1>4, <1>6, Fields DEF Sound
<1>8. Works(c, d)
  BY <1>3, <1>6, <1>7, SameWorks DEF Quiet
<1> QED
  BY <1>3, <1>6, <1>8

LEMMA PieceFinishedWorks ==
    ASSUME NEW c, Sound(c), NEW h \in DOMAIN c.ses.torrents, c.ses.torrents[h].meta,
           NEW env, env.pick \in FileIndices, env.stale \in Int,
           NEW e, e = PieceFinished(c, h, env)
    PROVE  Works(c, e)
<1> DEFINE t    == c.ses.torrents[h]
           got  == {i \in DOMAIN c.st.required : c.st.required[i] \in t.have}
           all  == c.ses.paused \/ got = DOMAIN c.st.required
           status == [kind |-> "buffering", got |-> IF c.ses.paused THEN 0 ELSE Cardinality(got),
                      need |-> Len(c.st.required)]
           told == [c EXCEPT !.st.status = status]
           again == IF c.glob.MIN_PIECES = 0 THEN MetadataReceived(told, h, env) ELSE told
<1>1. e = IF ~ all THEN told
          ELSE IF again.fault # "none" THEN again
          ELSE PrioritizeNextPieces(again, h, env)
  BY DEF PieceFinished
<1>2. status \in Statuses
  <2>1. c.st \in StreamerRecs
    BY Fields
  <2>2. c.st.required \in Seq(Int)
    BY <2>1 DEF StreamerRecs
  <2>3. Cardinality(got) \in Nat /\ Len(c.st.required) \in Nat
    BY <2>2, SomeIndices
  <2> QED
    BY <2>3 DEF Statuses
<1> HIDE DEF status
<1>3. /\ Works(c, told) /\ told.ses = c.ses
  BY <1>2, ToldWorks
<1> HIDE DEF told
<1>4. Sound(told)
  BY <1>3 DEF Works, Acts
<1>5. Works(told, again)
  <2>1. CASE again = told
    BY <1>4, <2>1, WorksReflexive
  <2>2. CASE again = MetadataReceived(told, h, env)
    BY <1>3, <1>4, <2>2, MetadataReceivedWorks
  <2> QED
    BY <2>1, <2>2
<1> HIDE DEF again
<1>6. Works(c, again)
  BY <1>3, <1>5, WorksTransitive
<1>7. h \in DOMAIN again.ses.torrents /\ again.ses.torrents[h].meta
  BY <1>6 DEF Works, Acts, Keeps
<1>8. CASE e = PrioritizeNextPieces(again, h, env)
  <2>1. Sound(again)
    BY <1>5 DEF Works, Acts
  <2>2. Works(again, e)
    BY <1>7, <1>8, <2>1, PrioritizeNextPiecesWorks
  <2> QED
    BY <1>6, <2>2, WorksTransitive
<1> QED
  BY <1>1, <1>3, <1>6, <1>8

LEMMA ResumeDataReadyWorks ==
    ASSUME NEW c, Sound(c), NEW h \in DOMAIN c.ses.torrents,
           NEW env, env.resume \in {"good", "garbage"}, NEW e, e = ResumeDataReady(c, h, env)
    PROVE  Works(c, e)
<1> DEFINE src == c.ses.torrents[h].src
           st == [c.st EXCEPT !.alertsLoopActive = FALSE, !.savePath = None]
           ses == RemoveAll(c.ses)
           dir == [c.disk[src] EXCEPT !.resume = env.resume]
           dirs == [c.disk EXCEPT ![src] = dir]
<1>1. e = [c EXCEPT !.st = st, !.ses = ses, !.disk = dirs]
  BY DEF ResumeDataReady
<1>2. /\ c \in Contexts /\ c.st \in StreamerRecs /\ StreamerOK(c.st) /\ SessionOK(c.ses)
      /\ c.disk \in [Sources -> Dirs] /\ DiskOK(c.disk) /\ GlobalOK(c.glob)
      /\ c.st.timers \in Nat
  BY Fields
<1>3. src \in Sources
  BY <1>2, TorrentAt
<1>4. /\ st \in StreamerRecs /\ st.timers = c.st.timers /\ st.timerLive = c.st.timerLive
      /\ st.blocks = c.st.blocks /\ st.streaming = c.st.streaming
      /\ st.required = c.st.required
  BY <1>2 DEF StreamerRecs
<1> HIDE DEF st
<1>5. /\ SessionOK(ses) /\ Keeps(c.ses, ses) /\ ses.paused = c.ses.paused
      /\ \A k \in DOMAIN c.ses.torrents :
            ses.torrents[k] = c.ses.torrents[k] \/ ~ ses.torrents[k].inSession
  BY <1>2, RemoveAllKeeps
<1> HIDE DEF ses
<1> HIDE DEF src
<1>6. dir \in Dirs /\ dir.pieces = c.disk[src].pieces
  BY <1>2, <1>3 DEF Dirs
<1> HIDE DEF dir
<1>7. /\ dirs \in [Sources -> Dirs]
      /\ \A u \in Sources : dirs[u].pieces = c.disk[u].pieces
  BY <1>2, <1>3, <1>6
<1> HIDE DEF dirs
<1>8. /\ e \in Contexts /\ e.id = c.id /\ e.st = st /\ e.glob = c.glob /\ e.ses = ses
      /\ e.disk = dirs /\ e.run = c.run /\ e.main = c.main
  <2>1. ses \in SessionRecs
    BY <1>5 DEF SessionOK
  <2> QED
    BY <1>1, <1>2, <1>4, <1>7, <2>1 DEF Contexts
<1>9. Sound(e)
  <2>1. DiskOK(e.disk)
    BY <1>2, <1>7, <1>8 DEF DiskOK
  <2>2. StreamerOK(e.st)
    BY <1>2, <1>4, <1>8 DEF StreamerOK
  <2> QED
    BY <1>2, <1>5, <1>8, <2>1, <2>2 DEF Sound
<1>10. Held(c.st, c.ses) => Held(e.st, e.ses)
  BY <1>4, <1>5, <1>8 DEF Held, Keeps
<1>11. Follows(c.st, c.ses) => Follows(e.st, e.ses)
  BY <1>4, <1>5, <1>8 DEF Follows, Keeps
<1>12. e.st.timers <= c.st.timers /\ Quiet(c.main, e.main)
  BY <1>2, <1>4, <1>8 DEF Quiet
<1> QED
  BY <1>4, <1>5, <1>7, <1>8, <1>9, <1>10, <1>11, <1>12 DEF Works, Acts

(* fastForwardTorrentForRange: the field and the answer are set, and the   *)
(* required pieces forgotten before the new window is taken.               *)
LEMMA MovedWorks ==
    ASSUME NEW c, Sound(c), NEW start \in Int, NEW had \in BOOLEAN,
           NEW e, e = [c EXCEPT !.st.firstPiece = start, !.run.returned = had]
    PROVE  Works(c, e) /\ e.ses = c.ses /\ e.fault = c.fault
<1> DEFINE st == [c.st EXCEPT !.firstPiece = start]
           told == [c.run EXCEPT !.returned = had]
<1>1. e = [c EXCEPT !.st = st, !.run = told]
  OBVIOUS
<1>2. c \in Contexts /\ c.st \in StreamerRecs /\ c.run \in RunRecs /\ StreamerOK(c.st)
  BY Fields
<1>3. /\ st \in StreamerRecs /\ st.timers = c.st.timers /\ st.timerLive = c.st.timerLive
      /\ st.blocks = c.st.blocks /\ st.streaming = c.st.streaming
      /\ st.required = c.st.required
  BY <1>2 DEF StreamerRecs
<1>4. told \in RunRecs /\ told.ready = c.run.ready /\ told.deleted = c.run.deleted
  BY <1>2 DEF RunRecs
<1> HIDE DEF st, told
<1>5. /\ e \in Contexts /\ e.id = c.id /\ e.st = st /\ e.glob = c.glob /\ e.ses = c.ses
      /\ e.disk = c.disk /\ e.run = told /\ e.main = c.main /\ e.fault = c.fault
  BY <1>1, <1>2, <1>3, <1>4 DEF Contexts
<1>6. StreamerOK(st)
  BY <1>2, <1>3 DEF StreamerOK
<1>7. Sound(e) /\ Quiet(c.main, e.main)
  BY <1>5, <1>6, Fields DEF Sound, Quiet
<1> QED
  BY <1>3, <1>4, <1>5, <1>7, SameWorks

LEMMA EmptiedWorks ==
    ASSUME NEW c, Sound(c), NEW e, e = [c EXCEPT !.st.required = <<>>]
    PROVE  Works(c, e) /\ e.ses = c.ses
<1> DEFINE st == [c.st EXCEPT !.required = <<>>]
<1>1. e = [c EXCEPT !.st = st]
  OBVIOUS
<1>2. c \in Contexts /\ c.st \in StreamerRecs /\ StreamerOK(c.st) /\ c.st.timers \in Nat
  BY Fields
<1>3. /\ st \in StreamerRecs /\ st.timers = c.st.timers /\ st.timerLive = c.st.timerLive
      /\ st.blocks = c.st.blocks /\ st.streaming = c.st.streaming
      /\ st.required = <<>>
  <2> DEFINE empty == <<>>
  <2>1. empty \in Seq(Int) /\ st = [c.st EXCEPT !.required = empty]
    OBVIOUS
  <2> HIDE DEF empty, st
  <2>2. /\ st \in StreamerRecs /\ st.timers = c.st.timers /\ st.timerLive = c.st.timerLive
        /\ st.blocks = c.st.blocks /\ st.streaming = c.st.streaming
        /\ st.required = empty
    BY <1>2, <2>1 DEF StreamerRecs
  <2> QED
    BY <2>2 DEF empty
<1> HIDE DEF st
<1>4. /\ e \in Contexts /\ e.id = c.id /\ e.st = st /\ e.glob = c.glob /\ e.ses = c.ses
      /\ e.disk = c.disk /\ e.run = c.run /\ e.main = c.main
  BY <1>1, <1>2, <1>3 DEF Contexts
<1>5. StreamerOK(st)
  BY <1>2, <1>3 DEF StreamerOK
<1>6. Sound(e) /\ Quiet(c.main, e.main) /\ Keeps(c.ses, e.ses)
  BY <1>4, <1>5, Fields DEF Sound, Quiet, Keeps
<1>7. e.st.timers <= c.st.timers
  BY <1>2, <1>3, <1>4
<1>8. (Held(c.st, c.ses) => Held(e.st, e.ses)) /\ Follows(e.st, e.ses)
  BY <1>3, <1>4 DEF Held, Follows
<1> QED
  BY <1>3, <1>4, <1>6, <1>7, <1>8 DEF Works, Acts

LEMMA ForwardedOneWorks ==
    ASSUME NEW c, Sound(c), NEW h \in DOMAIN c.ses.torrents, NEW offset \in Int,
           NEW pick \in FileIndices, NEW e, e = ForwardedOne(c, h, offset, pick)
    PROVE  Works(c, e)
<1> DEFINE t      == c.ses.torrents[h]
           chosen == SelectedFile(c, t.src, pick)
           d      == chosen.ctx
           file   == Files[t.src][chosen.file]
           start  == IF file.first + offset > file.last THEN file.last ELSE file.first + offset
           final  == FinalPiece(d, t.src, start)
           had    == start <= final /\ start .. final \subseteq t.have
           moved  == [d EXCEPT !.st.firstPiece = start, !.run.returned = had]
           emptied == [moved EXCEPT !.st.required = <<>>]
           unread  == [stale |-> 0, heap |-> "unharmed"]
<1>1. e = IF ~ t.meta THEN Crash(c, "null_info")
          ELSE IF d.fault # "none" THEN d
          ELSE IF chosen.file \notin DOMAIN Files[t.src] THEN Crash(d, "file_index")
          ELSE IF had THEN moved
          ELSE PrioritizeNextPieces(emptied, h, unread)
  BY DEF ForwardedOne
<1>2. t.src \in Sources
  BY Fields, TorrentAt
<1>3. Sound(d) /\ Asked(c, d)
  BY <1>2, SelectedFileWorks
<1>4. Works(c, d) /\ d.ses = c.ses
  BY <1>3, AskedWorks DEF Asked
<1> HIDE DEF chosen
<1>5. "null_info" \in Faults /\ "file_index" \in Faults
  BY DEF Faults
<1>6. CASE e = Crash(c, "null_info")
  BY <1>5, <1>6, CrashWorks
<1>7. CASE e = d
  BY <1>4, <1>7
<1>8. CASE e = Crash(d, "file_index")
  <2>1. Works(d, e)
    BY <1>3, <1>5, <1>8, CrashWorks
  <2> QED
    BY <1>4, <2>1, WorksTransitive
<1>9. CASE /\ t.meta /\ chosen.file \in DOMAIN Files[t.src]
           /\ e = moved \/ e = PrioritizeNextPieces(emptied, h, unread)
  <2>1. file.first \in Nat /\ file.last \in Nat
    BY <1>2, <1>9, Geometry
  <2> HIDE DEF file
  <2>2. start \in Int
    BY <2>1
  <2> HIDE DEF start
  <2>3. had \in BOOLEAN
    OBVIOUS
  <2> HIDE DEF had, d
  <2>4. Works(d, moved) /\ moved.ses = d.ses
    BY <1>3, <2>2, <2>3, MovedWorks, ZenonT(40)
  <2> HIDE DEF moved
  <2>5. Works(c, moved) /\ Sound(moved)
    BY <1>4, <2>4, WorksTransitive DEF Works, Acts
  <2>6. Works(moved, emptied) /\ emptied.ses = moved.ses
    BY <2>5, EmptiedWorks
  <2> HIDE DEF emptied
  <2>7. Works(c, emptied) /\ Sound(emptied)
    BY <2>5, <2>6, WorksTransitive DEF Works, Acts
  <2>8. emptied.ses = c.ses
    BY <1>4, <2>4, <2>6
  <2>9. CASE e = PrioritizeNextPieces(emptied, h, unread)
    <3>1. unread.stale \in Int
      OBVIOUS
    <3> HIDE DEF unread
    <3>2. Works(emptied, e)
      BY <1>9, <2>7, <2>8, <2>9, <3>1, PrioritizeNextPiecesWorks
    <3> QED
      BY <2>7, <3>2, WorksTransitive
  <2> QED
    BY <1>9, <2>5, <2>9
<1> QED
  BY <1>1, <1>6, <1>7, <1>8, <1>9

(* The recursive function of Forwarded, as for StopAll. *)
ForwardFirst(c) == [c EXCEPT !.run.returned = FALSE]

ForwardNext(c, offset, pick, n, prev) ==
    IF n \notin Torrents(c.ses) \/ prev.run.returned \/ prev.fault # "none" THEN prev
    ELSE ForwardedOne(prev, n, offset, pick)

Forwards(c, offset, pick, n, f) ==
    f = [i \in 0 .. n |-> IF i = 0 THEN ForwardFirst(c)
                          ELSE ForwardNext(c, offset, pick, i, f[i - 1])]

LEMMA ForwardsExists ==
    ASSUME NEW c, NEW offset, NEW pick, NEW n \in Nat
    PROVE  \E f : Forwards(c, offset, pick, n, f)
<1> DEFINE B == {m \in Nat : ~ \E f : Forwards(c, offset, pick, m, f)}
<1>1. SUFFICES ASSUME B # {} PROVE FALSE
  OBVIOUS
<1>2. PICK m \in B : \A k \in B : m <= k
  <2>1. B \in SUBSET Nat
    OBVIOUS
  <2> HIDE DEF B
  <2> QED
    BY <1>1, <2>1, LeastNumber
<1>3. m # 0
  <2>1. Forwards(c, offset, pick, 0, [i \in 0 .. 0 |-> ForwardFirst(c)])
    BY DEF Forwards
  <2> QED
    BY <2>1
<1>4. m - 1 \in Nat /\ m - 1 \notin B
  BY <1>2, <1>3
<1>5. PICK g : Forwards(c, offset, pick, m - 1, g)
  BY <1>4
<1> DEFINE next == ForwardNext(c, offset, pick, m, g[m - 1])
           f == [i \in 0 .. m |-> IF i = m THEN next ELSE g[i]]
<1>6. \A i \in 0 .. m - 1 :
         g[i] = IF i = 0 THEN ForwardFirst(c) ELSE ForwardNext(c, offset, pick, i, g[i - 1])
  BY <1>5 DEF Forwards
<1>7. ASSUME NEW i \in 0 .. m
      PROVE  f[i] = IF i = 0 THEN ForwardFirst(c)
                    ELSE ForwardNext(c, offset, pick, i, f[i - 1])
  <2>1. CASE i = m
    <3>1. m - 1 \in 0 .. m /\ m - 1 # m
      BY <1>4
    <3>2. f[m - 1] = g[m - 1] /\ f[m] = next
      BY <3>1
    <3> HIDE DEF f
    <3> QED
      BY <1>3, <2>1, <3>2
  <2>2. CASE i # m
    <3>1. i \in 0 .. m - 1 /\ (i # 0 => i - 1 \in 0 .. m /\ i - 1 # m)
      BY <1>4, <2>2
    <3>2. f[i] = g[i] /\ (i # 0 => f[i - 1] = g[i - 1])
      BY <2>2, <3>1
    <3> HIDE DEF f
    <3> QED
      BY <1>6, <3>1, <3>2
  <2> QED
    BY <2>1, <2>2
<1>8. f = [i \in 0 .. m |-> f[i]]
  OBVIOUS
<1> HIDE DEF f
<1>9. Forwards(c, offset, pick, m, f)
  BY <1>7, <1>8 DEF Forwards
<1> QED
  BY <1>9

LEMMA ForwardedWorks ==
    ASSUME NEW c, Sound(c), NEW offset \in Int, NEW pick \in FileIndices,
           NEW e, e = Forwarded(c, offset, pick)
    PROVE  /\ Works(c, e)
           /\ c.ses.torrents = <<>> => e.st = c.st /\ e.ses = c.ses
<1> DEFINE N == Len(c.ses.torrents)
<1>1. N \in Nat /\ DOMAIN c.ses.torrents = 1 .. N
  <2>1. SessionOK(c.ses)
    BY Fields
  <2> QED
    BY <2>1 DEF SessionOK, SessionRecs
<1>2. PICK g : Forwards(c, offset, pick, N, g)
  BY <1>1, ForwardsExists
<1>3. PICK f : Forwards(c, offset, pick, N, f) /\ e = f[N]
  <2> DEFINE F == CHOOSE f : Forwards(c, offset, pick, N, f)
  <2>1. e = F[N]
    BY DEF Forwarded, Forwards, ForwardNext, ForwardFirst
  <2>2. Forwards(c, offset, pick, N, F)
    BY <1>2
  <2> QED
    BY <2>1, <2>2
<1>4. \A i \in 0 .. N : f[i] = IF i = 0 THEN ForwardFirst(c)
                               ELSE ForwardNext(c, offset, pick, i, f[i - 1])
  BY <1>3 DEF Forwards
<1>5. f[0] = ForwardFirst(c)
  BY <1>1, <1>4
<1>6. Works(c, f[0]) /\ f[0].st = c.st /\ f[0].ses = c.ses
  <2> DEFINE told == [c.run EXCEPT !.returned = FALSE]
  <2>1. f[0] = [c EXCEPT !.run = told]
    BY <1>5 DEF ForwardFirst
  <2>2. c \in Contexts /\ c.run \in RunRecs
    BY Fields
  <2>3. told \in RunRecs /\ told.ready = c.run.ready /\ told.deleted = c.run.deleted
    BY <2>2 DEF RunRecs
  <2> HIDE DEF told
  <2>4. /\ f[0] \in Contexts /\ f[0].id = c.id /\ f[0].st = c.st /\ f[0].glob = c.glob
        /\ f[0].ses = c.ses /\ f[0].disk = c.disk /\ f[0].run = told /\ f[0].main = c.main
    BY <2>1, <2>2, <2>3 DEF Contexts
  <2>5. Sound(f[0]) /\ Quiet(c.main, f[0].main)
    BY <2>4, Fields DEF Sound, Quiet
  <2> QED
    BY <2>3, <2>4, <2>5, SameWorks
<1> DEFINE B == {n \in 0 .. N : ~ Works(c, f[n])}
<1>7. B = {}
  <2>1. SUFFICES ASSUME B # {} PROVE FALSE
    OBVIOUS
  <2>2. PICK n \in B : \A k \in B : n <= k
    <3>1. B \in SUBSET Nat
      BY <1>1
    <3> HIDE DEF B
    <3> QED
      BY <2>1, <3>1, LeastNumber
  <2>3. n # 0
    BY <1>6
  <2>4. n \in 1 .. N /\ n - 1 \in 0 .. N /\ n - 1 \notin B
    <3>1. n \in 0 .. N
      OBVIOUS
    <3>2. n \in 1 .. N /\ n - 1 \in 0 .. N /\ ~ (n <= n - 1)
      BY <1>1, <2>3, <3>1
    <3> HIDE DEF B
    <3> QED
      BY <2>2, <3>2
  <2> DEFINE prev == f[n - 1]
  <2>5. Works(c, prev)
    BY <2>4
  <2>6. f[n] = ForwardNext(c, offset, pick, n, prev)
    BY <1>4, <2>3, <2>4
  <2> HIDE DEF prev
  <2>7. CASE f[n] = prev
    BY <2>5, <2>7
  <2>8. CASE f[n] = ForwardedOne(prev, n, offset, pick)
    <3>1. Sound(prev) /\ n \in DOMAIN prev.ses.torrents
      BY <1>1, <2>4, <2>5 DEF Works, Acts, Keeps
    <3>2. Works(prev, f[n])
      BY <2>8, <3>1, ForwardedOneWorks
    <3>3. Works(c, f[n])
      BY <2>5, <3>2, WorksTransitive
    <3> QED
      BY <3>3
  <2> QED
    BY <2>6, <2>7, <2>8 DEF ForwardNext
<1>8. Works(c, e)
  BY <1>1, <1>3, <1>7
<1>9. c.ses.torrents = <<>> => N = 0
  OBVIOUS
<1> QED
  BY <1>3, <1>6, <1>8, <1>9

(* The main queue grows by the block b. *)
Ready(q, r, b) ==
    /\ \A i \in DOMAIN q : i \in DOMAIN r /\ r[i] = q[i]
    /\ \A i \in DOMAIN r : \/ i \in DOMAIN q /\ r[i] = q[i]
                           \/ i = Len(q) + 1 /\ r[i] = b

LEMMA ReadyQuiet ==
    ASSUME NEW p, NEW q, NEW r, NEW b, Ready(p, q, b), Quiet(q, r)
    PROVE  Ready(p, r, b)
BY DEF Ready, Quiet

(* processTorrent tells that the torrent h is ready, once. *)
Plays(c, h, d) ==
    /\ c.st.blocks /\ ~ c.st.streaming /\ d.st.streaming
    /\ \E b \in Blocks :
          /\ b.id = c.id
          /\ b.path.src = c.ses.torrents[h].src
          /\ SingleFiles => b.path.file = 0
          /\ Ready(c.main, d.main, b)

LEMMA ProcessTorrentActs ==
    ASSUME NEW c, Sound(c), NEW h \in DOMAIN c.ses.torrents,
           NEW env, env.pick \in FileIndices, NEW e, e = ProcessTorrent(c, h, env)
    PROVE  Acts(c, e) /\ e.ses = c.ses /\ (Quiet(c.main, e.main) \/ Plays(c, h, e))
<1> DEFINE src    == c.ses.torrents[h].src
           chosen == SelectedFile(c, src, env.pick)
           d      == chosen.ctx
           name   == [src |-> src, file |-> chosen.file]
           st1    == [d.st EXCEPT !.streaming = TRUE, !.fileName = name]
           named  == [d EXCEPT !.st.streaming = TRUE, !.st.fileName = name]
           off    == InvalidateTimer(named.st)
           st2    == [off EXCEPT !.alertsLoopActive = FALSE]
           played == [named EXCEPT !.st = st2]
           b      == ReadyBlock(named)
           main   == Append(played.main, b)
<1>1. e = IF c.st.streaming THEN c
          ELSE IF d.fault # "none" THEN d
          ELSE IF chosen.file \notin DOMAIN Files[src] THEN Crash(d, "file_index")
          ELSE IF ~ c.st.blocks THEN named
          ELSE [played EXCEPT !.main = main]
  BY DEF ProcessTorrent, Dispatch
<1>1a. named = [d EXCEPT !.st = st1]
  OBVIOUS
<1>2. src \in Sources
  BY Fields, TorrentAt
<1>3. /\ Sound(d) /\ Asked(c, d) /\ chosen.file \in FileChoices
      /\ SingleFiles => chosen.file = 0
  BY <1>2, SelectedFileWorks
<1> HIDE DEF src, chosen
<1>4. name \in FileNames /\ name.src = src /\ name.file = chosen.file
  BY <1>2, <1>3 DEF FileNames
<1> HIDE DEF name
<1>5. d \in Contexts /\ d.st \in StreamerRecs /\ StreamerOK(d.st) /\ c.st.timers \in Nat
  BY <1>3, Fields
<1> HIDE DEF d
<1>6. /\ st1 \in StreamerRecs /\ st1.timers = d.st.timers /\ st1.timerLive = d.st.timerLive
      /\ st1.blocks = d.st.blocks /\ st1.streaming = TRUE
      /\ st1.required = d.st.required /\ st1.fileName = name /\ st1.savePath = d.st.savePath
  BY <1>4, <1>5 DEF StreamerRecs
<1> HIDE DEF st1
<1>7. StreamerOK(st1)
  BY <1>5, <1>6 DEF StreamerOK
<1>8. /\ named \in Contexts /\ named.id = c.id /\ named.st = st1 /\ named.ses = c.ses
      /\ named.glob = d.glob /\ named.main = c.main /\ named.disk = c.disk /\ named.run = c.run
  <2>1. /\ named \in Contexts /\ named.id = d.id /\ named.st = st1 /\ named.ses = d.ses
        /\ named.glob = d.glob /\ named.main = d.main /\ named.disk = d.disk
        /\ named.run = d.run
    <3> HIDE DEF named
    <3> QED
      BY <1>5, <1>6, <1>1a DEF Contexts
  <2> QED
    BY <1>3, <2>1 DEF Asked
<1> HIDE DEF named
<1>9. Sound(named)
  BY <1>3, <1>7, <1>8, Fields DEF Sound
<1>10. ASSUME NEW u, Sound(u), u.id = c.id, u.ses = c.ses, u.disk = c.disk, u.run = c.run,
              u.st.timers <= c.st.timers, u.st.blocks = c.st.blocks, u.st.streaming,
              u.st.required = c.st.required
       PROVE  Acts(c, u)
  <2>1. (Held(c.st, c.ses) => Held(u.st, u.ses)) /\ (Follows(c.st, c.ses) => Follows(u.st, u.ses))
    BY <1>10 DEF Held, Follows
  <2> QED
    BY <1>10, <2>1 DEF Acts, Keeps
<1>11. CASE e = c
  BY <1>11, WorksReflexive DEF Works
<1>14. CASE e = d
  BY <1>3, <1>14, AskedWorks DEF Works, Asked
<1>15. CASE e = Crash(d, "file_index")
  <2>1. Works(d, e) /\ Asked(d, e)
    BY <1>3, <1>15, CrashWorks DEF Faults
  <2>2. Works(c, e)
    BY <1>3, <2>1, AskedWorks, WorksTransitive
  <2> QED
    BY <1>3, <2>1, <2>2 DEF Works, Asked
<1>12. CASE e = named
  <2>1. /\ e.st.timers <= c.st.timers /\ e.st.blocks = c.st.blocks /\ e.st.streaming
        /\ e.st.required = c.st.required
    BY <1>3, <1>5, <1>6, <1>8, <1>12 DEF Asked
  <2>2. Acts(c, e)
    BY <1>8, <1>9, <1>10, <1>12, <2>1
  <2> QED
    BY <1>8, <1>12, <2>2 DEF Quiet
<1>13. CASE c.st.blocks /\ ~ c.st.streaming /\ e = [played EXCEPT !.main = main]
  <2>1. /\ off \in StreamerRecs /\ StreamerOK(off) /\ off.timers <= st1.timers
        /\ off.blocks = st1.blocks /\ off.required = st1.required
        /\ off.streaming = st1.streaming
    BY <1>6, <1>7, <1>8, InvalidateTimerTyped
  <2> HIDE DEF off
  <2>2. /\ st2 \in StreamerRecs /\ st2.timers = off.timers /\ st2.timerLive = off.timerLive
        /\ st2.blocks = off.blocks /\ st2.required = off.required
        /\ st2.streaming = off.streaming
    BY <2>1 DEF StreamerRecs
  <2> HIDE DEF st2
  <2>3. StreamerOK(st2)
    BY <2>1, <2>2 DEF StreamerOK
  <2>4. b \in Blocks /\ b.id = c.id /\ b.path.src = src
        /\ b.path.file = chosen.file
    <3> DEFINE path == [dir |-> named.st.savePath, src |-> named.st.fileName.src,
                        file |-> named.st.fileName.file]
    <3>1. b = [id |-> named.id, path |-> path]
      BY DEF ReadyBlock
    <3>2. named.st.savePath \in Sources \cup {None}
      BY <1>6, <1>8 DEF StreamerRecs
    <3>3. path \in Paths /\ path.src = src /\ path.file = chosen.file
      BY <1>2, <1>3, <1>4, <1>6, <1>8, <3>2 DEF Paths
    <3> HIDE DEF path
    <3>4. c.id \in Streamers
      BY Fields
    <3> QED
      BY <1>8, <3>1, <3>3, <3>4 DEF Blocks
  <2> HIDE DEF b
  <2>5. played.main = c.main /\ c.main \in Seq(Blocks)
    BY <1>8, Fields DEF Contexts
  <2>6. main \in Seq(Blocks) /\ Ready(c.main, main, b)
    BY <2>4, <2>5, Appended DEF Ready
  <2> HIDE DEF main
  <2>7. /\ e \in Contexts /\ e.id = c.id /\ e.st = st2 /\ e.ses = c.ses
        /\ e.glob = d.glob /\ e.main = main /\ e.disk = c.disk /\ e.run = c.run
    BY <1>8, <1>13, <2>2, <2>6 DEF Contexts
  <2>8. Sound(e)
    BY <1>9, <2>3, <2>7, <1>8 DEF Sound
  <2>9. /\ e.st.blocks = c.st.blocks /\ e.st.streaming /\ e.st.required = c.st.required
        /\ e.st.timers = off.timers /\ st1.timers = c.st.timers
    BY <1>3, <1>6, <2>1, <2>2, <2>7 DEF Asked
  <2>10. e.st.timers <= c.st.timers
    BY <1>5, <2>1, <2>9
  <2>11. Acts(c, e)
    BY <1>10, <2>7, <2>8, <2>9, <2>10
  <2>12. Plays(c, h, e)
    BY <1>3, <1>13, <2>4, <2>6, <2>7, <2>9 DEF Plays, src
  <2> QED
    BY <2>7, <2>11, <2>12
<1> QED
  BY <1>1, <1>11, <1>12, <1>13, <1>14, <1>15

LEMMA RemovedWorks ==
    ASSUME NEW c, Sound(c), NEW h \in DOMAIN c.ses.torrents,
           NEW e, e = [c EXCEPT !.ses = RemoveTorrent(c.ses, h)]
    PROVE  Works(c, e) /\ e.st = c.st
<1> DEFINE ses == RemoveTorrent(c.ses, h)
<1>1. c \in Contexts /\ c.st.timers \in Nat /\ SessionOK(c.ses)
  BY Fields
<1>2. /\ SessionOK(ses) /\ Keeps(c.ses, ses) /\ ses.paused = c.ses.paused
      /\ \A k \in DOMAIN c.ses.torrents :
            ses.torrents[k] = c.ses.torrents[k] \/ ~ ses.torrents[k].inSession
  BY <1>1, RemoveTorrentKeeps
<1>3. ses \in SessionRecs
  BY <1>2 DEF SessionOK
<1>4. e = [c EXCEPT !.ses = ses]
  OBVIOUS
<1> HIDE DEF ses
<1>5. /\ e \in Contexts /\ e.id = c.id /\ e.st = c.st /\ e.glob = c.glob /\ e.ses = ses
      /\ e.disk = c.disk /\ e.run = c.run /\ e.main = c.main
  BY <1>1, <1>3, <1>4 DEF Contexts
<1>6. Sound(e)
  BY <1>2, <1>5, Fields DEF Sound
<1>7. Held(c.st, c.ses) => Held(e.st, e.ses)
  BY <1>2, <1>5 DEF Held, Keeps
<1>8. Follows(c.st, c.ses) => Follows(e.st, e.ses)
  BY <1>2, <1>5 DEF Follows, Keeps
<1>9. e.st.timers <= c.st.timers /\ Quiet(c.main, e.main)
  BY <1>1, <1>5 DEF Quiet
<1> QED
  BY <1>2, <1>5, <1>6, <1>7, <1>8, <1>9 DEF Works, Acts

LEMMA TorrentFinishedActs ==
    ASSUME NEW c, Sound(c), NEW h \in DOMAIN c.ses.torrents,
           NEW env, env.pick \in FileIndices, NEW e, e = TorrentFinished(c, h, env)
    PROVE  Acts(c, e) /\ (Quiet(c.main, e.main) \/ Plays(c, h, e))
<1> DEFINE p      == ProcessTorrent(c, h, env)
           status == [kind |-> "finished", got |-> 1, need |-> 1]
           told   == [p EXCEPT !.st.status = status]
<1>1. e = IF p.fault # "none" THEN p ELSE [told EXCEPT !.ses = RemoveTorrent(told.ses, h)]
  BY DEF TorrentFinished
<1>2. Acts(c, p) /\ p.ses = c.ses /\ (Quiet(c.main, p.main) \/ Plays(c, h, p))
  BY ProcessTorrentActs
<1> HIDE DEF p
<1>3. CASE e = p
  BY <1>2, <1>3
<1>4. CASE e = [told EXCEPT !.ses = RemoveTorrent(told.ses, h)]
  <2>1. Sound(p) /\ status \in Statuses
    BY <1>2 DEF Acts, Statuses
  <2> HIDE DEF status
  <2>2. Works(p, told) /\ told.ses = c.ses /\ told.st.streaming = p.st.streaming
    BY <1>2, <2>1, ToldWorks
  <2> HIDE DEF told
  <2>3. Sound(told)
    BY <2>2 DEF Works, Acts
  <2>4. Works(told, e) /\ e.st = told.st
    BY <1>4, <2>2, <2>3, RemovedWorks
  <2>5. Works(p, e)
    BY <2>1, <2>2, <2>4, WorksTransitive
  <2>6. Acts(c, e)
    BY <1>2, <2>5, ActsTransitive DEF Works
  <2>7. Quiet(c.main, p.main) => Quiet(c.main, e.main)
    BY <2>5, QuietTransitive DEF Works
  <2>8. Plays(c, h, p) => Plays(c, h, e)
    BY <2>2, <2>4, <2>5, ReadyQuiet DEF Works, Plays
  <2> QED
    BY <1>2, <2>6, <2>7, <2>8
<1> QED
  BY <1>1, <1>3, <1>4

LEMMA NewSessionOK ==
    SessionOK(NewSession) /\ NewSession.torrents = <<>> /\ NewSession.queue = <<>>
<1>1. /\ NewSession \in SessionRecs /\ NewSession.torrents = <<>> /\ NewSession.queue = <<>>
  BY DEF NewSession, SessionRecs
<1>2. DOMAIN NewSession.torrents = {} /\ DOMAIN NewSession.queue = {}
  BY <1>1
<1> QED
  BY <1>1, <1>2 DEF SessionOK

(* A cancel that deletes. *)
LEMMA DeletedActs ==
    ASSUME NEW c, Sound(c), NEW d, d = Cancelled(c, TRUE)
    PROVE  /\ Sound(d) /\ d.id = c.id /\ d.st.timers <= c.st.timers
           /\ ~ d.st.blocks /\ d.st.required = <<>> /\ d.st.status = ZeroStatus
           /\ d.st.fileName = None
           /\ d.ses = NewSession /\ d.main = c.main /\ d.run.ready = c.run.ready
<1> DEFINE reset == ResetFields(c.st)
           off == InvalidateTimer(reset)
           st == [off EXCEPT !.alertsLoopActive = FALSE, !.savePath = None]
           glob == [c.glob EXCEPT !.selectedFileIndex = -1]
           dirs == [src \in Sources |-> IF src = c.st.savePath THEN EmptyDir ELSE c.disk[src]]
           told == [c.run EXCEPT !.deleted = TRUE]
           ses == NewSession
<1>1. d = [c EXCEPT !.st = st, !.ses = ses, !.disk = dirs, !.glob = glob, !.run = told]
  BY DEF Cancelled
<1>2. /\ c \in Contexts /\ c.st \in StreamerRecs /\ StreamerOK(c.st) /\ c.glob \in GlobalRecs
      /\ c.disk \in [Sources -> Dirs] /\ DiskOK(c.disk) /\ c.run \in RunRecs
      /\ c.st.timers \in Nat
  BY Fields
<1>3. /\ reset \in StreamerRecs /\ StreamerOK(reset) /\ reset.blocks = FALSE
      /\ reset.required = <<>> /\ reset.timers = c.st.timers /\ reset.status = ZeroStatus
      /\ reset.fileName = None
  BY <1>2, ResetFieldsTyped
<1> HIDE DEF reset
<1>4. /\ off \in StreamerRecs /\ StreamerOK(off) /\ off.timers <= c.st.timers
      /\ off.blocks = FALSE /\ off.required = <<>> /\ off.status = ZeroStatus
      /\ off.fileName = None
  BY <1>3, InvalidateTimerTyped
<1> HIDE DEF off
<1>5. /\ st \in StreamerRecs /\ st.timers = off.timers /\ st.timerLive = off.timerLive
      /\ st.blocks = off.blocks /\ st.required = off.required /\ st.status = off.status
      /\ st.fileName = off.fileName
  BY <1>4 DEF StreamerRecs
<1> HIDE DEF st
<1>6. StreamerOK(st)
  BY <1>4, <1>5 DEF StreamerOK
<1>7. glob \in GlobalRecs /\ GlobalOK(glob)
  BY <1>2, UnselectTyped
<1> HIDE DEF glob
<1>8. EmptyDir \in Dirs /\ EmptyDir.pieces = {}
  BY DEF EmptyDir, Dirs
<1>9. dirs \in [Sources -> Dirs] /\ DiskOK(dirs)
  BY <1>2, <1>8 DEF DiskOK
<1> HIDE DEF dirs
<1>10. told \in RunRecs /\ told.ready = c.run.ready
  BY <1>2 DEF RunRecs
<1> HIDE DEF told
<1>11. ses \in SessionRecs /\ SessionOK(ses)
  BY NewSessionOK DEF SessionOK
<1>12. ses = NewSession
  OBVIOUS
<1> HIDE DEF ses
<1>13. /\ d \in Contexts /\ d.id = c.id /\ d.st = st /\ d.glob = glob /\ d.ses = ses
       /\ d.disk = dirs /\ d.run = told /\ d.main = c.main
  BY <1>1, <1>2, <1>5, <1>7, <1>9, <1>10, <1>11 DEF Contexts
<1>14. Sound(d)
  BY <1>6, <1>7, <1>9, <1>11, <1>13 DEF Sound
<1> QED
  BY <1>4, <1>5, <1>10, <1>12, <1>13, <1>14
-----------------------------------------------------------------------------
(* startStreamingFromFile *)

(* What a start may make of the context, from the callbacks on. *)
Launches(c, d, space) ==
    /\ Sound(d) /\ d.id = c.id /\ d.st.timers <= c.st.timers
    /\ Len(d.ses.torrents) <= Len(c.ses.torrents) + 1
    /\ d.run.ready = c.run.ready /\ d.run.deleted = c.run.deleted
    /\ Quiet(c.main, d.main)
    /\ \A src \in Sources : d.disk[src].pieces = c.disk[src].pieces
    /\ OnDisk(c.ses, c.disk) => OnDisk(d.ses, d.disk)
    /\ c.st.blocks /\ space => Held(d.st, d.ses)
    /\ c.ses.torrents = <<>> /\ c.st.required = <<>> => Follows(d.st, d.ses)

LEMMA SameLength ==
    ASSUME NEW S, NEW p \in Seq(S), NEW q \in Seq(S), DOMAIN p = DOMAIN q
    PROVE  Len(p) = Len(q)
<1>1. DOMAIN p = 1 .. Len(p) /\ DOMAIN q = 1 .. Len(q) /\ Len(p) \in Nat /\ Len(q) \in Nat
  OBVIOUS
<1>2. ASSUME NEW m \in Nat, NEW n \in Nat, 1 .. m = 1 .. n, m < n PROVE FALSE
  <2>1. n \in 1 .. n /\ n \notin 1 .. m
    BY <1>2
  <2> QED
    BY <1>2, <2>1
<1> DEFINE m == Len(p)
           n == Len(q)
<1>3. m \in Nat /\ n \in Nat /\ 1 .. m = 1 .. n
  BY <1>1
<1> HIDE DEF m, n
<1>4. ~ (m < n) /\ ~ (n < m)
  BY ONLY <1>2, <1>3
<1>5. m = n
  BY ONLY <1>3, <1>4
<1> QED
  BY <1>5 DEF m, n

LEMMA KeepsLength ==
    ASSUME NEW c, Sound(c), NEW d, Acts(c, d)
    PROVE  Len(d.ses.torrents) = Len(c.ses.torrents) /\ Len(c.ses.torrents) \in Nat
<1>1. c.ses \in SessionRecs /\ d.ses \in SessionRecs
  BY Fields DEF Acts
<1>2. c.ses.torrents \in Seq(TorrentRecs) /\ d.ses.torrents \in Seq(TorrentRecs)
  BY <1>1 DEF SessionRecs
<1>3. DOMAIN d.ses.torrents = DOMAIN c.ses.torrents
  BY DEF Acts, Keeps
<1>4. Len(c.ses.torrents) \in Nat
  BY <1>2
<1> QED
  BY <1>2, <1>3, <1>4, SameLength

LEMMA KeepsOnDisk ==
    ASSUME NEW c, Sound(c), NEW d, Acts(c, d), OnDisk(c.ses, c.disk)
    PROVE  OnDisk(d.ses, d.disk)
<1> SUFFICES ASSUME NEW h \in DOMAIN d.ses.torrents
             PROVE  d.ses.torrents[h].have \subseteq d.disk[d.ses.torrents[h].src].pieces
  BY DEF OnDisk
<1>1. /\ h \in DOMAIN c.ses.torrents
      /\ d.ses.torrents[h].src = c.ses.torrents[h].src
      /\ d.ses.torrents[h].have = c.ses.torrents[h].have
  BY DEF Acts, Keeps
<1>2. c.ses.torrents[h].src \in Sources
  BY <1>1, Fields, TorrentAt
<1>3. c.ses.torrents[h].have \subseteq c.disk[c.ses.torrents[h].src].pieces
  BY <1>1 DEF OnDisk
<1> QED
  BY <1>1, <1>2, <1>3 DEF Acts

LEMMA WorksLaunches ==
    ASSUME NEW c, Sound(c), NEW d, Works(c, d), NEW space
    PROVE  Launches(c, d, space)
<1>1. Len(d.ses.torrents) <= Len(c.ses.torrents) + 1
  BY KeepsLength DEF Works
<1>2. OnDisk(c.ses, c.disk) => OnDisk(d.ses, d.disk)
  BY KeepsOnDisk DEF Works
<1>3. c.st.blocks => Held(c.st, c.ses)
  BY DEF Held
<1>4. c.ses.torrents = <<>> => Single(c.ses) /\ Follows(c.st, c.ses)
  <2>1. c.ses.torrents = <<>> => DOMAIN c.ses.torrents = {}
    OBVIOUS
  <2> QED
    BY <2>1 DEF Single, Follows
<1> QED
  BY <1>1, <1>2, <1>3, <1>4 DEF Works, Acts, Launches

LEMMA BegunWorks ==
    ASSUME NEW c, Sound(c), NEW select \in BOOLEAN, NEW e, e = Begun(c, select)
    PROVE  /\ Sound(e) /\ e.id = c.id /\ e.ses = c.ses /\ e.main = c.main /\ e.disk = c.disk
           /\ e.st.blocks /\ e.st.required = c.st.required /\ e.st.timers = c.st.timers + 1
           /\ e.run.ready = 0 /\ e.run.deleted = FALSE
<1> DEFINE n == c.st.timers + 1
           sel == c.st.selectionBlock \/ select
           ask == c.glob.shouldUserSelectFiles \/ select
           st == [c.st EXCEPT !.blocks = TRUE, !.alertsLoopActive = TRUE, !.timers = n,
                              !.timerLive = TRUE, !.selectionBlock = sel]
           glob == [c.glob EXCEPT !.shouldUserSelectFiles = ask]
           new == NewRun
<1>1. e = [c EXCEPT !.st = st, !.glob = glob, !.run = new]
  BY DEF Begun
<1>2. /\ c \in Contexts /\ c.st \in StreamerRecs /\ c.glob \in GlobalRecs /\ GlobalOK(c.glob)
      /\ c.st.timers \in Nat
  BY Fields
<1>3. n \in Nat /\ n > 0
  BY <1>2
<1>4. sel \in BOOLEAN /\ ask \in BOOLEAN
  OBVIOUS
<1> HIDE DEF n, sel, ask
<1>5. /\ st \in StreamerRecs /\ st.blocks = TRUE /\ st.required = c.st.required /\ st.timers = n
  BY <1>2, <1>3, <1>4 DEF StreamerRecs
<1>6. glob \in GlobalRecs /\ glob.selectedFileIndex = c.glob.selectedFileIndex
  BY <1>2, <1>4 DEF GlobalRecs
<1>7. new \in RunRecs /\ new.ready = 0 /\ new.deleted = FALSE
  BY DEF NewRun, RunRecs
<1> HIDE DEF st, glob, new
<1>8. /\ e \in Contexts /\ e.id = c.id /\ e.st = st /\ e.glob = glob /\ e.ses = c.ses
      /\ e.disk = c.disk /\ e.run = new /\ e.main = c.main
  BY <1>1, <1>2, <1>5, <1>6, <1>7 DEF Contexts
<1>9. StreamerOK(st) /\ GlobalOK(glob)
  BY <1>2, <1>3, <1>5, <1>6 DEF StreamerOK, GlobalOK
<1>10. Sound(e)
  BY <1>8, <1>9, Fields DEF Sound
<1> QED
  BY <1>5, <1>7, <1>8, <1>10 DEF n

LEMMA MeasuredWorks ==
    ASSUME NEW c, Sound(c), NEW src \in Sources, NEW env, env.pick \in FileIndices,
           NEW e, e = Measured(c, src, env)
    PROVE  Works(c, e) /\ (env.file # "corrupt" => Sound(e) /\ Asked(c, e))
<1> DEFINE chosen == ChooseFile(c, src, env.pick)
           d == chosen.ctx
           f == chosen.file
           failed == [d EXCEPT !.glob.MIN_PIECES = 0]
           min == MinPieces(src, f)
<1>1. e = IF d.fault # "none" THEN d
          ELSE IF env.file = "corrupt" THEN Failed(failed)
          ELSE IF f \notin DOMAIN Files[src] THEN Crash(d, "file_index")
          ELSE [d EXCEPT !.glob.MIN_PIECES = min]
  BY DEF Measured
<1>2. Sound(d) /\ Asked(c, d)
  BY ChooseFileWorks
<1> HIDE DEF d, f
<1>3. Works(c, d)
  BY <1>2, AskedWorks
<1>4. ASSUME NEW m \in Nat, NEW u, u = [d EXCEPT !.glob.MIN_PIECES = m]
      PROVE  Sound(u) /\ Asked(c, u)
  <2> DEFINE glob == [d.glob EXCEPT !.MIN_PIECES = m]
  <2>1. u = [d EXCEPT !.glob = glob]
    BY <1>4
  <2>2. glob \in GlobalRecs /\ GlobalOK(glob)
    BY <1>2, Fields, MinPiecesSet
  <2> HIDE DEF glob
  <2>3. Sound(u) /\ Asked(d, u)
    BY <1>2, <2>1, <2>2, GlobalsWork
  <2> QED
    BY <1>2, <2>3 DEF Asked
<1>5. CASE e = d
  BY <1>2, <1>3, <1>5
<1>6. CASE env.file = "corrupt" /\ e = Failed(failed)
  <2>1. Sound(failed) /\ Asked(c, failed)
    BY <1>4
  <2> HIDE DEF failed
  <2>2. Works(c, failed)
    BY <2>1, AskedWorks
  <2>3. Works(failed, e)
    BY <1>6, <2>1, FailedWorks
  <2> QED
    BY <1>6, <2>2, <2>3, WorksTransitive
<1>7. CASE e = Crash(d, "file_index")
  <2>1. "file_index" \in Faults
    BY DEF Faults
  <2>2. Works(d, e) /\ Asked(d, e)
    BY <1>2, <1>7, <2>1, CrashWorks
  <2>3. Sound(e) /\ Asked(c, e)
    BY <1>2, <2>2 DEF Works, Acts, Asked
  <2> QED
    BY <2>3, AskedWorks
<1>8. CASE f \in DOMAIN Files[src] /\ e = [d EXCEPT !.glob.MIN_PIECES = min]
  <2>1. min \in Nat
    BY <1>8, MinPiecesTyped
  <2> HIDE DEF min
  <2>2. Sound(e) /\ Asked(c, e)
    BY <1>4, <1>8, <2>1
  <2> QED
    BY <2>2, AskedWorks
<1> QED
  BY <1>1, <1>5, <1>6, <1>7, <1>8

LEMMA HereWorks ==
    ASSUME NEW c, Sound(c), NEW src \in Sources, NEW e, e = [c EXCEPT !.st.savePath = src]
    PROVE  /\ Works(c, e) /\ e.ses = c.ses /\ e.disk = c.disk /\ e.run = c.run
           /\ e.main = c.main /\ e.id = c.id
           /\ e.st.blocks = c.st.blocks /\ e.st.required = c.st.required
           /\ e.st.timers = c.st.timers
<1> DEFINE st == [c.st EXCEPT !.savePath = src]
<1>1. e = [c EXCEPT !.st = st]
  OBVIOUS
<1>2. c \in Contexts /\ c.st \in StreamerRecs /\ StreamerOK(c.st)
  BY Fields
<1>3. /\ st \in StreamerRecs /\ st.timers = c.st.timers /\ st.timerLive = c.st.timerLive
      /\ st.blocks = c.st.blocks /\ st.streaming = c.st.streaming
      /\ st.required = c.st.required
  BY <1>2 DEF StreamerRecs
<1> HIDE DEF st
<1>4. /\ e \in Contexts /\ e.id = c.id /\ e.st = st /\ e.glob = c.glob /\ e.ses = c.ses
      /\ e.disk = c.disk /\ e.run = c.run /\ e.main = c.main
  BY <1>1, <1>2, <1>3 DEF Contexts
<1>5. StreamerOK(st)
  BY <1>2, <1>3 DEF StreamerOK
<1>6. Sound(e) /\ Quiet(c.main, e.main)
  BY <1>4, <1>5, Fields DEF Sound, Quiet
<1>7. Works(c, e)
  BY <1>3, <1>4, <1>6, SameWorks
<1> QED
  BY <1>3, <1>4, <1>7

LEMMA TorrentAdded ==
    ASSUME NEW c, Sound(c), NEW src \in Sources, NEW known,
           known \in SUBSET Pieces(src), known \subseteq c.disk[src].pieces,
           NEW n \in Subjects, n = Len(c.ses.torrents) + 1,
           NEW ses, ses = AddTorrent(c.ses, src, known), NEW e, e = [c EXCEPT !.ses = ses]
    PROVE  /\ Sound(e) /\ e.id = c.id /\ e.st = c.st /\ e.main = c.main /\ e.disk = c.disk
           /\ e.run = c.run
           /\ Len(e.ses.torrents) <= Len(c.ses.torrents) + 1
           /\ Known(e.ses, src) # {}
           /\ OnDisk(c.ses, c.disk) => OnDisk(e.ses, e.disk)
           /\ c.ses.torrents = <<>> => Single(e.ses)
<1>1. c \in Contexts /\ SessionOK(c.ses) /\ DiskOK(c.disk)
  BY Fields
<1>2. known \in SUBSET Pieces(src) /\ known \subseteq c.disk[src].pieces
  OBVIOUS
<1>3. /\ SessionOK(ses) /\ Len(ses.torrents) <= Len(c.ses.torrents) + 1
      /\ Known(ses, src) # {}
      /\ \A k \in DOMAIN ses.torrents :
            \/ k \in DOMAIN c.ses.torrents /\ ses.torrents[k] = c.ses.torrents[k]
            \/ k = Len(c.ses.torrents) + 1 /\ ses.torrents[k] = NewTorrent(src, known)
  BY <1>1, <1>2, AddTorrentKeeps
<1>5. ses \in SessionRecs
  BY <1>3 DEF SessionOK
<1>6. /\ e \in Contexts /\ e.id = c.id /\ e.st = c.st /\ e.glob = c.glob /\ e.ses = ses
      /\ e.disk = c.disk /\ e.run = c.run /\ e.main = c.main
  BY <1>1, <1>5 DEF Contexts
<1>7. Sound(e)
  BY <1>3, <1>6, Fields DEF Sound
<1>8. ASSUME OnDisk(c.ses, c.disk), NEW k \in DOMAIN ses.torrents
      PROVE  ses.torrents[k].have \subseteq c.disk[ses.torrents[k].src].pieces
  <2>1. CASE k \in DOMAIN c.ses.torrents /\ ses.torrents[k] = c.ses.torrents[k]
    BY <1>8, <2>1 DEF OnDisk
  <2>2. CASE ses.torrents[k] = NewTorrent(src, known)
    <3>1. ses.torrents[k].src = src /\ ses.torrents[k].have = known
      BY <1>2, <2>2, NewTorrentOK
    <3> QED
      BY <1>2, <3>1
  <2> QED
    BY <1>3, <2>1, <2>2
<1>9. c.ses.torrents = <<>> => Single(ses)
  <2>1. c.ses.torrents = <<>> => DOMAIN c.ses.torrents = {}
    OBVIOUS
  <2> QED
    BY <1>3, <2>1 DEF Single
<1> QED
  BY <1>3, <1>6, <1>7, <1>8, <1>9 DEF OnDisk

LEMMA AddedLaunches ==
    ASSUME NEW c, Sound(c), c.st.blocks, NEW src \in Sources, NEW env, env.pick \in FileIndices,
           Len(c.ses.torrents) + 1 \in Subjects, NEW e, e = Added(c, src, env)
    PROVE  Launches(c, e, env.space)
<1> DEFINE here  == [c EXCEPT !.st.savePath = src]
           known == IF src \in Magnets /\ c.disk[src].resume = "good"
                    THEN c.disk[src].pieces ELSE {}
           added == [here EXCEPT !.ses = AddTorrent(here.ses, src, known)]
           h     == CHOOSE k \in Known(added.ses, src) : TRUE
           ready == IF src \in Magnets THEN added ELSE MetadataReceived(added, h, env)
<1>1. e = IF env.dir = "nobase" THEN Failed(c)
          ELSE IF env.dir = "nodir" /\ c.disk[src] = EmptyDir THEN Failed(here)
          ELSE IF src \in Magnets /\ c.disk[src].resume = "garbage"
               THEN Crash(here, "add_torrent")
          ELSE IF ready.fault # "none" THEN ready
          ELSE [ready EXCEPT !.ses.paused = FALSE]
  BY DEF Added
<1>2. /\ Works(c, here) /\ here.ses = c.ses /\ here.disk = c.disk /\ here.run = c.run
      /\ here.main = c.main /\ here.id = c.id
      /\ here.st.blocks = c.st.blocks /\ here.st.required = c.st.required
      /\ here.st.timers = c.st.timers
  BY HereWorks
<1> HIDE DEF here
<1>3. Sound(here)
  BY <1>2 DEF Works, Acts
<1>4. CASE e = Failed(c)
  BY <1>4, FailedWorks, WorksLaunches
<1>5. CASE e = Failed(here)
  <2>1. Works(here, e)
    BY <1>3, <1>5, FailedWorks
  <2> QED
    BY <1>2, <2>1, WorksTransitive, WorksLaunches
<1>6. CASE e = Crash(here, "add_torrent")
  <2>1. "add_torrent" \in Faults
    BY DEF Faults
  <2>2. Works(here, e)
    BY <1>3, <1>6, <2>1, CrashWorks
  <2> QED
    BY <1>2, <2>2, WorksTransitive, WorksLaunches
<1>7. CASE e = ready \/ e = [ready EXCEPT !.ses.paused = FALSE]
  <2>1. known \in SUBSET Pieces(src) /\ known \subseteq here.disk[src].pieces
    <3>1. DiskOK(here.disk)
      BY <1>3, Fields
    <3> QED
      BY <1>2, <3>1 DEF DiskOK
  <2> HIDE DEF known
  <2>2. /\ Sound(added) /\ added.id = c.id /\ added.st = here.st /\ added.main = c.main
        /\ added.disk = c.disk /\ added.run = c.run
        /\ Len(added.ses.torrents) <= Len(c.ses.torrents) + 1
        /\ Known(added.ses, src) # {}
        /\ OnDisk(c.ses, c.disk) => OnDisk(added.ses, added.disk)
        /\ c.ses.torrents = <<>> => Single(added.ses)
    <3> DEFINE n == Len(here.ses.torrents) + 1
    <3>1. n \in Subjects /\ n = Len(here.ses.torrents) + 1
      BY <1>2
    <3> DEFINE ses == AddTorrent(here.ses, src, known)
    <3>2. ses = AddTorrent(here.ses, src, known) /\ added = [here EXCEPT !.ses = ses]
      OBVIOUS
    <3> HIDE DEF added, ses, n
    <3>3. Sound(added)
      BY ONLY src \in Sources, <1>3, <2>1, <3>1, <3>2, TorrentAdded
    <3>4. added.id = here.id
      BY ONLY src \in Sources, <1>3, <2>1, <3>1, <3>2, TorrentAdded
    <3>5. added.st = here.st /\ added.main = here.main
      BY ONLY src \in Sources, <1>3, <2>1, <3>1, <3>2, TorrentAdded
    <3>6. added.disk = here.disk /\ added.run = here.run
      BY ONLY src \in Sources, <1>3, <2>1, <3>1, <3>2, TorrentAdded
    <3>7. Len(added.ses.torrents) <= Len(here.ses.torrents) + 1
      BY ONLY src \in Sources, <1>3, <2>1, <3>1, <3>2, TorrentAdded
    <3>8. Known(added.ses, src) # {}
      BY ONLY src \in Sources, <1>3, <2>1, <3>1, <3>2, TorrentAdded, ZenonT(40)
    <3>9. OnDisk(here.ses, here.disk) => OnDisk(added.ses, added.disk)
      BY ONLY src \in Sources, <1>3, <2>1, <3>1, <3>2, TorrentAdded
    <3>10. here.ses.torrents = <<>> => Single(added.ses)
      BY ONLY src \in Sources, <1>3, <2>1, <3>1, <3>2, TorrentAdded
    <3> QED
      BY ONLY <1>2, <3>3, <3>4, <3>5, <3>6, <3>7, <3>8, <3>9, <3>10
  <2> HIDE DEF added
  <2>3. h \in Known(added.ses, src)
    BY <2>2
  <2> HIDE DEF h
  <2>4. h \in DOMAIN added.ses.torrents /\ added.ses.torrents[h].src = src
    BY <2>3 DEF Known, Torrents
  <2>5. src \notin Magnets => added.ses.torrents[h].meta
    <3>1. TorrentOK(added.ses.torrents[h])
      BY <2>2, <2>4, Fields, TorrentAt
    <3> QED
      BY <2>4, <3>1 DEF TorrentOK
  <2>6. Works(added, ready) /\ (env.space => ready.st.blocks = added.st.blocks)
    <3>1. CASE ready = added
      BY <2>2, <3>1, WorksReflexive
    <3>2. CASE src \notin Magnets /\ ready = MetadataReceived(added, h, env)
      BY <2>2, <2>4, <2>5, <3>2, MetadataReceivedWorks
    <3> QED
      BY <3>1, <3>2
  <2> HIDE DEF ready
  <2>7. Sound(ready) /\ Acts(added, ready)
    BY <2>6 DEF Works, Acts
  <2>8. env.space => ready.st.blocks
    BY <1>2, <2>2, <2>6
  <2>9. c.ses.torrents = <<>> /\ c.st.required = <<>> => Follows(ready.st, ready.ses)
    <3>1. c.st.required = <<>> => Follows(added.st, added.ses)
      BY <1>2, <2>2 DEF Follows
    <3> QED
      BY <2>2, <2>7, <3>1 DEF Acts
  <2>10. OnDisk(c.ses, c.disk) => OnDisk(ready.ses, ready.disk)
    BY <2>2, <2>7, KeepsOnDisk
  <2>11. Len(ready.ses.torrents) <= Len(c.ses.torrents) + 1
    BY <2>2, <2>7, KeepsLength
  <2>12. Launches(c, ready, env.space)
    <3>1. ready.id = c.id /\ ready.run.ready = c.run.ready /\ ready.run.deleted = c.run.deleted
          /\ Quiet(c.main, ready.main)
          /\ \A u \in Sources : ready.disk[u].pieces = c.disk[u].pieces
      BY <2>2, <2>6 DEF Works, Acts
    <3>2. ready.st.timers <= c.st.timers
      <4>1. added.st.timers = c.st.timers
        BY <1>2, <2>2
      <4> QED
        BY <2>7, <4>1 DEF Acts
    <3>3. env.space => Held(ready.st, ready.ses)
      BY <2>8 DEF Held
    <3> QED
      BY <2>7, <2>9, <2>10, <2>11, <3>1, <3>2, <3>3 DEF Launches
  <2>13. CASE e = [ready EXCEPT !.ses.paused = FALSE]
    <3> DEFINE ses == [ready.ses EXCEPT !.paused = FALSE]
    <3>1. e = [ready EXCEPT !.ses = ses]
      BY <2>13
    <3>2. SessionOK(ready.ses) /\ ready \in Contexts
      BY <2>7, Fields
    <3>3. SessionOK(ses) /\ ses.torrents = ready.ses.torrents
      BY <3>2, SetPaused, ZenonT(40)
    <3>4. ses \in SessionRecs
      BY <3>3 DEF SessionOK
    <3> HIDE DEF ses
    <3>5. /\ e \in Contexts /\ e.id = ready.id /\ e.st = ready.st /\ e.glob = ready.glob
          /\ e.ses = ses /\ e.disk = ready.disk /\ e.run = ready.run /\ e.main = ready.main
      BY <3>1, <3>2, <3>4 DEF Contexts
    <3>6. Sound(e)
      BY <2>7, <3>3, <3>5, Fields DEF Sound
    <3>7. OnDisk(ready.ses, ready.disk) => OnDisk(e.ses, e.disk)
      BY <3>3, <3>5 DEF OnDisk
    <3>8. Follows(ready.st, ready.ses) => Follows(e.st, e.ses)
      BY <3>3, <3>5 DEF Follows
    <3>9. env.space => Held(e.st, e.ses)
      BY <2>8, <3>5 DEF Held
    <3> QED
      BY <2>12, <3>3, <3>5, <3>6, <3>7, <3>8, <3>9 DEF Launches
  <2> QED
    BY <1>7, <2>12, <2>13
<1> QED
  BY <1>1, <1>4, <1>5, <1>6, <1>7

LEMMA StartedLaunches ==
    ASSUME NEW c, Sound(c), NEW src \in Sources, NEW select \in BOOLEAN,
           NEW env, env.pick \in FileIndices, env.file \in {"ok", "missing", "corrupt", "fatal"},
           Len(c.ses.torrents) + 1 \in Subjects,
           NEW b, b = Begun(c, select), NEW e, e = Started(c, src, select, env)
    PROVE  Launches(b, e, env.space)
<1> DEFINE m == Measured(b, src, env)
<1>1. /\ Sound(b) /\ b.ses = c.ses /\ b.st.blocks
  BY BegunWorks
<1>2. \/ e = Added(b, src, env)
      \/ e = Failed(b)
      \/ e = m
      \/ e = Crash(b, "torrent_info")
      \/ env.file = "ok" /\ e = Added(m, src, env)
  BY DEF Started
<1>3. Works(b, m) /\ (env.file # "corrupt" => Sound(m) /\ Asked(b, m))
  BY <1>1, MeasuredWorks
<1> HIDE DEF m
<1>4. Len(b.ses.torrents) + 1 \in Subjects
  BY <1>1
<1>5. CASE e = Added(b, src, env)
  BY <1>1, <1>4, <1>5, AddedLaunches
<1>6. CASE e = Failed(b)
  BY <1>1, <1>6, FailedWorks, WorksLaunches
<1>7. CASE e = m
  BY <1>1, <1>3, <1>7, WorksLaunches
<1>8. CASE e = Crash(b, "torrent_info")
  <2>1. "torrent_info" \in Faults
    BY DEF Faults
  <2> QED
    BY <1>1, <1>8, <2>1, CrashWorks, WorksLaunches
<1>9. CASE env.file = "ok" /\ e = Added(m, src, env)
  <2>1. Sound(m) /\ Asked(b, m)
    BY <1>3, <1>9
  <2>2. m.st = b.st /\ m.ses = b.ses /\ m.main = b.main /\ m.disk = b.disk /\ m.run = b.run
        /\ m.id = b.id
    BY <2>1 DEF Asked
  <2>3. Launches(m, e, env.space)
    BY <1>1, <1>4, <1>9, <2>1, <2>2, AddedLaunches
  <2> QED
    BY <2>2, <2>3 DEF Launches
<1> QED
  BY <1>2, <1>5, <1>6, <1>7, <1>8, <1>9
-----------------------------------------------------------------------------
(* The steps *)

LEMMA ContextSound ==
    ASSUME StreamerInv, NEW s \in Streamers, NEW c, c = Context(s)
    PROVE  /\ Sound(c) /\ c.id = s /\ c.st = streamer[s] /\ c.ses = session[s]
           /\ c.glob = globals /\ c.main = mainQueue /\ c.disk = disk /\ c.run = run[s]
<1>1. c = [id |-> s, st |-> streamer[s], ses |-> session[s], glob |-> globals,
           main |-> mainQueue, disk |-> disk, fault |-> "none", run |-> run[s]]
  BY DEF Context
<1>2. /\ streamer[s] \in StreamerRecs /\ session[s] \in SessionRecs /\ globals \in GlobalRecs
      /\ mainQueue \in Seq(Blocks) /\ disk \in [Sources -> Dirs] /\ run[s] \in RunRecs
      /\ "none" \in Faults
  BY DEF StreamerInv, VarTypes, Faults
<1>3. /\ c \in Contexts /\ c.id = s /\ c.st = streamer[s] /\ c.ses = session[s]
      /\ c.glob = globals /\ c.main = mainQueue /\ c.disk = disk /\ c.run = run[s]
  BY <1>1, <1>2 DEF Contexts
<1>4. Sound(c)
  BY <1>3 DEF Sound, StreamerInv, Good
<1> QED
  BY <1>3, <1>4

(* The context d is written back. *)
LEMMA Committed ==
    ASSUME StreamerInv, NEW s \in Streamers, NEW d, Sound(d), d.id = s, Commit(d)
    PROVE  /\ streamer'[s] = d.st /\ session'[s] = d.ses /\ run'[s] = d.run
           /\ globals' = d.glob /\ mainQueue' = d.main /\ disk' = d.disk
           /\ \A u \in Streamers : u # s => /\ streamer'[u] = streamer[u]
                                            /\ session'[u] = session[u]
                                            /\ run'[u] = run[u]
           /\ streamer' \in [Streamers -> StreamerRecs] /\ session' \in [Streamers -> SessionRecs]
           /\ run' \in [Streamers -> RunRecs] /\ globals' \in GlobalRecs
           /\ mainQueue' \in Seq(Blocks) /\ disk' \in [Sources -> Dirs] /\ fault' \in Faults
           /\ GlobalOK(globals') /\ DiskOK(disk')
<1>1. /\ streamer \in [Streamers -> StreamerRecs] /\ session \in [Streamers -> SessionRecs]
      /\ run \in [Streamers -> RunRecs]
  BY DEF StreamerInv, VarTypes
<1>2. /\ d.st \in StreamerRecs
      /\ d.ses \in SessionRecs /\ d.glob \in GlobalRecs /\ d.main \in Seq(Blocks)
      /\ d.disk \in [Sources -> Dirs] /\ d.fault \in Faults /\ d.run \in RunRecs
      /\ GlobalOK(d.glob) /\ DiskOK(d.disk)
  BY Fields
<1> QED
  BY <1>1, <1>2 DEF Commit

LEMMA AlertKept ==
    ASSUME NEW p, NEW q, DOMAIN p = DOMAIN q,
           \A k \in DOMAIN p : /\ q[k].src = p[k].src /\ p[k].have \subseteq q[k].have
                               /\ p[k].meta => q[k].meta,
           NEW a, AlertOK(p, a)
    PROVE  AlertOK(q, a)
BY DEF AlertOK

(* A step that does not touch the streamer u. *)
LEMMA Unmoved ==
    ASSUME NEW u \in Streamers, Good(u),
           streamer'[u] = streamer[u], session'[u] = session[u], batch'[u] = batch[u],
           run'[u] = run[u], budget'.starts[u] = budget.starts[u],
           Pending(mainQueue', u) = Pending(mainQueue, u),
           SessionOK(session[u]),
           OwnDirectories => \A src \in Sources : disk[src].pieces \subseteq disk'[src].pieces
    PROVE  Good(u)'
<1>1. BatchOK(u)' /\ BudgetOK(u)' /\ DeletedOK(u)' /\ Fresh(u)'
  BY DEF Good, BatchOK, BudgetOK, DeletedOK, Fresh
<1>2. OneStart => OnceOK(u)'
  BY DEF Good, OnceOK, OneStart
<1>3. OwnDirectories => OnDisk(session[u], disk')
  <2> SUFFICES ASSUME OwnDirectories, NEW h \in DOMAIN session[u].torrents
               PROVE  session[u].torrents[h].have
                         \subseteq disk'[session[u].torrents[h].src].pieces
    BY DEF OnDisk
  <2>1. session[u].torrents[h].src \in Sources
    BY TorrentAt
  <2>2. session[u].torrents[h].have \subseteq disk[session[u].torrents[h].src].pieces
    BY DEF Good, OnDisk
  <2> QED
    BY <2>1, <2>2
<1> QED
  BY <1>1, <1>2, <1>3 DEF Good, OneStart, OwnDirectories, SpaceSuffices

(* With one start, there is at most one torrent. *)
LEMMA OneTorrent ==
    ASSUME StreamerInv, OneStart, NEW s \in Streamers
    PROVE  Single(session[s])
<1>1. Len(session[s].torrents) + budget.starts[s] <= MaxStarts /\ MaxStarts <= 1
  BY DEF StreamerInv, Good, BudgetOK, OneStart
<1>2. session[s] \in SessionRecs /\ budget \in Budgets
  BY DEF StreamerInv, VarTypes
<1>3. session[s].torrents \in Seq(TorrentRecs) /\ budget.starts[s] \in Nat
  BY <1>2 DEF SessionRecs, Budgets
<1>4. /\ DOMAIN session[s].torrents = 1 .. Len(session[s].torrents)
      /\ Len(session[s].torrents) \in Nat
  BY <1>3
<1>5. MaxStarts \in Nat
  BY StreamerAssumption DEF StreamerAssumption
<1>6. Len(session[s].torrents) <= 1
  BY <1>1, <1>3, <1>4, <1>5
<1> QED
  BY <1>4, <1>6 DEF Single

LEMMA QuietPending ==
    ASSUME NEW q, NEW r, Quiet(q, r), NEW u
    PROVE  Pending(r, u) = Pending(q, u)
BY DEF Quiet, Pending

LEMMA ReadyPending ==
    ASSUME NEW q, NEW r, NEW b, Ready(q, r, b), NEW u
    PROVE  /\ b.id # u => Pending(r, u) = Pending(q, u)
           /\ Pending(q, u) = {} => Pending(r, u) \subseteq {Len(q) + 1}
BY DEF Ready, Pending

LEMMA HasTorrent ==
    ASSUME StreamerInv, NEW s \in Streamers, NEW h \in DOMAIN session[s].torrents
    PROVE  ~ run[s].deleted /\ budget.starts[s] # MaxStarts
<1>1. session[s].torrents # <<>>
  OBVIOUS
<1> QED
  BY <1>1 DEF StreamerInv, Good, DeletedOK, Fresh

(* A handler of s, or a call of the user that starts nothing. *)
LEMMA ActsKeep ==
    ASSUME StreamerInv, NEW s \in Streamers, NEW c, c = Context(s), NEW d, Acts(c, d), Commit(d),
           Quiet(c.main, d.main) \/ \E h \in DOMAIN c.ses.torrents : Plays(c, h, d),
           batch' \in [Streamers -> Seq(Alert \cup Report)],
           \A i \in DOMAIN batch'[s] : \E j \in DOMAIN batch[s] : batch'[s][i] = batch[s][j],
           \A u \in Streamers : u # s => batch'[u] = batch[u],
           budget' \in Budgets, budget'.starts = budget.starts,
           DeletedOK(s)', Fresh(s)'
    PROVE  StreamerInv'
<1>1. /\ Sound(c) /\ c.id = s /\ c.st = streamer[s] /\ c.ses = session[s]
      /\ c.main = mainQueue /\ c.disk = disk /\ c.run = run[s]
  BY ContextSound
<1>2. /\ Sound(d) /\ d.id = s /\ d.st.timers <= c.st.timers
      /\ d.st.blocks /\ ~ d.st.streaming => c.st.blocks /\ ~ c.st.streaming
      /\ d.run.ready = c.run.ready
      /\ Keeps(c.ses, d.ses)
      /\ \A src \in Sources : d.disk[src].pieces = c.disk[src].pieces
      /\ Held(c.st, c.ses) => Held(d.st, d.ses)
      /\ Single(c.ses) /\ Follows(c.st, c.ses) => Follows(d.st, d.ses)
  BY <1>1 DEF Acts
<1>3. /\ streamer'[s] = d.st /\ session'[s] = d.ses /\ run'[s] = d.run
      /\ mainQueue' = d.main /\ disk' = d.disk
      /\ \A u \in Streamers : u # s => /\ streamer'[u] = streamer[u]
                                       /\ session'[u] = session[u]
                                       /\ run'[u] = run[u]
      /\ GlobalOK(globals') /\ DiskOK(disk')
  BY <1>2, Committed
<1>4. VarTypes'
  <2>1. /\ streamer' \in [Streamers -> StreamerRecs] /\ session' \in [Streamers -> SessionRecs]
        /\ run' \in [Streamers -> RunRecs] /\ globals' \in GlobalRecs
        /\ mainQueue' \in Seq(Blocks) /\ disk' \in [Sources -> Dirs] /\ fault' \in Faults
    BY <1>2, Committed
  <2> QED
    BY <2>1 DEF VarTypes
<1>5. Good(s)
  BY DEF StreamerInv
<1>6. ASSUME NEW h \in DOMAIN c.ses.torrents, Plays(c, h, d)
      PROVE  /\ \A u \in Streamers : u # s => Pending(mainQueue', u) = Pending(mainQueue, u)
             /\ OneStart => OnceOK(s)'
  <2>1. PICK b \in Blocks : b.id = s /\ Ready(c.main, d.main, b)
    BY <1>1, <1>6 DEF Plays
  <2>2. \A u \in Streamers : u # s => Pending(mainQueue', u) = Pending(mainQueue, u)
    BY <1>1, <1>3, <2>1, ReadyPending
  <2>3. ASSUME OneStart PROVE OnceOK(s)'
    <3>1. c.st.blocks /\ ~ c.st.streaming /\ d.st.streaming
      BY <1>6 DEF Plays
    <3>2. OnceOK(s)
      BY <1>5, <2>3 DEF Good
    <3>3. Pending(mainQueue, s) = {} /\ run[s].ready = 0
      BY <1>1, <3>1, <3>2 DEF OnceOK
    <3>4. Pending(mainQueue', s) \subseteq {Len(c.main) + 1}
      BY <1>1, <1>3, <2>1, <3>3, ReadyPending
    <3>5. budget'.starts[s] # MaxStarts
      BY <1>1, HasTorrent
    <3>6. run'[s].ready = 0 /\ streamer'[s].streaming
      BY <1>1, <1>2, <1>3, <3>1, <3>3
    <3> QED
      BY <3>4, <3>5, <3>6 DEF OnceOK
  <2> QED
    BY <2>2, <2>3
<1>7. ASSUME Quiet(c.main, d.main)
      PROVE  /\ \A u \in Streamers : u # s => Pending(mainQueue', u) = Pending(mainQueue, u)
             /\ OneStart => OnceOK(s)'
  <2>1. \A u \in Streamers : Pending(mainQueue', u) = Pending(mainQueue, u)
    BY <1>1, <1>3, <1>7, QuietPending
  <2>2. ASSUME OneStart PROVE OnceOK(s)'
    <3>1. OnceOK(s)
      BY <1>5, <2>2 DEF Good
    <3>2. /\ run'[s].ready = run[s].ready
          /\ streamer'[s].blocks /\ ~ streamer'[s].streaming
                => streamer[s].blocks /\ ~ streamer[s].streaming
          /\ Pending(mainQueue', s) = Pending(mainQueue, s)
      BY <1>1, <1>2, <1>3, <2>1
    <3> QED
      BY <3>1, <3>2 DEF OnceOK
  <2> QED
    BY <2>1, <2>2
<1>8. /\ \A u \in Streamers : u # s => Pending(mainQueue', u) = Pending(mainQueue, u)
      /\ OneStart => OnceOK(s)'
  BY <1>6, <1>7
<1>9. ASSUME NEW u \in Streamers, u # s PROVE Good(u)'
  <2>1. Good(u) /\ SessionOK(session[u])
    BY DEF StreamerInv, Good
  <2>2. \A src \in Sources : disk[src].pieces \subseteq disk'[src].pieces
    BY <1>1, <1>2, <1>3
  <2> QED
    BY <1>3, <1>8, <1>9, <2>1, <2>2, Unmoved
<1>10. StreamerOK(streamer[s])' /\ SessionOK(session[s])'
  BY <1>2, <1>3, Fields
<1>11. BatchOK(s)'
  <2> SUFFICES ASSUME NEW i \in DOMAIN batch'[s]
               PROVE  AlertOK(session'[s].torrents, batch'[s][i])
    BY DEF BatchOK
  <2>1. AlertOK(session[s].torrents, batch'[s][i])
    BY <1>5 DEF Good, BatchOK
  <2>2. /\ DOMAIN session[s].torrents = DOMAIN session'[s].torrents
        /\ \A k \in DOMAIN session[s].torrents :
              /\ session'[s].torrents[k].src = session[s].torrents[k].src
              /\ session[s].torrents[k].have \subseteq session'[s].torrents[k].have
              /\ session[s].torrents[k].meta => session'[s].torrents[k].meta
    BY <1>1, <1>2, <1>3 DEF Keeps
  <2> QED
    BY <2>1, <2>2, AlertKept
<1>12. BudgetOK(s)'
  <2> DEFINE n == budget.starts[s]
  <2>1. c.st.timers + n <= MaxStarts /\ Len(c.ses.torrents) + n <= MaxStarts
    BY <1>1, <1>5 DEF Good, BudgetOK
  <2>2. Len(d.ses.torrents) = Len(c.ses.torrents) /\ Len(c.ses.torrents) \in Nat
    BY <1>1, KeepsLength
  <2>3. c.st.timers \in Nat /\ d.st.timers \in Nat
    BY <1>1, <1>2, Fields
  <2>4. n \in Nat /\ MaxStarts \in Nat
    BY StreamerAssumption DEF StreamerAssumption, StreamerInv, VarTypes, Budgets
  <2> HIDE DEF n
  <2>5. d.st.timers + n <= MaxStarts /\ Len(d.ses.torrents) + n <= MaxStarts
    BY <1>2, <2>1, <2>2, <2>3, <2>4
  <2> QED
    BY <1>3, <2>5 DEF BudgetOK, n
<1>13. SpaceSuffices => Held(streamer'[s], session'[s])
  BY <1>1, <1>2, <1>3, <1>5 DEF Good
<1>14. OneStart => Follows(streamer'[s], session'[s])
  BY <1>1, <1>2, <1>3, <1>5, OneTorrent DEF Good
<1>15. OwnDirectories => OnDisk(session'[s], disk')
  BY <1>1, <1>3, <1>5, KeepsOnDisk DEF Good
<1>16. Good(s)'
  BY <1>8, <1>10, <1>11, <1>12, <1>13, <1>14, <1>15
     DEF Good, OneStart, SpaceSuffices, OwnDirectories
<1> QED
  BY <1>3, <1>4, <1>9, <1>16 DEF StreamerInv

(* readyToPlay is dispatched only for files that are complete.             *)
Complete == \A i \in DOMAIN mainQueue' :
                LET b == mainQueue'[i]
                IN  i > Len(mainQueue) =>
                       FilePieces(b.path.src, b.path.file) \subseteq disk[b.path.src].pieces

LEMMA QuietComplete ==
    ASSUME StreamerInv, Quiet(mainQueue, mainQueue')
    PROVE  Complete
<1>1. mainQueue \in Seq(Blocks)
  BY DEF StreamerInv, VarTypes
<1>2. DOMAIN mainQueue = 1 .. Len(mainQueue) /\ Len(mainQueue) \in Nat
  BY <1>1
<1>3. \A i \in DOMAIN mainQueue' : ~ (i > Len(mainQueue))
  BY <1>2 DEF Quiet
<1> QED
  BY <1>3 DEF Complete

LEMMA ReadyBlockComplete ==
    ASSUME StreamerInv, NEW b, Ready(mainQueue, mainQueue', b),
           FilePieces(b.path.src, b.path.file) \subseteq disk[b.path.src].pieces
    PROVE  Complete
<1>1. mainQueue \in Seq(Blocks)
  BY DEF StreamerInv, VarTypes
<1>2. DOMAIN mainQueue = 1 .. Len(mainQueue) /\ Len(mainQueue) \in Nat
  BY <1>1
<1>3. ASSUME NEW i \in DOMAIN mainQueue', i > Len(mainQueue)
      PROVE  mainQueue'[i] = b
  <2>1. i \notin DOMAIN mainQueue
    BY <1>2, <1>3
  <2> QED
    BY <2>1 DEF Ready
<1> QED
  BY <1>3 DEF Complete

LEMMA Rest ==
    ASSUME NEW S, NEW q \in Seq(S), q # <<>>
    PROVE  /\ Tail(q) \in Seq(S) /\ Head(q) \in S /\ 1 \in DOMAIN q /\ Head(q) = q[1]
           /\ Len(Tail(q)) = Len(q) - 1
           /\ \A i \in DOMAIN Tail(q) : i + 1 \in DOMAIN q /\ Tail(q)[i] = q[i + 1]
OBVIOUS

LEMMA Dequeued ==
    ASSUME StreamerInv, NEW s \in Streamers, NEW type, Dequeue(s, type)
    PROVE  /\ batch' \in [Streamers -> Seq(Alert \cup Report)]
           /\ \A i \in DOMAIN batch'[s] : \E j \in DOMAIN batch[s] : batch'[s][i] = batch[s][j]
           /\ \A u \in Streamers : u # s => batch'[u] = batch[u]
           /\ budget' = budget /\ budget \in Budgets /\ batch[s] # <<>>
           /\ AlertOK(session[s].torrents, Head(batch[s])) /\ Head(batch[s]).type = type
<1>1. batch \in [Streamers -> Seq(Alert \cup Report)] /\ budget \in Budgets
  BY DEF StreamerInv, VarTypes
<1>2. batch[s] # <<>> /\ budget' = budget /\ Head(batch[s]).type = type
      /\ batch' = [batch EXCEPT ![s] = Tail(@)]
  BY DEF Dequeue
<1>3. /\ Tail(batch[s]) \in Seq(Alert \cup Report) /\ 1 \in DOMAIN batch[s]
      /\ Head(batch[s]) = batch[s][1]
      /\ \A i \in DOMAIN Tail(batch[s]) :
            i + 1 \in DOMAIN batch[s] /\ Tail(batch[s])[i] = batch[s][i + 1]
  BY <1>1, <1>2, Rest
<1>4. /\ batch'[s] = Tail(batch[s]) /\ \A u \in Streamers : u # s => batch'[u] = batch[u]
      /\ batch' \in [Streamers -> Seq(Alert \cup Report)]
  BY <1>1, <1>2, <1>3
<1>5. AlertOK(session[s].torrents, Head(batch[s]))
  BY <1>3 DEF StreamerInv, Good, BatchOK
<1> QED
  BY <1>1, <1>2, <1>3, <1>4, <1>5

(* An alert that a handler looks at names a torrent of the streamer. *)
LEMMA HandlerKeeps ==
    ASSUME StreamerInv, NEW s \in Streamers, NEW type \in Types, Dequeue(s, type),
           NEW c, c = Context(s), NEW d, Acts(c, d), Commit(d),
           NEW h, h = Subject(s),
           Quiet(c.main, d.main) \/ (Plays(c, h, d) /\ type = "torrent_finished")
    PROVE  StreamerInv' /\ (SingleFiles /\ OwnDirectories => Complete)
<1>1. /\ batch' \in [Streamers -> Seq(Alert \cup Report)]
      /\ \A i \in DOMAIN batch'[s] : \E j \in DOMAIN batch[s] : batch'[s][i] = batch[s][j]
      /\ \A u \in Streamers : u # s => batch'[u] = batch[u]
      /\ budget' = budget /\ budget \in Budgets
      /\ AlertOK(session[s].torrents, Head(batch[s])) /\ Head(batch[s]).type = type
  BY Dequeued
<1>2. type # DroppedType
  BY TypesAssumption DEF TypesAssumption
<1>3. /\ h \in DOMAIN session[s].torrents
      /\ type = "torrent_finished" /\ SingleFiles =>
            FilePieces(session[s].torrents[h].src, 0) \subseteq session[s].torrents[h].have
  BY <1>1, <1>2 DEF AlertOK, Subject
<1>4. ~ run[s].deleted /\ budget.starts[s] # MaxStarts
  BY <1>3, HasTorrent
<1>5. c.ses = session[s] /\ c.run = run[s] /\ c.main = mainQueue /\ c.id = s
  BY ContextSound
<1>6. Sound(d) /\ d.id = s /\ d.run.deleted = c.run.deleted
  BY <1>5 DEF Acts
<1>7. run'[s] = d.run /\ mainQueue' = d.main
  BY <1>6, Committed
<1>8. DeletedOK(s)' /\ Fresh(s)'
  BY <1>1, <1>4, <1>5, <1>6, <1>7 DEF DeletedOK, Fresh
<1>9. StreamerInv'
  BY <1>1, <1>3, <1>5, <1>8, ActsKeep
<1>10. ASSUME SingleFiles, OwnDirectories PROVE Complete
  <2>1. CASE Quiet(c.main, d.main)
    BY <1>5, <1>7, <2>1, QuietComplete
  <2>2. CASE Plays(c, h, d) /\ type = "torrent_finished"
    <3>1. PICK b \in Blocks : /\ b.path.src = c.ses.torrents[h].src
                              /\ SingleFiles => b.path.file = 0
                              /\ Ready(c.main, d.main, b)
      BY <2>2 DEF Plays
    <3>2. session[s].torrents[h].have \subseteq disk[session[s].torrents[h].src].pieces
      BY <1>3, <1>10 DEF StreamerInv, Good, OnDisk
    <3>3. FilePieces(b.path.src, b.path.file) \subseteq disk[b.path.src].pieces
      BY <1>3, <1>5, <1>10, <2>2, <3>1, <3>2
    <3> QED
      BY <1>5, <1>7, <3>1, <3>3, ReadyBlockComplete
  <2> QED
    BY <2>1, <2>2
<1> QED
  BY <1>9, <1>10

LEMMA WorksKeep ==
    ASSUME StreamerInv, NEW s \in Streamers, NEW type \in Types, Dequeue(s, type),
           NEW c, c = Context(s), NEW d, Works(c, d), Commit(d)
    PROVE  StreamerInv' /\ (SingleFiles /\ OwnDirectories => Complete)
<1>1. PICK h : h = Subject(s)
  OBVIOUS
<1>2. Acts(c, d) /\ Quiet(c.main, d.main)
  BY DEF Works
<1>3. Quiet(c.main, d.main) \/ (Plays(c, h, d) /\ type = "torrent_finished")
  BY <1>2
<1> QED
  BY ONLY StreamerInv, s \in Streamers, type \in Types, Dequeue(s, type), c = Context(s),
          Commit(d), <1>1, <1>2, <1>3, HandlerKeeps

LEMMA OutcomeOf ==
    ASSUME NEW s, NEW ends, NEW d \in Outcomes(s, ends)
    PROVE  d \in ends \/ d = Crash(Context(s), "expired_handle")
BY DEF Outcomes

LEMMA ExpiredKeeps ==
    ASSUME StreamerInv, NEW s \in Streamers, NEW type \in Types, Dequeue(s, type),
           NEW d, d = Crash(Context(s), "expired_handle"), Commit(d)
    PROVE  StreamerInv' /\ (SingleFiles /\ OwnDirectories => Complete)
<1>1. PICK c : c = Context(s)
  OBVIOUS
<1>2. Sound(c)
  BY <1>1, ContextSound
<1>3. "expired_handle" \in Faults
  BY DEF Faults
<1>4. Works(c, d)
  BY <1>1, <1>2, <1>3, CrashWorks
<1> QED
  BY <1>1, <1>4, WorksKeep

(* The torrent of the next alert. *)
LEMMA SubjectKnown ==
    ASSUME StreamerInv, NEW s \in Streamers, NEW type \in Types, Dequeue(s, type),
           NEW h, h = Subject(s)
    PROVE  /\ h \in DOMAIN session[s].torrents
           /\ type \in {"metadata_received", "piece_finished"} => session[s].torrents[h].meta
           /\ SourceOf(s) \in Sources
<1>1. AlertOK(session[s].torrents, Head(batch[s])) /\ Head(batch[s]).type = type
  BY Dequeued
<1>2. type # DroppedType
  BY TypesAssumption
<1>3. /\ h \in DOMAIN session[s].torrents
      /\ type \in {"metadata_received", "piece_finished"} => session[s].torrents[h].meta
  BY <1>1, <1>2 DEF AlertOK, Subject
<1>4. SessionOK(session[s])
  BY DEF StreamerInv, Good
<1>5. session[s].torrents[h].src \in Sources
  BY <1>3, <1>4, TorrentAt
<1> QED
  BY <1>3, <1>5 DEF SourceOf

LEMMA HandledTypes ==
    /\ "metadata_received" \in Types /\ "piece_finished" \in Types
    /\ "torrent_finished" \in Types /\ "save_resume_data" \in Types
BY StreamerAssumption DEF StreamerAssumption

LEMMA HandleMetadataKeeps ==
    ASSUME StreamerInv, NEW s \in Streamers, HandleMetadata(s)
    PROVE  StreamerInv' /\ (SingleFiles /\ OwnDirectories => Complete)
<1>1. PICK c, h : c = Context(s) /\ h = Subject(s)
  OBVIOUS
<1>2. Dequeue(s, "metadata_received") /\ "metadata_received" \in Types
  BY HandledTypes DEF HandleMetadata
<1>3. Sound(c) /\ c.ses = session[s]
  BY <1>1, ContextSound
<1>4. h \in DOMAIN c.ses.torrents /\ c.ses.torrents[h].meta /\ SourceOf(s) \in Sources
  BY <1>1, <1>2, <1>3, SubjectKnown
<1>5. PICK d \in Outcomes(s, {MetadataReceived(Context(s), Subject(s), env) :
                    env \in [space : SpaceOutcomes, pick : DOMAIN Files[SourceOf(s)]]}) :
         Commit(d)
  BY DEF HandleMetadata
<1>6. CASE d = Crash(Context(s), "expired_handle")
  BY <1>2, <1>5, <1>6, ExpiredKeeps
<1>7. ASSUME NEW env \in [space : SpaceOutcomes, pick : DOMAIN Files[SourceOf(s)]],
             d = MetadataReceived(c, h, env)
      PROVE  StreamerInv' /\ (SingleFiles /\ OwnDirectories => Complete)
  <2>1. env.pick \in FileIndices
    BY <1>4 DEF FileIndices
  <2>2. Works(c, d)
    BY <1>3, <1>4, <1>7, <2>1, MetadataReceivedWorks
  <2> QED
    BY <1>1, <1>2, <1>5, <2>2, WorksKeep
<1> QED
  BY <1>1, <1>5, <1>6, <1>7, OutcomeOf

LEMMA HandlePieceKeeps ==
    ASSUME StreamerInv, NEW s \in Streamers, HandlePiece(s)
    PROVE  StreamerInv' /\ (SingleFiles /\ OwnDirectories => Complete)
<1>1. PICK c, h : c = Context(s) /\ h = Subject(s)
  OBVIOUS
<1>2. Dequeue(s, "piece_finished") /\ "piece_finished" \in Types
  BY HandledTypes DEF HandlePiece
<1>3. Sound(c) /\ c.ses = session[s]
  BY <1>1, ContextSound
<1>4. h \in DOMAIN c.ses.torrents /\ c.ses.torrents[h].meta /\ SourceOf(s) \in Sources
  BY <1>1, <1>2, <1>3, SubjectKnown
<1>5. PICK d \in Outcomes(s, {PieceFinished(Context(s), Subject(s), env) :
                    env \in [space : SpaceOutcomes, pick : DOMAIN Files[SourceOf(s)],
                             stale : StaleValues(SourceOf(s)), heap : HeapOutcomes]}) :
         Commit(d)
  BY DEF HandlePiece
<1>6. CASE d = Crash(Context(s), "expired_handle")
  BY <1>2, <1>5, <1>6, ExpiredKeeps
<1>7. ASSUME NEW env \in [space : SpaceOutcomes, pick : DOMAIN Files[SourceOf(s)],
                          stale : StaleValues(SourceOf(s)), heap : HeapOutcomes],
             d = PieceFinished(c, h, env)
      PROVE  StreamerInv' /\ (SingleFiles /\ OwnDirectories => Complete)
  <2>1. env.pick \in FileIndices
    BY <1>4 DEF FileIndices
  <2>2. env.stale \in Int
    <3>1. env.stale \in StaleValues(SourceOf(s))
      OBVIOUS
    <3> QED
      BY <1>4, <3>1, Geometry DEF StaleValues
  <2>3. Works(c, d)
    BY <1>3, <1>4, <1>7, <2>1, <2>2, PieceFinishedWorks
  <2> QED
    BY <1>1, <1>2, <1>5, <2>3, WorksKeep
<1> QED
  BY <1>1, <1>5, <1>6, <1>7, OutcomeOf

LEMMA HandleFinishedKeeps ==
    ASSUME StreamerInv, NEW s \in Streamers, HandleFinished(s)
    PROVE  StreamerInv' /\ (SingleFiles /\ OwnDirectories => Complete)
<1>1. PICK c, h : c = Context(s) /\ h = Subject(s)
  OBVIOUS
<1>2. Dequeue(s, "torrent_finished") /\ "torrent_finished" \in Types
  BY HandledTypes DEF HandleFinished
<1>3. Sound(c) /\ c.ses = session[s]
  BY <1>1, ContextSound
<1>4. h \in DOMAIN c.ses.torrents /\ SourceOf(s) \in Sources
  BY <1>1, <1>2, <1>3, SubjectKnown
<1>5. PICK d \in Outcomes(s, {TorrentFinished(Context(s), Subject(s), env) :
                    env \in [pick : DOMAIN Files[SourceOf(s)]]}) :
         Commit(d)
  BY DEF HandleFinished
<1>6. CASE d = Crash(Context(s), "expired_handle")
  BY <1>2, <1>5, <1>6, ExpiredKeeps
<1>7. ASSUME NEW env \in [pick : DOMAIN Files[SourceOf(s)]],
             d = TorrentFinished(c, h, env)
      PROVE  StreamerInv' /\ (SingleFiles /\ OwnDirectories => Complete)
  <2>1. env.pick \in FileIndices
    BY <1>4 DEF FileIndices
  <2>2. Acts(c, d) /\ (Quiet(c.main, d.main) \/ Plays(c, h, d))
    BY <1>3, <1>4, <1>7, <2>1, TorrentFinishedActs
  <2> QED
    BY <1>1, <1>2, <1>5, <2>2, HandlerKeeps
<1> QED
  BY <1>1, <1>5, <1>6, <1>7, OutcomeOf

LEMMA HandleResumeDataKeeps ==
    ASSUME StreamerInv, NEW s \in Streamers, HandleResumeData(s)
    PROVE  StreamerInv' /\ (SingleFiles /\ OwnDirectories => Complete)
<1>1. PICK c, h : c = Context(s) /\ h = Subject(s)
  OBVIOUS
<1>2. Dequeue(s, "save_resume_data") /\ "save_resume_data" \in Types
  BY HandledTypes DEF HandleResumeData
<1>3. Sound(c) /\ c.ses = session[s]
  BY <1>1, ContextSound
<1>4. h \in DOMAIN c.ses.torrents
  BY <1>1, <1>2, <1>3, SubjectKnown
<1>5. PICK d \in Outcomes(s, {ResumeDataReady(Context(s), Subject(s), env) :
                    env \in [resume : ResumeOutcomes]}) :
         Commit(d)
  BY DEF HandleResumeData
<1>6. CASE d = Crash(Context(s), "expired_handle")
  BY <1>2, <1>5, <1>6, ExpiredKeeps
<1>7. ASSUME NEW env \in [resume : ResumeOutcomes], d = ResumeDataReady(c, h, env)
      PROVE  StreamerInv' /\ (SingleFiles /\ OwnDirectories => Complete)
  <2>1. env.resume \in {"good", "garbage"}
    BY StreamerAssumption DEF StreamerAssumption
  <2>2. Works(c, d)
    BY <1>3, <1>4, <1>7, <2>1, ResumeDataReadyWorks
  <2> QED
    BY <1>1, <1>2, <1>5, <2>2, WorksKeep
<1> QED
  BY <1>1, <1>5, <1>6, <1>7, OutcomeOf

(* Steps that leave the main queue alone. *)
LEMMA SameComplete ==
    ASSUME StreamerInv, mainQueue' = mainQueue
    PROVE  Complete
<1>1. Quiet(mainQueue, mainQueue')
  BY DEF Quiet
<1> QED
  BY <1>1, QuietComplete

(* A step of the network thread, or one that moves alerts of s: a torrent  *)
(* may get pieces and metadata, and what is urgent goes when it is there.  *)
LEMMA SessionMoves ==
    ASSUME StreamerInv, NEW s \in Streamers,
           streamer' = streamer, globals' = globals, mainQueue' = mainQueue, fault' = fault,
           run' = run, budget' \in Budgets, budget'.starts = budget.starts,
           disk' \in [Sources -> Dirs], DiskOK(disk'),
           \A src \in Sources : disk[src].pieces \subseteq disk'[src].pieces,
           NEW r, session' = [session EXCEPT ![s] = r], SessionOK(r),
           r.paused = session[s].paused, DOMAIN r.torrents = DOMAIN session[s].torrents,
           \A k \in DOMAIN session[s].torrents :
              LET t == session[s].torrents[k]
                  u == r.torrents[k]
              IN  /\ u.src = t.src /\ u.inSession = t.inSession
                  /\ t.have \subseteq u.have /\ u.critical = t.critical \ u.have,
           OnDisk(session[s], disk) => OnDisk(r, disk'),
           batch' \in [Streamers -> Seq(Alert \cup Report)],
           \A i \in DOMAIN batch'[s] : AlertOK(r.torrents, batch'[s][i]),
           \A u \in Streamers : u # s => batch'[u] = batch[u],
           DeletedOK(s)'
    PROVE  StreamerInv' /\ Complete
<1>1. /\ session \in [Streamers -> SessionRecs] /\ streamer \in [Streamers -> StreamerRecs]
      /\ budget.starts[s] \in Nat
  BY DEF StreamerInv, VarTypes, Budgets
<1>2. r \in SessionRecs /\ r.torrents \in Seq(TorrentRecs)
  BY DEF SessionOK, SessionRecs
<1>3. session'[s] = r /\ \A u \in Streamers : u # s => session'[u] = session[u]
  BY <1>1
<1>4. VarTypes'
  BY <1>1, <1>2 DEF StreamerInv, VarTypes
<1>5. Good(s)
  BY DEF StreamerInv
<1>6. session[s].torrents \in Seq(TorrentRecs)
  BY <1>1 DEF SessionRecs
<1>7. Len(r.torrents) = Len(session[s].torrents)
  BY <1>2, <1>6, SameLength
<1>8. session[s].torrents = <<>> => r.torrents = <<>>
  BY <1>2, <1>6, <1>7
<1>9. StreamerOK(streamer[s])' /\ SessionOK(session[s])' /\ BatchOK(s)'
  BY <1>3, <1>5 DEF Good, BatchOK
<1>10. BudgetOK(s)'
  BY <1>3, <1>5, <1>7 DEF Good, BudgetOK
<1>11. Fresh(s)'
  BY <1>3, <1>5, <1>8 DEF Good, Fresh
<1>12. SpaceSuffices => Held(streamer'[s], session'[s])
  BY <1>3, <1>5, ZenonT(40) DEF Good, Held
<1>13. OneStart => OnceOK(s)'
  BY <1>5 DEF Good, OnceOK
<1>14. OneStart => Follows(streamer'[s], session'[s])
  <2> SUFFICES ASSUME OneStart, NEW k \in DOMAIN r.torrents,
                      r.torrents[k].inSession, streamer[s].required # <<>>
               PROVE  r.torrents[k].critical
                        = (ToSet(streamer[s].required) \cap Pieces(r.torrents[k].src))
                             \ r.torrents[k].have
    BY <1>3 DEF Follows
  <2>1. session[s].torrents[k].critical
          = (ToSet(streamer[s].required) \cap Pieces(session[s].torrents[k].src))
               \ session[s].torrents[k].have
    BY <1>5 DEF Good, Follows
  <2> QED
    BY <2>1
<1>15. OwnDirectories => OnDisk(session'[s], disk')
  BY <1>3, <1>5 DEF Good
<1>16. Good(s)'
  BY <1>9, <1>10, <1>11, <1>12, <1>13, <1>14, <1>15
     DEF Good, OneStart, SpaceSuffices, OwnDirectories
<1>17. ASSUME NEW u \in Streamers, u # s PROVE Good(u)'
  <2>1. Good(u) /\ SessionOK(session[u])
    BY DEF StreamerInv, Good
  <2> QED
    BY <1>3, <1>17, <2>1, Unmoved
<1>18. GlobalOK(globals')
  BY DEF StreamerInv
<1>19. StreamerInv'
  BY <1>4, <1>16, <1>17, <1>18 DEF StreamerInv
<1> QED
  BY <1>19, SameComplete

LEMMA HandleOtherKeeps ==
    ASSUME StreamerInv, NEW s \in Streamers, HandleOther(s)
    PROVE  StreamerInv' /\ Complete
<1>1. PICK type : Dequeue(s, type)
  BY DEF HandleOther
<1>2. /\ streamer' = streamer /\ session' = session /\ globals' = globals
      /\ mainQueue' = mainQueue /\ disk' = disk /\ fault' = fault /\ run' = run
  BY DEF HandleOther
<1>3. /\ batch' \in [Streamers -> Seq(Alert \cup Report)]
      /\ \A i \in DOMAIN batch'[s] : \E j \in DOMAIN batch[s] : batch'[s][i] = batch[s][j]
      /\ \A u \in Streamers : u # s => batch'[u] = batch[u]
      /\ budget' = budget /\ budget \in Budgets /\ batch[s] # <<>>
  BY <1>1, Dequeued
<1>4. PICK r : r = session[s]
  OBVIOUS
<1>5. session' = [session EXCEPT ![s] = r]
  BY <1>2, <1>4 DEF StreamerInv, VarTypes
<1>6. SessionOK(r) /\ DiskOK(disk) /\ disk \in [Sources -> Dirs]
  BY <1>4 DEF StreamerInv, VarTypes, Good
<1>7. DeletedOK(s)'
  <2>1. ~ run[s].deleted
    BY <1>3 DEF StreamerInv, Good, DeletedOK
  <2> QED
    BY <1>2, <2>1 DEF DeletedOK
<1>8. \A i \in DOMAIN batch'[s] : AlertOK(r.torrents, batch'[s][i])
  BY <1>3, <1>4 DEF StreamerInv, Good, BatchOK
<1>9. \A k \in DOMAIN session[s].torrents :
         session[s].torrents[k].critical = session[s].torrents[k].critical \ r.torrents[k].have
  <2> SUFFICES ASSUME NEW k \in DOMAIN session[s].torrents
               PROVE  session[s].torrents[k].critical \cap session[s].torrents[k].have = {}
    BY <1>4
  <2>1. TorrentOK(session[s].torrents[k])
    BY <1>4, <1>6, TorrentAt
  <2> QED
    BY <2>1 DEF TorrentOK
<1> QED
  BY <1>2, <1>3, <1>4, <1>5, <1>6, <1>7, <1>8, <1>9, SessionMoves

LEMMA AlertsLoopKeeps ==
    ASSUME StreamerInv, NEW s \in Streamers, AlertsLoop(s)
    PROVE  StreamerInv' /\ Complete
<1>1. /\ streamer' = streamer /\ globals' = globals /\ budget' = budget
      /\ mainQueue' = mainQueue /\ disk' = disk /\ fault' = fault /\ run' = run
      /\ session[s].queue # <<>>
      /\ batch' = [batch EXCEPT ![s] = Popped(session[s])]
      /\ session' = [session EXCEPT ![s].queue = <<>>, ![s].lost = {}]
  BY DEF AlertsLoop
<1>2. PICK ses, r : ses = session[s] /\ r = [ses EXCEPT !.queue = <<>>, !.lost = {}]
  OBVIOUS
<1>3. /\ session \in [Streamers -> SessionRecs] /\ budget \in Budgets
      /\ batch \in [Streamers -> Seq(Alert \cup Report)]
  BY DEF StreamerInv, VarTypes
<1>4. session' = [session EXCEPT ![s] = r]
  BY <1>1, <1>2, <1>3 DEF SessionRecs
<1>5. SessionOK(ses) /\ DiskOK(disk) /\ disk \in [Sources -> Dirs]
  BY <1>2 DEF StreamerInv, VarTypes, Good
<1>6. /\ r \in SessionRecs /\ r.paused = ses.paused /\ r.torrents = ses.torrents
      /\ r.queue = <<>>
  <2>1. ses \in SessionRecs
    BY <1>5 DEF SessionOK
  <2>2. <<>> \in Seq(Alert)
    OBVIOUS
  <2> QED
    BY <1>2, <2>1, <2>2 DEF SessionRecs
<1>7. SessionOK(r)
  BY <1>5, <1>6 DEF SessionOK
<1>8. DeletedOK(s)'
  <2>1. ~ run[s].deleted
    BY <1>1 DEF StreamerInv, Good, DeletedOK
  <2> QED
    BY <1>1, <2>1 DEF DeletedOK
<1>9. /\ Popped(ses) \in Seq(Alert \cup Report)
      /\ \A i \in DOMAIN Popped(ses) : AlertOK(ses.torrents, Popped(ses)[i])
  <2>1. /\ ses.queue \in Seq(Alert) /\ ses.lost \in SUBSET Types
        /\ \A i \in DOMAIN ses.queue : AlertOK(ses.torrents, ses.queue[i])
    BY <1>5 DEF SessionOK, SessionRecs
  <2>2. ses.queue \in Seq(Alert \cup Report)
    BY <2>1
  <2>3. CASE ses.lost = {}
    BY <2>1, <2>2, <2>3 DEF Popped
  <2>4. CASE ses.lost # {}
    <3> DEFINE e == [type |-> DroppedType, about |-> 0, lost |-> ses.lost]
    <3>1. 0 \in Subjects
      BY StreamerAssumption DEF StreamerAssumption
    <3>2. e \in Alert \cup Report /\ e.type = DroppedType
      BY <2>1, <3>1 DEF Report
    <3>3. AlertOK(ses.torrents, e)
      BY <3>2 DEF AlertOK
    <3>4. Popped(ses) = Append(ses.queue, e)
      BY <2>4 DEF Popped
    <3> HIDE DEF e
    <3>5. /\ Append(ses.queue, e) \in Seq(Alert \cup Report)
          /\ \A i \in DOMAIN Append(ses.queue, e) :
                 \/ i = Len(ses.queue) + 1 /\ Append(ses.queue, e)[i] = e
                 \/ i \in DOMAIN ses.queue /\ Append(ses.queue, e)[i] = ses.queue[i]
      BY <2>2, <3>2, Appended
    <3> QED
      BY <2>1, <3>3, <3>4, <3>5
  <2> QED
    BY <2>3, <2>4
<1>10. /\ batch' \in [Streamers -> Seq(Alert \cup Report)]
       /\ batch'[s] = Popped(ses)
       /\ \A u \in Streamers : u # s => batch'[u] = batch[u]
  BY <1>1, <1>2, <1>3, <1>9
<1>11. \A k \in DOMAIN session[s].torrents :
          LET t == session[s].torrents[k]
              u == r.torrents[k]
          IN  /\ u.src = t.src /\ u.inSession = t.inSession
              /\ t.have \subseteq u.have /\ u.critical = t.critical \ u.have
  <2> SUFFICES ASSUME NEW k \in DOMAIN ses.torrents
               PROVE  ses.torrents[k].critical \cap ses.torrents[k].have = {}
    BY <1>2, <1>6
  <2>1. TorrentOK(ses.torrents[k])
    BY <1>5, TorrentAt
  <2> QED
    BY <2>1 DEF TorrentOK
<1>12. OnDisk(session[s], disk) => OnDisk(r, disk')
  BY <1>1, <1>2, <1>6 DEF OnDisk
<1>13. \A i \in DOMAIN batch'[s] : AlertOK(r.torrents, batch'[s][i])
  BY <1>6, <1>9, <1>10
<1>14. r.paused = session[s].paused /\ DOMAIN r.torrents = DOMAIN session[s].torrents
  BY <1>2, <1>6
<1>15. /\ budget' \in Budgets /\ budget'.starts = budget.starts
       /\ disk' \in [Sources -> Dirs] /\ DiskOK(disk')
       /\ \A src \in Sources : disk[src].pieces \subseteq disk'[src].pieces
  BY <1>1, <1>3, <1>5
<1> QED
  BY <1>1, <1>4, <1>7, <1>8, <1>10, <1>11, <1>12, <1>13, <1>14, <1>15, SessionMoves

(* The network thread changes one torrent of s. *)
LEMMA NetworkKeeps ==
    ASSUME StreamerInv, NEW s \in Streamers, NEW ses, ses = session[s],
           NEW h \in DOMAIN ses.torrents, NEW r, SessionOK(r), NetworkStep(s, r),
           budget' \in Budgets, budget'.starts = budget.starts,
           disk' \in [Sources -> Dirs], DiskOK(disk'),
           \A src \in Sources : disk[src].pieces \subseteq disk'[src].pieces,
           Others(ses, r, h), NEW t, t = ses.torrents[h], NEW u, u = r.torrents[h],
           u.src = t.src, u.inSession = t.inSession, t.meta => u.meta,
           t.have \subseteq u.have, u.critical = t.critical \ u.have,
           u.have \subseteq t.have \cup disk'[t.src].pieces
    PROVE  StreamerInv' /\ Complete
<1>1. /\ streamer' = streamer /\ batch' = batch /\ globals' = globals
      /\ mainQueue' = mainQueue /\ fault' = fault /\ run' = run
      /\ session' = [session EXCEPT ![s] = r]
  BY DEF NetworkStep
<1>2. SessionOK(ses) /\ BatchOK(s) /\ batch \in [Streamers -> Seq(Alert \cup Report)]
  BY DEF StreamerInv, VarTypes, Good
<1>3. /\ r.paused = ses.paused /\ DOMAIN r.torrents = DOMAIN ses.torrents
      /\ \A k \in DOMAIN ses.torrents : k # h => r.torrents[k] = ses.torrents[k]
  BY DEF Others
<1>4. \A k \in DOMAIN ses.torrents : /\ ses.torrents[k].critical \cap ses.torrents[k].have = {}
                                     /\ ses.torrents[k].src \in Sources
  <2> SUFFICES ASSUME NEW k \in DOMAIN ses.torrents
               PROVE  /\ ses.torrents[k].critical \cap ses.torrents[k].have = {}
                      /\ ses.torrents[k].src \in Sources
    OBVIOUS
  <2>1. TorrentOK(ses.torrents[k]) /\ ses.torrents[k].src \in Sources
    BY <1>2, TorrentAt
  <2> QED
    BY <2>1 DEF TorrentOK
<1>5. \A k \in DOMAIN session[s].torrents :
         LET p == session[s].torrents[k]
             q == r.torrents[k]
         IN  /\ q.src = p.src /\ q.inSession = p.inSession
             /\ p.have \subseteq q.have /\ q.critical = p.critical \ q.have
  <2>1. ASSUME NEW k \in DOMAIN ses.torrents
        PROVE  /\ r.torrents[k].src = ses.torrents[k].src
               /\ r.torrents[k].inSession = ses.torrents[k].inSession
               /\ ses.torrents[k].have \subseteq r.torrents[k].have
               /\ r.torrents[k].critical = ses.torrents[k].critical \ r.torrents[k].have
    <3>1. CASE k = h
      BY <3>1
    <3>2. CASE k # h
      BY <1>3, <1>4, <2>1, <3>2
    <3> QED
      BY <3>1, <3>2
  <2> QED
    BY <2>1
<1>6. OnDisk(session[s], disk) => OnDisk(r, disk')
  <2> SUFFICES ASSUME OnDisk(ses, disk), NEW k \in DOMAIN ses.torrents
               PROVE  r.torrents[k].have \subseteq disk'[r.torrents[k].src].pieces
    BY <1>3 DEF OnDisk
  <2>1. /\ ses.torrents[k].have \subseteq disk[ses.torrents[k].src].pieces
        /\ ses.torrents[k].src \in Sources
    BY <1>4 DEF OnDisk
  <2>2. ses.torrents[k].have \subseteq disk'[ses.torrents[k].src].pieces
    BY <2>1
  <2>3. CASE k = h
    BY <2>2, <2>3
  <2>4. CASE k # h
    BY <1>3, <2>2, <2>4
  <2> QED
    BY <2>3, <2>4
<1>7. \A i \in DOMAIN batch'[s] : AlertOK(r.torrents, batch'[s][i])
  <2> SUFFICES ASSUME NEW i \in DOMAIN batch[s]
               PROVE  AlertOK(r.torrents, batch[s][i])
    BY <1>1
  <2>1. AlertOK(ses.torrents, batch[s][i])
    BY <1>2 DEF BatchOK
  <2>2. \A k \in DOMAIN ses.torrents : /\ r.torrents[k].src = ses.torrents[k].src
                                       /\ ses.torrents[k].have \subseteq r.torrents[k].have
                                       /\ ses.torrents[k].meta => r.torrents[k].meta
    BY <1>3
  <2> QED
    BY <1>3, <2>1, <2>2, AlertKept
<1>8. DeletedOK(s)'
  <2>1. ~ run[s].deleted
    BY HasTorrent
  <2> QED
    BY <1>1, <2>1 DEF DeletedOK
<1>9. r.paused = session[s].paused /\ DOMAIN r.torrents = DOMAIN session[s].torrents
  BY <1>3
<1>10. batch' \in [Streamers -> Seq(Alert \cup Report)]
       /\ \A v \in Streamers : v # s => batch'[v] = batch[v]
  BY <1>1, <1>2
<1> QED
  BY <1>1, <1>5, <1>6, <1>7, <1>8, <1>9, <1>10, SessionMoves

(* The disk and the budget stay. *)
LEMMA StaysOnDisk ==
    ASSUME StreamerInv
    PROVE  /\ budget \in Budgets /\ disk \in [Sources -> Dirs] /\ DiskOK(disk)
BY DEF StreamerInv, VarTypes

LEMMA DownloadPieceKeeps ==
    ASSUME StreamerInv, NEW s \in Streamers, NEW h, DownloadPiece(s, h)
    PROVE  StreamerInv' /\ Complete
<1>1. PICK ses, t : ses = session[s] /\ t = ses.torrents[h]
  OBVIOUS
<1>2. h \in DOMAIN ses.torrents /\ t.state = "downloading" /\ budget' = budget
  BY <1>1 DEF DownloadPiece, Running, Torrents
<1>3. SessionOK(ses)
  BY <1>1 DEF StreamerInv, Good
<1>4. t.meta /\ t.src \in Sources
  <2>1. TorrentOK(t) /\ t.src \in Sources
    BY <1>1, <1>2, <1>3, TorrentAt
  <2> QED
    BY <1>2, <2>1 DEF TorrentOK
<1>5. PICK p \in Pieces(t.src) \ t.have :
         /\ NetworkStep(s, WeHave(session[s], h, p))
         /\ disk' = [disk EXCEPT ![t.src].pieces = @ \cup {p}]
  BY <1>1 DEF DownloadPiece
<1>6. PICK r, u : r = WeHave(ses, h, p) /\ u = r.torrents[h]
  OBVIOUS
<1>7. /\ SessionOK(r) /\ Others(ses, r, h)
      /\ u.src = t.src /\ u.meta /\ u.inSession = t.inSession
      /\ u.have = t.have \cup {p} /\ u.critical = t.critical \ {p}
  <2>1. t.meta /\ p \in Pieces(t.src) /\ t = ses.torrents[h] /\ r = WeHave(ses, h, p)
    BY <1>1, <1>4, <1>5, <1>6
  <2>2. /\ SessionOK(r) /\ Others(ses, r, h)
        /\ r.torrents[h].src = t.src /\ r.torrents[h].meta
        /\ r.torrents[h].inSession = t.inSession
        /\ r.torrents[h].have = t.have \cup {p} /\ r.torrents[h].critical = t.critical \ {p}
    BY <1>2, <1>3, <2>1, WeHaveKeeps
  <2> QED
    BY <1>6, <2>2
<1>8. u.critical = t.critical \ u.have
  <2>1. TorrentOK(t)
    BY <1>1, <1>2, <1>3, TorrentAt
  <2>2. t.critical \cap t.have = {}
    BY <2>1 DEF TorrentOK
  <2> QED
    BY <1>7, <2>2
<1>9. budget \in Budgets /\ disk \in [Sources -> Dirs] /\ DiskOK(disk)
  BY StaysOnDisk
<1>10. p \in Int
  BY GeometryAssumption, <1>4 DEF GeometryAssumption, Pieces
<1>11. /\ disk' \in [Sources -> Dirs]
       /\ \A src \in Sources : src # t.src => disk'[src] = disk[src]
       /\ disk'[t.src].pieces = disk[t.src].pieces \cup {p}
  BY <1>4, <1>5, <1>9, <1>10 DEF Dirs
<1>12. DiskOK(disk')
  <2> SUFFICES ASSUME NEW src \in Sources PROVE disk'[src].pieces \subseteq Pieces(src)
    BY DEF DiskOK
  <2>1. disk[src].pieces \subseteq Pieces(src)
    BY <1>9 DEF DiskOK
  <2>2. CASE src = t.src
    BY <1>5, <1>11, <2>1, <2>2
  <2>3. CASE src # t.src
    BY <1>11, <2>1, <2>3
  <2> QED
    BY <2>2, <2>3
<1>13. /\ \A src \in Sources : disk[src].pieces \subseteq disk'[src].pieces
       /\ u.have \subseteq t.have \cup disk'[t.src].pieces
       /\ t.have \subseteq u.have
  BY <1>7, <1>11
<1>14. NetworkStep(s, r)
  BY <1>1, <1>5, <1>6
<1> QED
  BY <1>1, <1>2, <1>6, <1>7, <1>8, <1>9, <1>11, <1>12, <1>13, <1>14, NetworkKeeps, SMTT(30)

LEMMA CheckFilesKeeps ==
    ASSUME StreamerInv, NEW s \in Streamers, NEW h, CheckFiles(s, h)
    PROVE  StreamerInv' /\ Complete
<1>1. PICK ses, t : ses = session[s] /\ t = ses.torrents[h]
  OBVIOUS
<1>2. /\ h \in DOMAIN ses.torrents /\ t.state = "checking"
      /\ budget' = budget /\ disk' = disk
  BY <1>1 DEF CheckFiles, Running, Torrents
<1>3. SessionOK(ses)
  BY <1>1 DEF StreamerInv, Good
<1>4. t.meta /\ t.src \in Sources /\ t.critical \cap t.have = {}
  <2>1. TorrentOK(t) /\ t.src \in Sources
    BY <1>1, <1>2, <1>3, TorrentAt
  <2> QED
    BY <1>2, <2>1 DEF TorrentOK
<1>5. budget \in Budgets /\ disk \in [Sources -> Dirs] /\ DiskOK(disk)
  BY StaysOnDisk
<1>6. ASSUME NEW p \in disk[t.src].pieces \ t.have, NetworkStep(s, WeHave(ses, h, p))
      PROVE  StreamerInv' /\ Complete
  <2>1. p \in Pieces(t.src)
    BY <1>4, <1>5 DEF DiskOK
  <2>2. PICK r, u : r = WeHave(ses, h, p) /\ u = r.torrents[h]
    OBVIOUS
  <2>3. /\ SessionOK(r) /\ Others(ses, r, h)
        /\ u.src = t.src /\ u.meta /\ u.inSession = t.inSession
        /\ u.have = t.have \cup {p} /\ u.critical = t.critical \ {p}
    <3>1. t = ses.torrents[h] /\ r = WeHave(ses, h, p)
      BY <1>1, <2>2
    <3>2. /\ SessionOK(r) /\ Others(ses, r, h)
          /\ r.torrents[h].src = t.src /\ r.torrents[h].meta
          /\ r.torrents[h].inSession = t.inSession
          /\ r.torrents[h].have = t.have \cup {p} /\ r.torrents[h].critical = t.critical \ {p}
      BY <1>2, <1>3, <1>4, <2>1, <3>1, WeHaveKeeps
    <3> QED
      BY <2>2, <3>2
  <2>4. /\ u.critical = t.critical \ u.have /\ t.have \subseteq u.have
        /\ u.have \subseteq t.have \cup disk'[t.src].pieces
    BY <1>2, <1>4, <2>3
  <2>5. NetworkStep(s, r)
    BY <1>6, <2>2
  <2> QED
    BY <1>1, <1>2, <1>5, <2>2, <2>3, <2>4, <2>5, NetworkKeeps
<1>7. ASSUME NEW hashed \in BOOLEAN, NetworkStep(s, FilesChecked(ses, h, hashed))
      PROVE  StreamerInv' /\ Complete
  <2>1. PICK r, u : r = FilesChecked(ses, h, hashed) /\ u = r.torrents[h]
    OBVIOUS
  <2>2. SessionOK(r) /\ Others(ses, r, h) /\ Kept(t, u) /\ u.critical = t.critical
    BY <1>1, <1>2, <1>3, <1>4, <2>1, FilesCheckedKeeps
  <2>3. /\ u.src = t.src /\ u.meta = t.meta /\ u.inSession = t.inSession
        /\ u.have = t.have /\ u.critical = t.critical \ u.have /\ t.have \subseteq u.have
        /\ u.have \subseteq t.have \cup disk'[t.src].pieces
    BY <1>4, <2>2 DEF Kept
  <2>4. NetworkStep(s, r)
    BY <1>7, <2>1
  <2> QED
    BY <1>1, <1>2, <1>5, <2>1, <2>2, <2>3, <2>4, NetworkKeeps
<1> QED
  BY <1>1, <1>6, <1>7 DEF CheckFiles

LEMMA FetchMetadataKeeps ==
    ASSUME StreamerInv, NEW s \in Streamers, NEW h, FetchMetadata(s, h)
    PROVE  StreamerInv' /\ Complete
<1>1. PICK ses, t, r, u : /\ ses = session[s] /\ t = ses.torrents[h]
                          /\ r = ReceiveMetadata(ses, h) /\ u = r.torrents[h]
  OBVIOUS
<1>2. /\ h \in DOMAIN ses.torrents /\ budget' = budget /\ disk' = disk /\ NetworkStep(s, r)
  BY <1>1 DEF FetchMetadata, Running, Torrents
<1>3. SessionOK(ses)
  BY <1>1 DEF StreamerInv, Good
<1>4. t.critical \cap t.have = {}
  <2>1. TorrentOK(t)
    BY <1>1, <1>2, <1>3, TorrentAt
  <2> QED
    BY <2>1 DEF TorrentOK
<1>5. budget \in Budgets /\ disk \in [Sources -> Dirs] /\ DiskOK(disk)
  BY StaysOnDisk
<1>6. /\ SessionOK(r) /\ Others(ses, r, h)
      /\ u.src = t.src /\ u.meta /\ u.inSession = t.inSession
      /\ u.have = t.have /\ u.critical = t.critical
  BY <1>1, <1>2, <1>3, ReceiveMetadataKeeps
<1>7. /\ u.critical = t.critical \ u.have /\ t.have \subseteq u.have
      /\ u.have \subseteq t.have \cup disk'[t.src].pieces
  BY <1>4, <1>6
<1> QED
  BY <1>1, <1>2, <1>5, <1>6, <1>7, NetworkKeeps

LEMMA AutoManageKeeps ==
    ASSUME StreamerInv, NEW s \in Streamers, NEW h, AutoManage(s, h)
    PROVE  StreamerInv' /\ Complete
<1>1. PICK ses, t, r, u : /\ ses = session[s] /\ t = ses.torrents[h]
                          /\ r = [ses EXCEPT !.torrents[h].paused = FALSE] /\ u = r.torrents[h]
  OBVIOUS
<1>2. /\ h \in DOMAIN ses.torrents /\ budget' = budget /\ disk' = disk /\ NetworkStep(s, r)
  BY <1>1 DEF AutoManage, Torrents
<1>3. SessionOK(ses)
  BY <1>1 DEF StreamerInv, Good
<1>4. t.critical \cap t.have = {}
  <2>1. TorrentOK(t)
    BY <1>1, <1>2, <1>3, TorrentAt
  <2> QED
    BY <2>1 DEF TorrentOK
<1>5. budget \in Budgets /\ disk \in [Sources -> Dirs] /\ DiskOK(disk)
  BY StaysOnDisk
<1>6. SessionOK(r) /\ Others(ses, r, h) /\ Kept(t, u) /\ u.critical = t.critical
  BY <1>1, <1>2, <1>3, ResumedKeeps
<1>7. /\ u.src = t.src /\ u.meta = t.meta /\ u.inSession = t.inSession
      /\ u.critical = t.critical \ u.have /\ t.have \subseteq u.have
      /\ u.have \subseteq t.have \cup disk'[t.src].pieces
  BY <1>4, <1>6 DEF Kept
<1>8. ses = session[s] /\ t = ses.torrents[h] /\ u = r.torrents[h]
  BY <1>1
<1> QED
  BY <1>2, <1>5, <1>6, <1>7, <1>8, NetworkKeeps

LEMMA ReadPieceKeeps ==
    ASSUME StreamerInv, NEW s \in Streamers, NEW h \in DOMAIN session[s].torrents,
           ReadPiece(s, h)
    PROVE  StreamerInv' /\ Complete
<1>1. PICK ses, t, r, u : /\ ses = session[s] /\ t = ses.torrents[h]
                          /\ r = ReadComplete(ses, h) /\ u = r.torrents[h]
  OBVIOUS
<1>2. /\ h \in DOMAIN ses.torrents /\ budget' = budget /\ disk' = disk /\ NetworkStep(s, r)
      /\ t.reading > 0
  BY <1>1 DEF ReadPiece
<1>3. SessionOK(ses)
  BY <1>1 DEF StreamerInv, Good
<1>4. t.critical \cap t.have = {}
  <2>1. TorrentOK(t)
    BY <1>1, <1>2, <1>3, TorrentAt
  <2> QED
    BY <2>1 DEF TorrentOK
<1>5. budget \in Budgets /\ disk \in [Sources -> Dirs] /\ DiskOK(disk)
  BY StaysOnDisk
<1>6. SessionOK(r) /\ Others(ses, r, h) /\ Kept(t, u) /\ u.critical = t.critical
  BY <1>1, <1>2, <1>3, ReadCompleteKeeps
<1>7. /\ u.src = t.src /\ u.meta = t.meta /\ u.inSession = t.inSession
      /\ u.critical = t.critical \ u.have /\ t.have \subseteq u.have
      /\ u.have \subseteq t.have \cup disk'[t.src].pieces
  BY <1>4, <1>6 DEF Kept
<1>8. ses = session[s] /\ t = ses.torrents[h] /\ u = r.torrents[h]
  BY <1>1
<1> QED
  BY <1>2, <1>5, <1>6, <1>7, <1>8, NetworkKeeps

LEMMA PostIgnoredKeeps ==
    ASSUME StreamerInv, NEW s \in Streamers, NEW h, PostIgnored(s, h)
    PROVE  StreamerInv' /\ Complete
<1>1. PICK ses, t, r, u : /\ ses = session[s] /\ t = ses.torrents[h]
                          /\ r = Post(ses, "ignored", h) /\ u = r.torrents[h]
  OBVIOUS
<1>2. /\ h \in DOMAIN ses.torrents /\ disk' = disk /\ NetworkStep(s, r)
      /\ budget.ignored > 0 /\ budget' = [budget EXCEPT !.ignored = @ - 1]
  BY <1>1 DEF PostIgnored, Running, Torrents, Spend
<1>3. SessionOK(ses)
  BY <1>1 DEF StreamerInv, Good
<1>4. t.critical \cap t.have = {}
  <2>1. TorrentOK(t)
    BY <1>1, <1>2, <1>3, TorrentAt
  <2> QED
    BY <2>1 DEF TorrentOK
<1>5. budget \in Budgets /\ disk \in [Sources -> Dirs] /\ DiskOK(disk)
  BY StaysOnDisk
<1>6. budget' \in Budgets /\ budget'.starts = budget.starts
  BY <1>2, <1>5 DEF Budgets
<1>7. /\ SessionOK(r) /\ Others(ses, r, h)
      /\ u.src = t.src /\ u.meta = t.meta /\ u.inSession = t.inSession
      /\ u.have = t.have /\ u.critical = t.critical
  <2>1. SessionOK(r) /\ r.paused = ses.paused
    BY <1>1, <1>2, <1>3, IgnoredPosted
  <2>2. r.torrents = ses.torrents
    BY <1>1, <1>3 DEF Post, SessionOK, SessionRecs
  <2> QED
    BY <1>1, <2>1, <2>2 DEF Others
<1>8. /\ u.critical = t.critical \ u.have /\ t.have \subseteq u.have
      /\ u.have \subseteq t.have \cup disk'[t.src].pieces
  BY <1>4, <1>7
<1> QED
  BY <1>1, <1>2, <1>5, <1>6, <1>7, <1>8, NetworkKeeps, SMTT(30)

LEMMA Spent ==
    ASSUME StreamerInv, NEW what \in {"cancels", "forwards", "ignored"}, Spend(what)
    PROVE  budget' \in Budgets /\ budget'.starts = budget.starts
<1>1. budget \in Budgets
  BY StaysOnDisk
<1>2. budget[what] > 0 /\ budget' = [budget EXCEPT ![what] = @ - 1]
  BY DEF Spend
<1>3. CASE what = "cancels"
  BY <1>1, <1>2, <1>3 DEF Budgets
<1>4. CASE what = "forwards"
  BY <1>1, <1>2, <1>4 DEF Budgets
<1>5. CASE what = "ignored"
  BY <1>1, <1>2, <1>5 DEF Budgets
<1> QED
  BY <1>3, <1>4, <1>5

(* A call of the user that starts nothing and deletes nothing. *)
LEMMA CallKeeps ==
    ASSUME StreamerInv, NEW s \in Streamers, NEW c, c = Context(s), NEW d, Works(c, d), Commit(d),
           batch' = batch, budget' \in Budgets, budget'.starts = budget.starts,
           c.ses.torrents = <<>> => d.ses = c.ses,
           c.ses.torrents = <<>> => (d.st.required = <<>> \/ d.st.required = c.st.required),
           (d.st.status = ZeroStatus /\ d.st.fileName = None) \/ (c.ses.torrents = <<>> => d.st = c.st)
    PROVE  StreamerInv' /\ Complete
<1>1. Acts(c, d) /\ Quiet(c.main, d.main)
  BY DEF Works
<1>2. /\ c.st = streamer[s] /\ c.ses = session[s] /\ c.run = run[s] /\ c.main = mainQueue
      /\ c.id = s
  BY ContextSound
<1>3. Sound(d) /\ d.id = s /\ d.run.deleted = c.run.deleted
  BY <1>1, <1>2 DEF Acts
<1>4. /\ run'[s] = d.run /\ mainQueue' = d.main /\ streamer'[s] = d.st /\ session'[s] = d.ses
  BY <1>3, Committed
<1>5. batch \in [Streamers -> Seq(Alert \cup Report)] /\ Good(s)
  BY DEF StreamerInv, VarTypes
<1>6. DeletedOK(s)'
  <2> SUFFICES ASSUME run[s].deleted
               PROVE  /\ d.st.status = ZeroStatus /\ d.st.fileName = None
                      /\ d.st.required = <<>> /\ d.ses.torrents = <<>> /\ d.ses.queue = <<>>
                      /\ batch[s] = <<>>
    BY <1>2, <1>3, <1>4 DEF DeletedOK
  <2>1. /\ c.st.status = ZeroStatus /\ c.st.fileName = None
        /\ c.st.required = <<>> /\ c.ses.torrents = <<>> /\ c.ses.queue = <<>>
        /\ batch[s] = <<>>
    BY <1>2, <1>5 DEF Good, DeletedOK
  <2> QED
    BY <2>1
<1>7. Fresh(s)'
  BY <1>2, <1>4, <1>5 DEF Good, Fresh
<1>8. StreamerInv'
  BY <1>1, <1>5, <1>6, <1>7, ActsKeep
<1> QED
  BY <1>1, <1>2, <1>4, <1>8, QuietComplete

LEMMA FastForwardKeeps ==
    ASSUME StreamerInv, NEW s \in Streamers, FastForward(s)
    PROVE  StreamerInv' /\ Complete
<1>1. PICK c : c = Context(s)
  OBVIOUS
<1>2. Sound(c)
  BY <1>1, ContextSound
<1>3. Spend("forwards") /\ batch' = batch
  BY DEF FastForward
<1>4. PICK offset \in UNION {Pieces(src) : src \in Sources}, pick \in FileIndices :
         Commit(Forwarded(c, offset, pick))
  BY <1>1 DEF FastForward
<1>5. offset \in Int
  BY DEF Pieces
<1>6. PICK d : d = Forwarded(c, offset, pick)
  OBVIOUS
<1>7. Works(c, d) /\ (c.ses.torrents = <<>> => d.st = c.st /\ d.ses = c.ses)
  BY <1>2, <1>5, <1>6, ForwardedWorks
<1>8. budget' \in Budgets /\ budget'.starts = budget.starts
  BY <1>3, Spent
<1>9. Commit(d)
  BY <1>4, <1>6
<1> QED
  BY <1>1, <1>3, <1>7, <1>8, <1>9, CallKeeps

LEMMA CancelDeletes ==
    ASSUME StreamerInv, NEW s \in Streamers, MainIdle, TRUE \in Deletes,
           NEW c, c = Context(s), NEW d, d = Cancelled(c, TRUE), Commit(d),
           batch' = batch, budget' \in Budgets, budget'.starts = budget.starts
    PROVE  StreamerInv' /\ Complete
<1>1. /\ Sound(c) /\ c.id = s /\ c.st = streamer[s] /\ c.ses = session[s]
      /\ c.main = mainQueue /\ c.run = run[s]
  BY ContextSound
<1>2. /\ Sound(d) /\ d.id = s /\ d.st.timers <= c.st.timers
      /\ ~ d.st.blocks /\ d.st.required = <<>> /\ d.st.status = ZeroStatus
      /\ d.st.fileName = None
      /\ d.ses = NewSession /\ d.main = c.main /\ d.run.ready = c.run.ready
  BY <1>1, DeletedActs
<1>3. /\ streamer'[s] = d.st /\ session'[s] = NewSession /\ run'[s] = d.run
      /\ mainQueue' = mainQueue
      /\ \A u \in Streamers : u # s => /\ streamer'[u] = streamer[u]
                                       /\ session'[u] = session[u]
                                       /\ run'[u] = run[u]
      /\ GlobalOK(globals') /\ DiskOK(disk')
  BY <1>1, <1>2, Committed
<1>4. VarTypes'
  <2>1. /\ streamer' \in [Streamers -> StreamerRecs] /\ session' \in [Streamers -> SessionRecs]
        /\ run' \in [Streamers -> RunRecs] /\ globals' \in GlobalRecs
        /\ mainQueue' \in Seq(Blocks) /\ disk' \in [Sources -> Dirs] /\ fault' \in Faults
    BY <1>2, Committed
  <2>2. batch' \in [Streamers -> Seq(Alert \cup Report)]
    BY DEF StreamerInv, VarTypes
  <2> QED
    BY <2>1, <2>2 DEF VarTypes
<1>5. Good(s) /\ batch[s] = <<>>
  BY DEF StreamerInv, MainIdle
<1>6. /\ SessionOK(NewSession) /\ NewSession.torrents = <<>> /\ NewSession.queue = <<>>
      /\ DOMAIN NewSession.torrents = {} /\ Len(NewSession.torrents) = 0
  BY NewSessionOK
<1>7. StreamerOK(streamer[s])' /\ SessionOK(session[s])' /\ BatchOK(s)'
  BY <1>2, <1>3, <1>5, <1>6, Fields DEF BatchOK
<1>8. BudgetOK(s)'
  <2> DEFINE n == budget.starts[s]
  <2>1. c.st.timers + n <= MaxStarts
    BY <1>1, <1>5 DEF Good, BudgetOK
  <2>2. c.st.timers \in Nat /\ d.st.timers \in Nat
    BY <1>1, <1>2, Fields
  <2>3. n \in Nat /\ MaxStarts \in Nat
    BY StreamerAssumption DEF StreamerAssumption, StreamerInv, VarTypes, Budgets
  <2> HIDE DEF n
  <2>4. d.st.timers + n <= MaxStarts /\ 0 + n <= MaxStarts
    <3>1. PICK x \in Nat, y \in Nat : x = c.st.timers /\ y = d.st.timers
      BY <2>2
    <3>2. y <= x /\ x + n <= MaxStarts
      BY <1>2, <2>1, <3>1
    <3>3. y + n <= MaxStarts /\ 0 + n <= MaxStarts
      BY ONLY <2>3, <3>1, <3>2
    <3> QED
      BY <3>1, <3>3
  <2> QED
    BY <1>3, <1>6, <2>4 DEF BudgetOK, n
<1>9. DeletedOK(s)' /\ Fresh(s)'
  BY <1>2, <1>3, <1>5, <1>6 DEF DeletedOK, Fresh
<1>10. /\ Held(streamer'[s], session'[s]) /\ Follows(streamer'[s], session'[s])
       /\ OnDisk(session'[s], disk')
  BY <1>3, <1>6 DEF Held, Follows, OnDisk
<1>11. OneStart => OnceOK(s)'
  <2> SUFFICES ASSUME OneStart PROVE OnceOK(s)'
    OBVIOUS
  <2>1. OnceOK(s)
    BY <1>5 DEF Good
  <2>2. run'[s].ready = run[s].ready /\ ~ streamer'[s].blocks
    BY <1>1, <1>2, <1>3
  <2> QED
    BY <1>3, <2>1, <2>2 DEF OnceOK
<1>12. Good(s)'
  BY <1>7, <1>8, <1>9, <1>10, <1>11 DEF Good, OneStart
<1>13. ASSUME NEW u \in Streamers, u # s PROVE Good(u)'
  <2>1. Good(u) /\ SessionOK(session[u])
    BY DEF StreamerInv, Good
  <2>2. ~ OwnDirectories
    BY <1>13 DEF OwnDirectories
  <2> QED
    BY <1>3, <1>13, <2>1, <2>2, Unmoved
<1>14. StreamerInv'
  BY <1>3, <1>4, <1>12, <1>13 DEF StreamerInv
<1> QED
  BY <1>3, <1>14, SameComplete

LEMMA CancelKeeps ==
    ASSUME StreamerInv, NEW s \in Streamers, Cancel(s)
    PROVE  StreamerInv' /\ Complete
<1>1. PICK c : c = Context(s)
  OBVIOUS
<1>2. Sound(c)
  BY <1>1, ContextSound
<1>3. MainIdle /\ Spend("cancels") /\ batch' = batch
  BY DEF Cancel
<1>4. budget' \in Budgets /\ budget'.starts = budget.starts
  BY <1>3, Spent
<1>5. PICK delete \in Deletes : Commit(Cancelled(c, delete))
  BY <1>1 DEF Cancel
<1>6. delete \in BOOLEAN
  BY StreamerAssumption DEF StreamerAssumption
<1>7. CASE delete = TRUE
  BY <1>1, <1>3, <1>4, <1>5, <1>7, CancelDeletes
<1>8. CASE delete = FALSE
  <2>1. PICK d : d = Cancelled(c, FALSE)
    OBVIOUS
  <2>2. /\ Works(c, d) /\ d.st.required = <<>> /\ d.st.status = ZeroStatus
        /\ d.st.fileName = None /\ (c.ses.torrents = <<>> => d.ses = c.ses)
    BY <1>2, <2>1, CancelledWorks
  <2>3. Commit(d)
    BY <1>5, <1>8, <2>1
  <2> QED
    BY <1>1, <1>3, <1>4, <2>2, <2>3, CallKeeps
<1> QED
  BY <1>6, <1>7, <1>8

LEMMA RunBlockKeeps ==
    ASSUME StreamerInv, RunBlock
    PROVE  StreamerInv' /\ Complete
<1>1. PICK b : b = Head(mainQueue)
  OBVIOUS
<1>2. /\ streamer' = streamer /\ session' = session /\ batch' = batch /\ globals' = globals
      /\ disk' = disk /\ fault' = fault /\ budget' = budget
      /\ mainQueue # <<>> /\ mainQueue' = Tail(mainQueue)
      /\ run' = IF streamer[b.id].blocks
                THEN [run EXCEPT ![b.id].ready = @ + 1] ELSE run
  BY <1>1 DEF RunBlock
<1>3. mainQueue \in Seq(Blocks) /\ run \in [Streamers -> RunRecs]
  BY DEF StreamerInv, VarTypes
<1>4. /\ mainQueue' \in Seq(Blocks) /\ b \in Blocks /\ 1 \in DOMAIN mainQueue /\ b = mainQueue[1]
      /\ Len(mainQueue') = Len(mainQueue) - 1
      /\ \A i \in DOMAIN mainQueue' :
            i + 1 \in DOMAIN mainQueue /\ mainQueue'[i] = mainQueue[i + 1]
  BY <1>1, <1>2, <1>3, Rest
<1>5. b.id \in Streamers
  BY <1>4 DEF Blocks
<1>6. /\ run' \in [Streamers -> RunRecs]
      /\ \A u \in Streamers :
            /\ run'[u].deleted = run[u].deleted
            /\ run'[u].ready = run[u].ready
                  \/ (u = b.id /\ run'[u].ready = run[u].ready + 1)
  <2>1. CASE run' = run
    BY <1>3, <2>1
  <2>2. CASE run' = [run EXCEPT ![b.id].ready = @ + 1]
    <3>1. PICK x : x = run[b.id]
      OBVIOUS
    <3>2. PICK y : y = [x EXCEPT !.ready = x.ready + 1]
      OBVIOUS
    <3>3. x \in RunRecs
      BY <1>3, <1>5, <3>1
    <3>4. y \in RunRecs /\ y.deleted = x.deleted /\ y.ready = x.ready + 1
      BY <3>2, <3>3 DEF RunRecs
    <3>5. run' = [run EXCEPT ![b.id] = y]
      BY <1>3, <1>5, <2>2, <3>1, <3>2
    <3> QED
      BY <1>3, <1>5, <2>2, <3>1, <3>4, <3>5
  <2> QED
    BY <1>2, <2>1, <2>2
<1>7. VarTypes'
  BY <1>2, <1>4, <1>6 DEF StreamerInv, VarTypes
<1>8. ASSUME NEW u \in Streamers PROVE Good(u)'
  <2>1. Good(u)
    BY DEF StreamerInv
  <2>2. /\ StreamerOK(streamer[u])' /\ SessionOK(session[u])' /\ BatchOK(u)' /\ BudgetOK(u)'
        /\ DeletedOK(u)' /\ Fresh(u)'
    BY <1>2, <1>6, <2>1 DEF Good, BatchOK, BudgetOK, DeletedOK, Fresh
  <2>3. \A i \in Pending(mainQueue', u) : i \in Nat /\ i # 0 /\ i + 1 \in Pending(mainQueue, u)
    BY <1>4 DEF Pending
  <2>4. ASSUME OneStart PROVE OnceOK(u)'
    <3>1. OnceOK(u)
      BY <2>1, <2>4 DEF Good
    <3>2. run[u].ready \in Nat
      BY <1>3 DEF RunRecs
    <3>3. CASE u = b.id
      <4>1. 1 \in Pending(mainQueue, u)
        BY <1>4, <3>3 DEF Pending
      <4>2. /\ run[u].ready = 0 /\ budget.starts[u] # MaxStarts
            /\ ~ (streamer[u].blocks /\ ~ streamer[u].streaming)
        BY <3>1, <4>1 DEF OnceOK
      <4>3. \A i \in Pending(mainQueue, u) : i = 1
        BY <3>1, <4>1 DEF OnceOK
      <4>4. Pending(mainQueue', u) = {}
        <5> SUFFICES ASSUME NEW i \in Pending(mainQueue', u) PROVE FALSE
          OBVIOUS
        <5>1. i \in Nat /\ i # 0 /\ i + 1 = 1
          BY <2>3, <4>3
        <5> QED
          BY <5>1
      <4>5. run'[u].ready <= 1
        BY <1>6, <4>2
      <4> QED
        BY <1>2, <4>2, <4>4, <4>5 DEF OnceOK
    <3>4. CASE u # b.id
      <4>1. run'[u].ready = run[u].ready
        BY <1>6, <3>4
      <4>2. Pending(mainQueue, u) = {} => Pending(mainQueue', u) = {}
        BY <2>3
      <4>3. \A i, j \in Pending(mainQueue', u) : i = j
        <5> SUFFICES ASSUME NEW i \in Pending(mainQueue', u), NEW j \in Pending(mainQueue', u)
                     PROVE  i = j
          OBVIOUS
        <5>1. i \in Nat /\ j \in Nat /\ i + 1 = j + 1
          BY <2>3, <3>1 DEF OnceOK
        <5> QED
          BY <5>1
      <4> QED
        BY <1>2, <3>1, <4>1, <4>2, <4>3 DEF OnceOK
    <3> QED
      BY <3>3, <3>4
  <2> QED
    BY <1>2, <2>1, <2>2, <2>4 DEF Good, OneStart, SpaceSuffices, OwnDirectories
<1>9. StreamerInv'
  BY <1>2, <1>7, <1>8 DEF StreamerInv
<1>10. Complete
  <2>1. \A i \in DOMAIN mainQueue' : ~ (i > Len(mainQueue))
    <3>1. DOMAIN mainQueue' = 1 .. Len(mainQueue') /\ Len(mainQueue) \in Nat
      BY <1>3, <1>4
    <3> QED
      BY <1>4, <3>1
  <2> QED
    BY <2>1 DEF Complete
<1> QED
  BY <1>9, <1>10

(* What the application begins with. *)
LEMMA Launched ==
    /\ NewStreamer \in StreamerRecs /\ StreamerOK(NewStreamer)
    /\ NewStreamer.timers = 0 /\ NewStreamer.required = <<>>
    /\ SessionOK(NewSession) /\ NewSession \in SessionRecs /\ NewSession.torrents = <<>>
    /\ Len(NewSession.torrents) = 0
    /\ NewGlobals \in GlobalRecs /\ GlobalOK(NewGlobals)
    /\ NewRun \in RunRecs /\ NewRun.ready = 0 /\ NewRun.deleted = FALSE
    /\ Held(NewStreamer, NewSession) /\ Follows(NewStreamer, NewSession)
    /\ \A dir : OnDisk(NewSession, dir)
    /\ \A s : Pending(<<>>, s) = {}
    /\ "none" \in Faults /\ <<>> \in Seq(Blocks) /\ <<>> \in Seq(Alert \cup Report)
<1>1. /\ SessionOK(NewSession) /\ NewSession.torrents = <<>>
      /\ DOMAIN NewSession.torrents = {} /\ Len(NewSession.torrents) = 0
  BY NewSessionOK
<1>2. NewSession \in SessionRecs
  BY <1>1 DEF SessionOK
<1>3. /\ <<>> \in Seq(Int) /\ None \in FileNames /\ ZeroStatus \in Statuses /\ -1 \in Int
  BY DEF FileNames, ZeroStatus, Statuses
<1>4. NewStreamer \in StreamerRecs
  BY <1>3 DEF NewStreamer, StreamerRecs
<1>5. /\ NewStreamer.timers = 0 /\ NewStreamer.required = <<>> /\ NewStreamer.timerLive = FALSE
  BY DEF NewStreamer
<1>6. -1 \in FileChoices
  BY DEF FileChoices
<1>7. NewGlobals \in GlobalRecs /\ GlobalOK(NewGlobals)
  BY <1>6 DEF NewGlobals, GlobalRecs, GlobalOK
<1>8. NewRun \in RunRecs /\ NewRun.ready = 0 /\ NewRun.deleted = FALSE
  BY DEF NewRun, RunRecs
<1>9. StreamerOK(NewStreamer)
  BY <1>5 DEF StreamerOK
<1>10. /\ Held(NewStreamer, NewSession) /\ Follows(NewStreamer, NewSession)
       /\ \A dir : OnDisk(NewSession, dir)
  BY <1>1 DEF Held, Follows, OnDisk
<1>11. \A s : Pending(<<>>, s) = {}
  BY DEF Pending
<1>12. "none" \in Faults /\ <<>> \in Seq(Blocks) /\ <<>> \in Seq(Alert \cup Report)
  BY DEF Faults
<1> QED
  BY <1>1, <1>2, <1>4, <1>5, <1>7, <1>8, <1>9, <1>10, <1>11, <1>12

LEMMA InitInv ==
    ASSUME Init
    PROVE  StreamerInv
<1>1. MaxStarts \in Nat /\ MaxCancels \in Nat /\ MaxForwards \in Nat /\ MaxIgnored \in Nat
  BY StreamerAssumption DEF StreamerAssumption
<1>2. budget \in Budgets /\ \A s \in Streamers : budget.starts[s] = MaxStarts
  BY <1>1 DEF Init, Budgets
<1>3. EmptyDir \in Dirs /\ EmptyDir.pieces = {}
  BY DEF EmptyDir, Dirs
<1>4. VarTypes
  BY <1>2, <1>3, Launched DEF Init, VarTypes
<1>5. DiskOK(disk) /\ GlobalOK(globals)
  BY <1>3, Launched DEF Init, DiskOK
<1>6. ASSUME NEW s \in Streamers PROVE Good(s)
  <2>1. /\ streamer[s] = NewStreamer /\ session[s] = NewSession /\ batch[s] = <<>>
        /\ run[s] = NewRun /\ mainQueue = <<>> /\ budget.starts[s] = MaxStarts
    BY <1>2 DEF Init
  <2>2. StreamerOK(streamer[s]) /\ SessionOK(session[s]) /\ BatchOK(s)
    BY <2>1, Launched DEF BatchOK
  <2>3. BudgetOK(s) /\ DeletedOK(s) /\ Fresh(s)
    BY <1>1, <2>1, Launched DEF BudgetOK, DeletedOK, Fresh
  <2>4. OnceOK(s)
    BY <2>1, Launched DEF OnceOK
  <2>5. Held(streamer[s], session[s]) /\ Follows(streamer[s], session[s])
        /\ OnDisk(session[s], disk)
    BY <2>1, Launched
  <2> QED
    BY <2>2, <2>3, <2>4, <2>5 DEF Good
<1> QED
  BY <1>4, <1>5, <1>6 DEF StreamerInv

LEMMA RelaunchKeeps ==
    ASSUME StreamerInv, Relaunch
    PROVE  StreamerInv' /\ Complete
<1>1. MaxStarts \in Nat
  BY StreamerAssumption DEF StreamerAssumption
<1>2. /\ streamer' = [s \in Streamers |-> NewStreamer]
      /\ session' = [s \in Streamers |-> NewSession]
      /\ batch' = [s \in Streamers |-> <<>>]
      /\ globals' = NewGlobals /\ mainQueue' = <<>> /\ fault' = "none"
      /\ run' = [s \in Streamers |-> NewRun] /\ disk' = disk /\ budget' = budget
  BY DEF Relaunch
<1>3. /\ budget \in Budgets /\ disk \in [Sources -> Dirs] /\ DiskOK(disk)
  BY StaysOnDisk
<1>4. VarTypes'
  BY <1>2, <1>3, Launched DEF VarTypes
<1>5. ASSUME NEW s \in Streamers PROVE Good(s)'
  <2>1. /\ streamer'[s] = NewStreamer /\ session'[s] = NewSession /\ batch'[s] = <<>>
        /\ run'[s] = NewRun /\ mainQueue' = <<>> /\ budget' = budget
    BY <1>2
  <2>2. StreamerOK(streamer[s])' /\ SessionOK(session[s])' /\ BatchOK(s)'
    BY <2>1, Launched DEF BatchOK
  <2>3. DeletedOK(s)' /\ Fresh(s)'
    BY <2>1, Launched DEF DeletedOK, Fresh
  <2>4. BudgetOK(s)'
    <3>1. PICK x \in Nat, y \in Nat : x = streamer[s].timers /\ y = budget.starts[s]
      BY <1>3 DEF StreamerInv, VarTypes, StreamerRecs, Budgets
    <3>2. x + y <= MaxStarts
      BY <3>1 DEF StreamerInv, Good, BudgetOK
    <3>3. 0 + y <= MaxStarts
      BY <1>1, <3>2
    <3> QED
      BY <2>1, <3>1, <3>3, Launched DEF BudgetOK
  <2>5. OnceOK(s)'
    BY <2>1, Launched DEF OnceOK
  <2>6. Held(streamer'[s], session'[s]) /\ Follows(streamer'[s], session'[s])
        /\ OnDisk(session'[s], disk')
    BY <2>1, Launched
  <2> QED
    BY <2>2, <2>3, <2>4, <2>5, <2>6 DEF Good
<1>6. StreamerInv'
  BY <1>2, <1>3, <1>4, <1>5, Launched DEF StreamerInv
<1>7. Complete
  BY <1>2 DEF Complete
<1> QED
  BY <1>6, <1>7

LEMMA StartKeeps ==
    ASSUME StreamerInv, NEW s \in Streamers, NEW src \in Sources, Start(s, src)
    PROVE  StreamerInv' /\ Complete
<1>1. PICK c : c = Context(s)
  OBVIOUS
<1>2. /\ Sound(c) /\ c.id = s /\ c.st = streamer[s] /\ c.ses = session[s]
      /\ c.main = mainQueue /\ c.disk = disk /\ c.run = run[s]
  BY <1>1, ContextSound
<1>3. /\ MainIdle /\ budget.starts[s] > 0 /\ batch' = batch
      /\ budget' = [budget EXCEPT !.starts[s] = @ - 1]
  BY DEF Start
<1>4. PICK select \in Selecting,
           env \in [file : FileOutcomes, dir : DirOutcomes,
                    space : SpaceOutcomes, pick : DOMAIN Files[src]] :
         Commit(Started(c, src, select, env))
  BY <1>1 DEF Start
<1>5. PICK b, e : b = Begun(c, select) /\ e = Started(c, src, select, env)
  OBVIOUS
<1>6. /\ select \in BOOLEAN /\ env.pick \in FileIndices
      /\ env.file \in {"ok", "missing", "corrupt", "fatal"} /\ env.space \in SpaceOutcomes
  BY StreamerAssumption DEF StreamerAssumption, FileIndices
<1>7. PICK n \in Nat, l \in Nat, x \in Nat :
         n = budget.starts[s] /\ l = Len(session[s].torrents) /\ x = streamer[s].timers
  <2>1. budget \in Budgets /\ session[s] \in SessionRecs /\ streamer[s] \in StreamerRecs
    BY DEF StreamerInv, VarTypes
  <2>2. /\ budget.starts[s] \in Nat /\ session[s].torrents \in Seq(TorrentRecs)
        /\ streamer[s].timers \in Nat
    BY <2>1 DEF Budgets, SessionRecs, StreamerRecs
  <2>3. Len(session[s].torrents) \in Nat
    BY <2>2
  <2> QED
    BY <2>2, <2>3
<1>8. Good(s) /\ batch[s] = <<>>
  BY <1>3 DEF StreamerInv, MainIdle
<1>9. x + n <= MaxStarts /\ l + n <= MaxStarts /\ n > 0 /\ MaxStarts \in Nat
  BY <1>3, <1>7, <1>8, StreamerAssumption DEF Good, BudgetOK, StreamerAssumption
<1>10. Len(c.ses.torrents) + 1 \in Subjects
  <2>1. l + 1 \in 0 .. MaxStarts
    BY <1>9
  <2> QED
    BY <1>2, <1>7, <2>1, StreamerAssumption DEF StreamerAssumption
<1>11. Launches(b, e, env.space)
  BY <1>2, <1>5, <1>6, <1>10, StartedLaunches
<1>12. /\ Sound(b) /\ b.id = c.id /\ b.ses = c.ses /\ b.main = c.main /\ b.disk = c.disk
       /\ b.st.blocks /\ b.st.required = c.st.required /\ b.st.timers = c.st.timers + 1
       /\ b.run.ready = 0 /\ b.run.deleted = FALSE
  <2>1. Sound(c) /\ select \in BOOLEAN /\ b = Begun(c, select)
    BY <1>2, <1>5, <1>6
  <2>2. Sound(b) /\ b.id = c.id /\ b.ses = c.ses /\ b.main = c.main /\ b.disk = c.disk
    BY ONLY <2>1, BegunWorks, ZenonT(40)
  <2>3. b.st.blocks /\ b.st.required = c.st.required
    BY ONLY <2>1, BegunWorks
  <2>4. b.st.timers = c.st.timers + 1
    BY ONLY <2>1, BegunWorks
  <2>5. b.run.ready = 0 /\ b.run.deleted = FALSE
    BY ONLY <2>1, BegunWorks
  <2> QED
    BY <2>2, <2>3, <2>4, <2>5
<1>13. /\ Sound(e) /\ e.id = s /\ e.st.timers <= x + 1
       /\ Len(e.ses.torrents) <= l + 1
       /\ e.run.ready = 0 /\ e.run.deleted = FALSE
       /\ Quiet(mainQueue, e.main)
       /\ \A d \in Sources : e.disk[d].pieces = disk[d].pieces
       /\ OnDisk(session[s], disk) => OnDisk(e.ses, e.disk)
       /\ env.space => Held(e.st, e.ses)
       /\ session[s].torrents = <<>> /\ streamer[s].required = <<>> => Follows(e.st, e.ses)
  BY <1>2, <1>7, <1>11, <1>12 DEF Launches
<1>14. Commit(e)
  BY <1>4, <1>5
<1>15. /\ streamer'[s] = e.st /\ session'[s] = e.ses /\ run'[s] = e.run
       /\ mainQueue' = e.main /\ disk' = e.disk
       /\ \A u \in Streamers : u # s => /\ streamer'[u] = streamer[u]
                                        /\ session'[u] = session[u]
                                        /\ run'[u] = run[u]
       /\ GlobalOK(globals') /\ DiskOK(disk')
  BY <1>13, <1>14, Committed
<1>16. /\ budget' \in Budgets /\ budget'.starts[s] = n - 1
       /\ \A u \in Streamers : u # s => budget'.starts[u] = budget.starts[u]
  <2>1. budget \in Budgets
    BY StaysOnDisk
  <2>2. PICK f : f = [budget.starts EXCEPT ![s] = n - 1]
    OBVIOUS
  <2>3. budget.starts \in [Streamers -> Nat]
    BY <2>1 DEF Budgets
  <2>4. n - 1 \in Nat
    BY <1>9
  <2>5. f \in [Streamers -> Nat] /\ f[s] = n - 1 /\ \A u \in Streamers : u # s => f[u] = budget.starts[u]
    BY <2>2, <2>3, <2>4
  <2>6. budget' = [budget EXCEPT !.starts = f]
    BY <1>3, <1>7, <2>1, <2>2 DEF Budgets
  <2>7. budget' \in Budgets /\ budget'.starts = f
    BY <2>1, <2>5, <2>6 DEF Budgets
  <2> QED
    BY <2>5, <2>7
<1>17. VarTypes'
  <2>1. /\ streamer' \in [Streamers -> StreamerRecs] /\ session' \in [Streamers -> SessionRecs]
        /\ run' \in [Streamers -> RunRecs] /\ globals' \in GlobalRecs
        /\ mainQueue' \in Seq(Blocks) /\ disk' \in [Sources -> Dirs] /\ fault' \in Faults
    BY <1>13, <1>14, Committed
  <2>2. batch' \in [Streamers -> Seq(Alert \cup Report)]
    BY <1>3 DEF StreamerInv, VarTypes
  <2> QED
    BY <1>16, <2>1, <2>2 DEF VarTypes
<1>18. StreamerOK(streamer[s])' /\ SessionOK(session[s])' /\ BatchOK(s)'
  BY <1>3, <1>8, <1>13, <1>15, Fields DEF BatchOK
<1>19. BudgetOK(s)'
  <2>1. PICK y \in Nat, k \in Nat : y = e.st.timers /\ k = Len(e.ses.torrents)
    <3>1. e.st.timers \in Nat /\ e.ses \in SessionRecs
      BY <1>13, Fields
    <3>2. e.ses.torrents \in Seq(TorrentRecs)
      BY <3>1 DEF SessionRecs
    <3> QED
      BY <3>1, <3>2
  <2>2. y <= x + 1 /\ k <= l + 1
    BY <1>13, <2>1
  <2>3. y + (n - 1) <= MaxStarts /\ k + (n - 1) <= MaxStarts
    BY <1>9, <2>2
  <2> QED
    BY <1>15, <1>16, <2>1, <2>3 DEF BudgetOK
<1>20. DeletedOK(s)'
  BY <1>13, <1>15 DEF DeletedOK
<1>21. n - 1 # MaxStarts
  BY <1>9
<1>22. Fresh(s)'
  BY <1>16, <1>21 DEF Fresh
<1>23. SpaceSuffices => Held(streamer'[s], session'[s])
  BY <1>6, <1>13, <1>15 DEF SpaceSuffices
<1>24. \A u \in Streamers : Pending(mainQueue', u) = Pending(mainQueue, u)
  BY <1>13, <1>15, QuietPending
<1>25. ASSUME OneStart PROVE OnceOK(s)' /\ Follows(streamer'[s], session'[s])
  <2>1. budget.starts[s] = MaxStarts
    <3>1. MaxStarts <= 1
      BY <1>25 DEF OneStart
    <3>2. n = MaxStarts
      BY <1>9, <3>1
    <3> QED
      BY <1>7, <3>2
  <2>2. streamer[s].required = <<>> /\ session[s].torrents = <<>>
    BY <1>8, <2>1 DEF Good, Fresh
  <2>3. Pending(mainQueue, s) = {}
    BY <1>8, <1>25, <2>1 DEF Good, OnceOK
  <2>4. OnceOK(s)'
    BY <1>13, <1>15, <1>24, <2>3 DEF OnceOK
  <2> QED
    BY <1>13, <1>15, <2>2, <2>4
<1>26. OwnDirectories => OnDisk(session'[s], disk')
  BY <1>8, <1>13, <1>15 DEF Good
<1>27. Good(s)'
  BY <1>18, <1>19, <1>20, <1>22, <1>23, <1>25, <1>26
     DEF Good, OneStart, SpaceSuffices, OwnDirectories
<1>28. ASSUME NEW u \in Streamers, u # s PROVE Good(u)'
  <2>1. Good(u) /\ SessionOK(session[u])
    BY DEF StreamerInv, Good
  <2>2. \A d \in Sources : disk[d].pieces \subseteq disk'[d].pieces
    BY <1>13, <1>15
  <2> QED
    BY <1>3, <1>15, <1>16, <1>24, <1>28, <2>1, <2>2, Unmoved
<1>29. StreamerInv'
  BY <1>15, <1>17, <1>27, <1>28 DEF StreamerInv
<1>30. Quiet(mainQueue, mainQueue')
  BY <1>13, <1>15
<1> QED
  BY <1>29, <1>30, QuietComplete

(* What a step may do, by its action. *)
LEMMA NextKeeps ==
    ASSUME StreamerInv, Next
    PROVE  StreamerInv' /\ (SingleFiles /\ OwnDirectories => Complete)
<1>1. CASE User
  BY <1>1, StartKeeps, CancelKeeps, FastForwardKeeps DEF User
<1>2. ASSUME NEW s \in Streamers, AlertsLoop(s) \/ HandleAlert(s)
      PROVE  StreamerInv' /\ (SingleFiles /\ OwnDirectories => Complete)
  BY <1>2, AlertsLoopKeeps, HandleMetadataKeeps, HandlePieceKeeps, HandleFinishedKeeps,
     HandleResumeDataKeeps, HandleOtherKeeps DEF HandleAlert
<1>3. CASE RunBlock
  BY <1>3, RunBlockKeeps
<1>4. CASE Relaunch
  BY <1>4, RelaunchKeeps
<1>5. ASSUME NEW s \in Streamers, NEW h, Network(s, h) \/ PostIgnored(s, h)
      PROVE  StreamerInv' /\ (SingleFiles /\ OwnDirectories => Complete)
  BY <1>5, DownloadPieceKeeps, CheckFilesKeeps, FetchMetadataKeeps, AutoManageKeeps,
     PostIgnoredKeeps DEF Network
<1>6. ASSUME NEW s \in Streamers, NEW h \in DOMAIN session[s].torrents, ReadPiece(s, h)
      PROVE  StreamerInv' /\ (SingleFiles /\ OwnDirectories => Complete)
  BY <1>6, ReadPieceKeeps
<1> QED
  BY <1>1, <1>2, <1>3, <1>4, <1>5, <1>6 DEF Next

LEMMA StutterKeeps ==
    ASSUME StreamerInv, UNCHANGED vars
    PROVE  StreamerInv'
<1>1. /\ streamer' = streamer /\ session' = session /\ batch' = batch /\ globals' = globals
      /\ mainQueue' = mainQueue /\ disk' = disk /\ fault' = fault /\ run' = run
      /\ budget' = budget
  BY DEF vars
<1>2. VarTypes' /\ GlobalOK(globals') /\ DiskOK(disk')
  BY <1>1 DEF StreamerInv, VarTypes
<1>3. ASSUME NEW u \in Streamers PROVE Good(u)'
  <2>1. Good(u) /\ SessionOK(session[u])
    BY DEF StreamerInv, Good
  <2> QED
    BY <1>1, <2>1, Unmoved
<1> QED
  BY <1>2, <1>3 DEF StreamerInv
-----------------------------------------------------------------------------
(* The theorems *)

(* The invariant: what every field holds; that the alerts on the way name  *)
(* a torrent of the session and say of it what is true; that a start makes *)
(* one timer and at most one torrent; that a cancel which deletes leaves   *)
(* nothing; and, under their hypotheses, that nothing is downloaded        *)
(* without callbacks, that a ready block is due at most once, that the     *)
(* urgent pieces are the required ones, and that a piece which a torrent   *)
(* has is on disk.                                                         *)
THEOREM StreamerInvariant == Spec => []StreamerInv
<1>1. Init => StreamerInv
  BY InitInv
<1>2. StreamerInv /\ [Next]_vars => StreamerInv'
  BY NextKeeps, StutterKeeps
<1> QED
  BY <1>1, <1>2, PTL DEF Spec

(* Every field holds what the code lets it hold, for any number of         *)
(* streamers, sources and starts: the timers never outnumber the starts,   *)
(* and although required_pieces may hold indices before the first piece,   *)
(* none of them becomes a deadline (set_piece_deadline checks the range    *)
(* itself; prioritizeNextPieces does not, and may crash for it).           *)
THEOREM StreamerTypes == Spec => []TypeOK
<1>1. StreamerInv => TypeOK
  <2> SUFFICES ASSUME StreamerInv PROVE TypeOK
    OBVIOUS
  <2>1. /\ streamer \in [Streamers -> StreamerRecs] /\ globals \in GlobalRecs
        /\ batch \in [Streamers -> Seq(Alert \cup Report)] /\ budget \in Budgets
    BY DEF StreamerInv, VarTypes
  <2>2. ASSUME NEW s \in Streamers
        PROVE  /\ streamer[s].timers \in 0 .. MaxStarts
               /\ streamer[s].timerLive => streamer[s].timers > 0
               /\ streamer[s].savePath \in Sources \cup {None}
               /\ streamer[s].required \in Seq(Int)
               /\ streamer[s].firstPiece \in Int
               /\ streamer[s].status.kind \in {"zero", "buffering", "finished"}
    <3>1. streamer[s] \in StreamerRecs /\ budget.starts[s] \in Nat
      BY <2>1, <2>2 DEF Budgets
    <3>2. /\ streamer[s].timers \in Nat /\ streamer[s].savePath \in Sources \cup {None}
          /\ streamer[s].required \in Seq(Int) /\ streamer[s].firstPiece \in Int
          /\ streamer[s].status \in Statuses
      BY <3>1 DEF StreamerRecs
    <3>3. streamer[s].timers + budget.starts[s] <= MaxStarts /\ MaxStarts \in Nat
      BY <2>2, StreamerAssumption DEF StreamerInv, Good, BudgetOK, StreamerAssumption
    <3>4. streamer[s].timers \in 0 .. MaxStarts
      BY <3>1, <3>2, <3>3
    <3>5. streamer[s].timerLive => streamer[s].timers > 0
      BY <2>2 DEF StreamerInv, Good, StreamerOK
    <3>6. streamer[s].status.kind \in {"zero", "buffering", "finished"}
      BY <3>2 DEF Statuses
    <3> QED
      BY <3>2, <3>4, <3>5, <3>6
  <2>3. ASSUME NEW s \in Streamers, NEW h \in DOMAIN session[s].torrents
        PROVE  LET t == session[s].torrents[h]
               IN  /\ t.src \in Sources
                   /\ t.state \in TorrentStates
                   /\ t.have \cup t.critical \subseteq Pieces(t.src)
                   /\ t.prio \in [Pieces(t.src) -> 0 .. TopPriority]
    <3>1. SessionOK(session[s])
      BY <2>3 DEF StreamerInv, Good
    <3>2. PICK t : t = session[s].torrents[h]
      OBVIOUS
    <3>3. t \in TorrentRecs /\ TorrentOK(t)
      BY <2>3, <3>1, <3>2, TorrentAt
    <3>4. t.src \in Sources /\ t.state \in TorrentStates
      BY <3>3 DEF TorrentRecs
    <3>5. /\ t.have \cup t.critical \subseteq Pieces(t.src)
          /\ t.prio \in [Pieces(t.src) -> 0 .. TopPriority]
      BY <3>3 DEF TorrentOK
    <3> QED
      BY <3>2, <3>4, <3>5
  <2>4. globals.MIN_PIECES \in Nat
    BY <2>1 DEF GlobalRecs
  <2>5. \A src \in Sources : disk[src].pieces \subseteq Pieces(src)
    BY DEF StreamerInv, DiskOK
  <2>6. \A s \in Streamers : batch[s] \in Seq(Alert \cup Report)
    BY <2>1
  <2> QED
    BY <2>2, <2>3, <2>4, <2>5, <2>6 DEF TypeOK
<1> QED
  BY <1>1, StreamerInvariant, PTL

(* A piece with a deadline is missing and has the top priority, whatever   *)
(* stale alert, cancel or second start came before and however many        *)
(* torrents the session has: metadataReceivedAlert, prioritizeNextPieces   *)
(* and fastForwardTorrentForRange clear the deadlines before they change   *)
(* the priorities, and we_have takes a piece off the list.                 *)
THEOREM DeadlinesMissing == Spec => []DeadlinesAreMissing
<1>1. StreamerInv => DeadlinesAreMissing
  <2> SUFFICES ASSUME StreamerInv, NEW s \in Streamers, NEW h \in DOMAIN session[s].torrents
               PROVE  \A p \in session[s].torrents[h].critical :
                         /\ p \notin session[s].torrents[h].have
                         /\ session[s].torrents[h].prio[p] = TopPriority
    BY DEF DeadlinesAreMissing, Torrents
  <2>1. SessionOK(session[s])
    BY DEF StreamerInv, Good
  <2>2. TorrentOK(session[s].torrents[h])
    BY <2>1, TorrentAt
  <2> QED
    BY <2>2 DEF TorrentOK
<1> QED
  BY <1>1, StreamerInvariant, PTL

(* After a cancel that deletes, the fields stay as they are at a start and *)
(* the session has no alert, until the next start, whatever timers an      *)
(* earlier start left in the run loop (cancelStreamingAndDeleteData).      *)
THEOREM DeleteFinal == Spec => []DeleteIsFinal
<1>1. StreamerInv => DeleteIsFinal
  BY DEF StreamerInv, Good, DeletedOK, DeleteIsFinal
<1> QED
  BY <1>1, StreamerInvariant, PTL

(* A streamer that is started once calls readyToPlay at most once,         *)
(* although libtorrent may report the torrent finished twice               *)
(* (processTorrent is guarded by isStreaming, which only a cancel resets,  *)
(* and a cancel takes the callbacks).                                      *)
THEOREM ReadyAtMostOnce == OneStart => (Spec => []ReadyOnce)
<1>1. StreamerInv /\ OneStart => ReadyOnce
  BY DEF StreamerInv, Good, OnceOK, ReadyOnce
<1>2. SUFFICES ASSUME OneStart PROVE Spec => []ReadyOnce
  OBVIOUS
<1>3. StreamerInv => ReadyOnce
  BY <1>1, <1>2
<1> QED
  BY <1>3, StreamerInvariant, PTL

(* The streamer and libtorrent agree on what is urgent, while the network  *)
(* thread takes pieces off the list and other streamers change MIN_PIECES: *)
(* the pieces with a deadline are the required ones that are missing       *)
(* (metadataReceivedAlert, prioritizeNextPieces,                           *)
(* fastForwardTorrentForRange).                                            *)
THEOREM DeadlinesFollow == OneStart => (Spec => []DeadlinesFollowRequired)
<1>1. StreamerInv /\ OneStart => DeadlinesFollowRequired
  <2> SUFFICES ASSUME StreamerInv, OneStart, NEW s \in Streamers,
                      NEW h \in Torrents(session[s]), streamer[s].required # <<>>,
                      NEW t, t = session[s].torrents[h]
               PROVE  /\ t.critical = (ToSet(streamer[s].required) \cap Pieces(t.src)) \ t.have
                      /\ \A p \in t.critical : t.prio[p] = TopPriority
    BY SMTT(30) DEF DeadlinesFollowRequired
  <2>1. h \in DOMAIN session[s].torrents /\ t.inSession
    BY DEF Torrents
  <2>2. Follows(streamer[s], session[s]) /\ SessionOK(session[s])
    BY DEF StreamerInv, Good
  <2>3. TorrentOK(t)
    BY <2>1, <2>2, TorrentAt
  <2> QED
    BY <2>1, <2>2, <2>3 DEF Follows, TorrentOK
<1>2. SUFFICES ASSUME OneStart PROVE Spec => []DeadlinesFollowRequired
  OBVIOUS
<1>3. StreamerInv => DeadlinesFollowRequired
  BY <1>1, <1>2
<1> QED
  BY <1>3, StreamerInvariant, PTL

(* Where the space suffices, no piece is downloaded for a streamer that    *)
(* was cancelled or failed, until it is started again: its torrents stay   *)
(* in the session, auto-managed, and only the pause of the session holds   *)
(* them (cancelStreamingAndDeleteData).                                    *)
THEOREM CancelStops == SpaceSuffices => (Spec => CancelStopsDownload)
<1>1. SUFFICES ASSUME SpaceSuffices PROVE Spec => CancelStopsDownload
  OBVIOUS
<1>2. ASSUME StreamerInv, NEW s \in Streamers, NEW h, DownloadPiece(s, h)
      PROVE  streamer[s].blocks
  <2>1. /\ h \in DOMAIN session[s].torrents /\ session[s].torrents[h].inSession
        /\ ~ session[s].paused
    BY <1>2 DEF DownloadPiece, Running, Torrents
  <2>2. Held(streamer[s], session[s])
    BY <1>1, <1>2 DEF StreamerInv, Good
  <2> QED
    BY <2>1, <2>2 DEF Held
<1>3. StreamerInv => [\A s \in Streamers :
          (\E h \in Torrents(session[s]) : DownloadPiece(s, h)) => streamer[s].blocks]_vars
  BY <1>2
<1> QED
  BY <1>3, StreamerInvariant, PTL DEF CancelStopsDownload

(* With one file per source, and no directory deleted under another        *)
(* streamer, a download is reported ready only when its file is complete   *)
(* on disk, whatever stale alerts of an earlier start are in the batch     *)
(* (torrentFinishedAlert, processTorrent).                                 *)
THEOREM ReadyComplete == SingleFiles /\ OwnDirectories => (Spec => ReadyMeansComplete)
<1>1. SUFFICES ASSUME SingleFiles, OwnDirectories PROVE Spec => ReadyMeansComplete
  OBVIOUS
<1>2. StreamerInv /\ [Next]_vars =>
        [\A i \in DOMAIN mainQueue' :
          LET b == mainQueue'[i]
          IN  i > Len(mainQueue) =>
                 FilePieces(b.path.src, b.path.file) \subseteq disk[b.path.src].pieces]_vars
  BY <1>1, NextKeeps DEF Complete
<1> QED
  BY <1>2, StreamerInvariant, PTL DEF ReadyMeansComplete, Spec
=============================================================================
