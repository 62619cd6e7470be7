---------------------------- MODULE MCStreamer ----------------------------
(* Small instances of PTTorrentStreamer: what can be streamed in them, and *)
(* the priorities of the alerts.                                           *)
EXTENDS PTTorrentStreamer

MCTypes == {"metadata_received", "piece_finished", "torrent_finished",
            "save_resume_data", "read_piece", "ignored"}

MCPriority == [t \in MCTypes \cup {DroppedType} |->
    CASE t \in {"metadata_received", "piece_finished"} -> 0
      [] t = "torrent_finished" -> 1
      [] t \in {"save_resume_data", "read_piece", "ignored"} -> 2
      [] t = DroppedType -> 3]

File(first, last) == [first |-> first, last |-> last, size |-> last - first + 1]
OneFile(last) == (0 :> File(0, last))
TwoFiles(last) == (0 :> File(0, 0) @@ 1 :> File(1, last))

(* Torrent files with one file: short (1 piece), clip (2), movie (3) and   *)
(* long (4).                                                               *)
(* magnet and link: the movie and the clip as magnet links.  album: two    *)
(* files, the second the larger.                                           *)
MCNumPieces == [src \in Sources |->
    CASE src = "long" -> 4 [] src \in {"clip", "link"} -> 2 [] src = "short" -> 1 [] OTHER -> 3]
MCFiles == [src \in Sources |->
    CASE src \in {"movie", "magnet"} -> OneFile(2)
      [] src = "short" -> OneFile(0)
      [] src \in {"clip", "link"} -> OneFile(1)
      [] src = "long" -> OneFile(3)
      [] src = "album" -> TwoFiles(2)]
MCSubjects == 0 .. MaxStarts

(* Bound: streamers download different torrents, as the rows of a list do. *)
OwnTorrents ==
    \A s, t \in Streamers :
        \A h \in DOMAIN session[s].torrents, i \in DOMAIN session[t].torrents :
            s # t => session[s].torrents[h].src # session[t].torrents[i].src

(* The streamers are alike. *)
Symmetry == Permutations(Streamers)
=============================================================================
