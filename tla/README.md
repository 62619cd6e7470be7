# A verification of iosbtdownloader

iosbtdownloader is a BitTorrent client for iOS: an Objective-C application on a
vendored copy of libtorrent, with the kxmovie player for what it has
downloaded. These modules model the parts in which its correctness is decided:
the queue of alerts between libtorrent's network thread and the main thread, the
object that drives a download through that queue, and libtorrent's disk threads,
through which every piece goes on its way to the file that is played.

## The system

| Component | State | Operations | Meets others through |
|---|---|---|---|
| `alert_manager` (`torrent/alert_manager.cpp`, `.hpp`) | two buffers, which one is current, the dropped types, the limit | `emplace_alert`, `wait_for_alert`, `get_all`, `set_alert_queue_size_limit` | mutex and condition variable; pointers that the client reads without the lock |
| `PTTorrentStreamer` (`Client/PTTorrentStreamer.mm`) | callbacks, `alertsLoopActive`, timers, `savePath`, `required_pieces`, `firstPiece`, `streaming`, status; three globals shared by all objects | start, start with selection, cancel (and delete), fast forward, `alertsLoop` and four alert handlers | calls into its session, alerts from it, blocks on the main queue, files |
| libtorrent session and torrents (vendored) | torrents with pieces, priorities, deadlines, paused and finished state | what the streamer calls, and the network thread's own steps | alerts |
| `disk_job_fence` (`torrent/disk_job_fence.cpp`) | `m_has_fence`, `m_outstanding_jobs`, the blocked jobs | `is_blocked`, `raise_fence`, `job_complete` | called by the network thread and the disk threads; jobs that it releases |
| `disk_io_thread` (`torrent/disk_io_thread.cpp`) | job queues, jobs hanging on cached pieces, completed jobs | `async_read`, `async_write`, `async_hash`, `add_fence_job`, `add_job`, `perform_job`, flushing, `add_completed_jobs`, `call_job_handlers` | the fence of each storage, the cache, handlers on the network thread |
| `disk_io_thread_pool` (`torrent/disk_io_thread_pool.cpp`), `thread_fun` | threads, idle counters, threads to exit, idle timer | `job_queued`, `set_max_threads`, `abort`, `reap_idle_threads`, the loop of a thread | `m_job_mutex` and its condition variables; the last thread cleans up |
| `disk_buffer_pool`, `block_cache`, `peer_connection` | buffers in use, limits, observers; dirty, clean and pinned blocks; who waits for the disk | allocate, free, evict, flush, `check_cache_level`, `watermark_callback` | peers are held back and called again |
| `TorrentsViewController` | list of torrents, sessions by row number, button state | load, toggle, write a torrent file from a magnet link | streamers, notifications, files |
| `AppDelegate`, `SceneDelegate` | `firstRun`, pasteboard | copy bundled torrents, post a notification | files, notifications |
| `KxMovieViewController`, `KxAudioManager`, `KxMovieDecoder` | frame queues, buffered duration, position, playing | play, pause, seek, tick, decode, audio callback | main queue, decode queue, audio thread |
| `FileBrowserViewController`, utilities, `PTSize`, `CocoaSecurity` | user interface, helpers | | |

Hard behaviours:

* **Two threads on one queue.** The client sleeps with the lock released and is
  woken only when the queue goes from empty to one alert; it reads its batch
  without a lock while new alerts are posted; the queue is bounded, each type
  has its own share, and losses are reported by an alert of the same queue.
* **Old alerts.** An alert is handled a second or more after it was posted. By
  then the user may have cancelled, deleted, or started again, and the torrent
  may be gone. A handle to a torrent that is gone may or may not throw.
* **A network thread in the middle of everything.** Pieces arrive between two
  alerts of one batch; libtorrent resumes what the streamer paused.
* **Globals.** `MIN_PIECES`, `selectedFileIndex` and `shouldUserSelectFiles` are
  variables of the file, and every row of the list has a streamer of its own.
* **Failures half-way.** No space, no directory, a file that cannot be parsed, a
  resume file that cannot be read, each in the middle of a long method.
* **Jobs that hang somewhere.** A write is over when some other job flushes the
  piece it hangs on, a read may wait for another read, and a fence job waits for
  all of them; what a completed job releases goes through the cache again, after
  the lock of the fence was given up.
* **Threads that count each other.** Threads are started by the number of idle
  ones, told to exit by a number that they count down, and the one that sees
  itself as the last cleans up, all with three kinds of mutex.
* **Back-pressure.** A peer that was told to stop depends on somebody to notice
  that there is room again.

What makes the parts correct: the queue neither loses, duplicates nor reorders
silently, and never leaves its client asleep; the streamer answers every start,
reports ready only what is complete and only once, stops when told to, and
agrees with libtorrent about which pieces are urgent; a fence job has the storage
to itself and is run, no disk job is lost or done twice, queued jobs find a
thread, the threads end, buffers are not leaked, and no peer waits for ever.

## Modules

| Module | What it is |
|---|---|
| `Alerts` | alerts as records, and the capacity rule of `emplace_alert` |
| `AlertQueue` | what the alert manager promises: one bounded, lossy queue |
| `AlertManager` | `alert_manager` as built: buffers, generation, lock, condition variable |
| `AlertManagerProofs` | theorems about `AlertManager` |
| `TorrentSession` | libtorrent as the streamer uses it: operators from a session to a session |
| `PTTorrentStreamer` | the streamers, the main thread and the network threads |
| `PTTorrentStreamerProofs` | theorems about `PTTorrentStreamer`, with lemmas about the operators of `TorrentSession` |
| `StorageBarrier` | what the fence of a storage promises: jobs start in order, fence jobs alone |
| `DiskJobFence` | `disk_job_fence` as built: two counters, a list, flags of the jobs |
| `DiskJobFenceProofs` | theorems about `DiskJobFence`, with its refinement of `StorageBarrier` |
| `DiskIoThread` | the jobs of a storage: network thread, queue, cache, disk threads, composed with the fence |
| `DiskIoThreadProofs` | `DiskIoThread` uses the fence as it may be used, so the fence's theorems hold of it |
| `DiskJobsProofs` | no job of `DiskIoThread` is lost or done twice, and when all is quiet all are answered |
| `DiskIoThreadPool` | the two pools of disk threads and the loop each thread runs |
| `DiskIoThreadPoolProofs` | theorems about `DiskIoThreadPool` |
| `DiskBufferPool` | `disk_buffer_pool`: operators on the number of buffers in use and its observers |
| `DiskBackPressure` | peers, cache and disk threads over `DiskBufferPool` |
| `SumTheorems` | what a sum over a finite set is when a term changes, as far as the proofs need it |
| `DiskBackPressureProofs` | theorems about `DiskBackPressure` |
| `MCAlertManager`, `MCStreamer`, `MCDisk`, `MCBackPressure` | values of the constants for model checking |

**AlertManager.** One action per critical section. `Emplace` is
`emplace_alert`, `EmplaceOutOfMemory` its `catch`. `wait_for_alert` gives up
the lock in the middle and is therefore three actions: `WaitForAlert` (look,
then sleep), `WaitEnds` (timeout or spurious wake-up), `Recheck`. `GetAll` is
`get_all`, with the alert about losses emplaced under the same capacity rule,
the bits cleared in any case, the buffers swapped and the new one cleared. The
client reads its batch in the state `handling`; `Handled` lets go of it. `batch`
is what its pointers stood for when it got them, so that `BatchIntact` can say
that they still stand for it. `serial` numbers the alerts.

**TorrentSession.** A torrent handle is an index into all torrents a session was
ever given. Kept of libtorrent is what the streamer can see: piece priorities,
time-critical pieces, the states checking, downloading and finished (and that
changing priorities moves a torrent in and out of finished, with an alert),
pausing by torrent and by session, auto-management, resume data, adding a
torrent that is already there. The alert queue of a session is `AlertQueue`'s.
Every deadline is asked for with `alert_when_available` and therefore ends in a
`read_piece_alert` of critical priority: at once for one that is cleared, out of
range or no longer wanted (`PostReads`), otherwise when the disk has read the piece
(`reading` counts those under way, `ReadComplete` ends one). The streamer does
nothing with these alerts, but they take up room in the queue.

**PTTorrentStreamer.** All streamers live on the main thread. A method of the
code is an operator from a context (the object's fields, its session, the
globals, the main queue, the disk) to a context; an action commits the context
that its method ends in; a loop over the torrents of the session is a function that
counts them up (`StopAll`, `Forwarded`). `AlertsLoop(s)` takes a batch, `HandleMetadata`,
`HandlePiece`, `HandleFinished`, `HandleResumeData` and `HandleOther` each handle
one alert of it, and the network actions (`DownloadPiece`, `CheckFiles`,
`FetchMetadata`, `AutoManage`, `ReadPiece`, `PostIgnored`) can come between any two
of them.
`MainIdle` keeps user actions and main-queue blocks out of a running batch.
Choices of the environment are constants: the outcome of reading the torrent
file and of creating the directory, free space, the user's pick, and three cases of
undefined behaviour (memory read past the end of `required_pieces`, a write before
the beginning of `piece_priorities`, and the resume file written from a dead
temporary). A crash sets `fault`; `Relaunch`
starts the application again with what is on disk. `run` is a history variable:
what the callbacks of the current start were told.

Removing a directory with a nil path is taken to remove nothing. A torrent whose
handle has been removed is either still usable or throws (`ExpiryOutcomes`).
`PTTorrentStreamer` leaves out the status fields and progress blocks nobody decides
on (rates, peers, byte counts), the mute audio player, and the network indicator.

A handler is one step, although the network thread runs between the calls that the
handler makes. The window and `required_pieces` are computed from the fields of the
object and the layout of the torrent, not from what has arrived, and the calls reach
the network thread in the order in which they were made. A piece that arrives between
two of them leaves the same torrent, and the same number of `read_piece_alert`s, as
one that arrives just before or just after the handler; only the order of the alerts
may differ. Where pieces are counted one by one (`.mm:565-574`), what is counted is
what a different order of arrival gives, and the network may choose any order.

**DiskJobFence.** The flags `fence` and `in_progress` of a job are sets of jobs.
`IsBlocked`, `RaiseFence` and `JobComplete` are the three methods, each under the
mutex of the fence. `job_complete` appends to a list of its caller; whether that
list is empty is a parameter (`empty`), and so is how many jobs it releases (`n`),
which the guards `LoweredBy` and `ReachedBy` determine. `finished` remembers which
jobs are over.

**DiskIoThread.** One action per section under one mutex. What a thread has taken
from one structure and not yet given to the next is in its record (`job`, `took`,
`end`, `done`, `acked`, `list`, `next`, `other`, `flush`), so every interleaving of
the sections of `add_completed_jobs_impl` with the network thread is there:
`Complete` (`job_complete`, job by job), `Redistribute` (the cache), `AppendJobs`
(the queue), `FenceFlush` (`add_job` for the flush job), `PostCompleted`. The cache
is one piece: the writes that hang on it, the reads that wait, and the two flags
`outstanding_read` and `outstanding_flush`. Which blocks a flush writes, whether a
read hits, whether the cache takes a block, whether a write fails, and whether a
job has to be tried again are choices. `"direct"` is a read that does not go
through the cache because `use_read_cache` is off, as it is in the streamer's
sessions. `JobsAccounted` lists the places a job can be in, those that all threads
share (`Shared`) and those of one thread (`InHand`): together they hold exactly the
jobs in progress, any two are disjoint, and no list holds a job twice.

**DiskIoThreadPool.** A thread is at one of the places of `thread_fun` and
`wait_for_job`: it looks at the queue, has decided to exit, sleeps, was notified,
works, submits what its job released, or leaves. One that has left and has to clean
up is no longer a thread of its pool: `cleaning` counts those on their way to
`abort_jobs` (`Cleanup`). A job that has to be tried again is put back and nobody
is notified (`Retry`): the thread that put it back looks at the queue next. Jobs
that find an empty pool arm the idle timer. `m_job_mutex` is held
over several of these steps (`JobMutexFree`), because `stop_threads` does not take
it. The network thread adds and submits jobs, changes the settings, lets the idle
timer go off (in two steps: the counter is read, then replaced) and aborts.

**DiskBackPressure.** A block is received in two steps, because the pool and the
cache have different mutexes: `IncomingPiece` takes the buffer, which counts as lent
until `AddDirtyBlock` puts it into the cache and evicts clean blocks of other pieces;
`receiving` is the block in between, and the network thread does nothing else
meanwhile (`Between`). Blocks are counted: dirty ones by peer, clean ones, pinned
ones (lent to a peer that sends them), buffers lent outside of the cache, and those
in the hands of a thread; `BuffersAgree` and `WritesAccounted` sum them over the
peers and the threads with `SumFunction`. `PerformJobEnd`, `CheckCacheLevel`, `SecondRound`,
`EndCheck` and `CheckAgain` are the end of `perform_job` with
`m_cache_check_state`; `Written` is `iovec_flushed` with the eviction after it.
A write that the cache refuses, and buffers for hashing, are left out.
`NobodyLeftWaiting` is stated for the cache size that the session began with: a
check that is on its way when the size is lowered goes on with the old number of
blocks to flush (`disk_io_thread.cpp:967-1015`), and no other is asked for because
the limit counts as exceeded already.

## Runs

| Run | Instance | Shows |
|---|---|---|
| `fifo` | limit 1, one type per priority, 5 posts | refinement of `AlertQueue`, no lost wake-up, room for the report, every loss reported, every queued alert delivered |
| `any` | limit 1, may become 0 or 2, memory may run out, 4 posts | the client's batch and its pointer stay good however the manager is used |
| `once` | a file of 4 pieces, a magnet link and a torrent of two files, with or without a selection; a cancel; queue limit 2, one foreign alert besides the `read_piece_alert`s | every first start is answered unless its `torrent_finished_alert` is lost, ready is called at most once though finished may be reported twice, and deadlines follow `required_pieces` |
| `forward` | two streamers (symmetric), files of 2 pieces and of 1, window of the whole file, tail of 3, one fast forward, one cancel, fatal torrent files, both outcomes of a write before `piece_priorities` | types: indices before the first piece come into `required_pieces`, none becomes a deadline; deadlines follow `required_pieces`, though each streamer overwrites the other's `MIN_PIECES` |
| `restart` | a torrent file and a magnet link of 2 pieces, two starts, one cancel with or without deletion, resume file good or garbage | deadlines only on missing pieces; ready means complete; a cancel stops the download; after a deletion nothing of the old session comes back |
| `disk` | two reads, two writes, a hash job and two fences of which any three are issued, two threads (symmetric), one retry | a fence job runs alone and in order, the counters are true, no job is lost or in two places, all are answered when all is quiet; refinement of `StorageBarrier` |
| `pool` | 2 or 3 threads, divisor 2, three jobs, each of which may release another or be tried again, two timer events, one change of settings, one abort | true counters, no job without a thread, a timer as long as there are threads, a cleanup after abort, every job taken |
| `pressure` | two peers and two threads (symmetric), three blocks, a read of two blocks, a lost connection, or the cache of 4 made 3, watermark 3 below, no read cache | buffers and the writes of each peer add up, waiters are known to the pool, one check at a time, nobody waits when the disk is at rest |

Bounds. The alert queue repeats itself after two swaps, and five posts fill the
smallest queue for every priority and leave one alert to be lost at each level.
Three or four pieces give a window, a rest and a tail; two starts and a cancel
give an old and a new torrent with alerts of both in one batch. `PieceLength` is
1 and `BufferPercent` chosen so that `MIN_PIECES` is 0, 1 or 2; `TailPieces` is 0, 1
or, to be more than the file has, 3 instead of 10. The queue limit is 2 to 5 instead of
1000, in proportion to the pieces: a handful of `read_piece_alert`s fills it, as
thousands of deadlines would in the code. Three disk jobs are a fence, a job before and one behind it, or two
fences and a job between them; two threads suffice to complete one job while
another is redistributed. `Divisor` is 2 instead of 4, so that three threads give
both pools threads. The low watermark is 3 below the limit instead of at least 16:
the limit counts as exceeded in the middle, so two blocks exceed it and the third
has to wait. `pressure` holds with a read cache as well.
Two runs have a constraint besides: in `forward` the two streamers download different
torrents, as the rows of the list do (`OwnTorrents`), and in `pressure` a read, a lost
connection and a change of the cache size exclude each other (`OneEvent`). The theorems
about the properties of these runs need neither. `CHECK_DEADLOCK` is off because the user may stop and every budget
ends.

The remaining runs are expected to fail. Each shows a sentence of the
repository that the code does not keep:

| Run | Property | Said in | What happens |
|---|---|---|---|
| `second_start` | `StartIsAnswered` | `PTTorrentStreamer.h:73` | the resume-data alert of a cancel tears down the next start; after a finished download `streaming` stays YES |
| `fence_flush` | `FenceRuns` | `disk_io_thread.cpp:2946` | a fence is raised while a write that the last fence has released is not yet in the cache: its flush job comes too early, and the write's own flush job is blocked by the fence. The fence waits until some later job flushes expired blocks |
| `pool_exit` | `ThreadsEnd` | `session_impl.cpp:934` | `stop_threads` notifies without `m_job_mutex`, between a thread's look at `should_exit` and its wait |
| `pool_cleanup` | `CleanupIsLast` | `disk_io_thread.cpp:3213` | a thread that was started is not counted before it runs, and a hash thread releases jobs into the queue of threads that are gone: the cleanup is done with jobs queued |

`StartIsAnswered` fails for a second start, and for a first one whose
`torrent_finished_alert` is lost. `AnsweredUnlessLost` is what remains for a first start
(`once`). `once` and `second_start` take handles of removed
torrents to be still usable: when they have expired, a second
`torrent_finished_alert` in a batch ends the application, and no start is answered.
`JobsNotStranded`, `JobsTaken` and `AbortCleansUp` except the generic queue of a
pool whose threads are gone, which is what `pool_cleanup` shows.

Other disagreements were met while modelling and have no run of their own. In the
application:

* the `read_piece_alert`s of the buffer may fill the queue between two runs of
  `alertsLoop`; `torrent_finished_alert`, of lower priority, is then dropped, the report
  of the loss is ignored, and a first start is never answered
  (`PTTorrentStreamer.mm:381` against `.h:73`; TLC refutes `StartIsAnswered` for one
  start of `clip` with `Limit = 1`);
* the tail of a file with fewer than ten pieces begins before its first piece, and
  with another streamer's `MIN_PIECES` the next window may begin there:
  `piece_priorities` is written before its beginning (`.mm:439` against
  `torrent.cpp:4616`; in `forward`, TLC reaches `fault = "piece_priorities"`);
* a start that fails for lack of space cancels itself, goes on and resumes the session
  (`.mm:251` against `.h:82`): `CancelStopsDownload` holds where there is space, as in
  `restart`, and TLC refutes it with `FALSE` among the `SpaceOutcomes`;
* a fast-forward window that ends one piece past the torrent is never found complete
  (`.mm:285` against `.mm:293`);
* a resume file that cannot be read back ends the application at the next start:
  the handle is used before the error is tested (`.mm:237` against `.h:74`);
* two streamers share `selectedFileIndex` (`.mm:455` against `.h:94`), and the
  largest file replaces the user's pick (`.mm:525` against `.h:33`);
* the resume-data alert of a cancelled start clears `savePath` of the next one
  (`.mm:468` against `.h:17`); a deletion after a plain cancel finds it nil and
  deletes nothing (`.h:84`), which is why `DeleteIsFinal` speaks of deletions only; a piece alert queued before a plain cancel fills
  `torrentStatus` after it (`.h:89`).

In libtorrent, in cases that the runs leave out:

* with a limit lowered while alerts are queued, `get_all` clears the bits of the
  dropped types although its report did not fit;
* a read that passed the fence and finds no memory for its piece is answered without
  `job_complete` (`disk_io_thread.cpp:1701`); with `"nomem"` among `ReadOutcomes`
  `JobsAccounted` fails;
* a read that went straight to the queue may find that a write has made the piece,
  which is then not marked as being read, against the assertion at
  `disk_io_thread.cpp:1320`; no job is lost by it (`disk` includes the case);
* with settings that take away the last hash thread, a hash job that was queued
  and not yet announced stays in the queue (`JobsNotStranded` with
  `AioThreads = {1, 2}`);
* when malloc fails, or the cache size is changed, peers may wait on although there
  is room (`NobodyLeftWaiting` with a failing `AllocOutcomes`, or without its
  condition on `m_max_use`): a size that is raised notifies nobody
  (`disk_buffer_pool.cpp:346`), one that is lowered leaves a check under way with
  its old target, and nothing looks at the level until the next buffer is freed.

## Fairness

The client of the alert manager polls for ever and waits at most `max_wait`, so
each of its steps is weakly fair (`AlertManager!FairSpec`). In
`PTTorrentStreamer!FairSpec` the timer repeats (`AlertsLoop`), a batch is worked
off, the main queue runs, and there is always a peer with every piece
(the network actions, taken together). Nothing is assumed of `ReadPiece` and
`PostIgnored`, which only take up room, nor of the user: starts, cancels, fast forwards, and reopening the application need not happen.

In `DiskIoThread!FairSpec` and `DiskIoThreadPool!FairSpec` the operating system runs
every thread, and the network thread finishes what it has begun. Jobs, timers,
settings and `abort()` need not come. The condition variables get no fairness of
their own: a thread that sleeps goes on only when it was notified.
`NobodyLeftWaiting` and `QuietMeansAnswered` state progress without fairness, as
invariants of the states in which nothing is left to be done.

## Proofs

`AlertManagerProofs` proves, for every set of types, every assignment of
priorities below that of the report, every limit and every bound on posts:

* `ClientSafe`: `ClientInv` (types, `NoLostWakeup`, `BatchIntact`,
  `ReadyMeansQueued`) is an invariant of `SpecAny`, the manager with limits
  changed and allocations failing at any time. The conjuncts are inductive only
  together: that a swap leaves the client's buffer alone needs `m_generation` to
  be 0 or 1, and that a sleeping client has an empty queue needs the post that
  makes it one alert long to notify. `TypeCorrect`, `WakeupsNotLost`,
  `BatchesIntact` and `PointersValid` (what the client holds a pointer to is still
  queued) follow.
* `QueueSafe`: with an unchanged limit, the current buffer holds only alerts and
  has room for a report. `RoomForReport` is not inductive without the limit being
  the initial one. The heart is an argument about integer division
  (`RoomRemains`): an alert that was let in found fewer than
  `limit * (1 + priority)` alerts, so one more is still below the limit of the
  higher priority. `ReportAlwaysFits`, `DropsReported` (an action property) and
  `ManagerIsQueue` (refinement of `AlertQueue`, every step mapped to a step or a
  stutter) follow.

`DiskJobFenceProofs` proves, for every set of jobs and any number of fences, from
no assumption about the constants:

* `FenceInvariant`: `FenceInv` is an invariant of `FenceSpec`. It consists of
  `FenceTypeOK`, `CountersAgree`, `FenceIsExclusive`, `FenceIsHeld`, `HeadIsFence`,
  and two conjuncts that no run needs by itself. `OnePlace`: a job is blocked, in
  progress or finished, and blocked only once; without it the counters could not be
  the cardinalities of sets. `FencesApart`: two fence jobs are never next to each
  other. It is what makes `FenceIsHeld` inductive: when a fence is lowered,
  `job_complete` puts the next fence job back if the caller's list is not empty
  (it may hold jobs of other storages), and the storage would be blocked for good
  if nothing had been released. Nothing is lost only because `raise_fence` puts the
  flush job before every further fence; the branch that posts the next fence job
  directly (`disk_job_fence.cpp:80`) is therefore never taken.
* `FenceTypeTheorem`, `CountersTheorem`, `ExclusiveTheorem`, `HeldTheorem` and `HeadTheorem` follow;
  `BarrierTheorem` is the refinement of `StorageBarrier`, one lemma for each method.

`DiskIoThreadProofs` carries the theorems about the fence over to the disk threads,
for any sets of jobs and threads: `StorageIsExclusive` and `StorageIsBarrier`. The
link is a lemma (`DiskUsesFence`): `DiskIoThread` is written with the fence's own
operations, so it is a matter of the parameters they are called with. The
invariant added is `HandsOK`: whoever is about to ask the fence for a flush job has
one in hand; that a job that completes is a job comes from `FenceInv`.

`DiskJobsProofs` proves `JobsAccountedTheorem` and `QuietTheorem`, for any jobs,
threads and interleaving, with `FenceInv` and `HandsOK` from the modules before. Both
need the hypothesis `ReadsHaveMemory` (`"nomem"` is not among `ReadOutcomes`): with
it, `disk_io_thread.cpp:1701` makes `JobsAccounted` false. The invariant `JobsInv`
adds to `JobsAccounted`:

* `JobTypes`: what a thread can have in hand at each place of its loop (`Shape`).
  Without it a step could overwrite a field that still holds a job.
* `ReadsServed`: as long as reads wait on the piece, some read is on its way that
  will take them along: on the queue, in a hand, or in a released list. This
  is what makes a quiet storage one without waiting reads.
* `DoneAreCalled`: a job that was completed had its handler called, is among the
  completed jobs of which the network thread was told, or is in the hands of a thread
  that will put it there.

A step is then described by the jobs that leave a place and the jobs that come to
one (`ThreadMoves`, `NetMoves`), and one lemma says that such a move keeps the
places apart; every action is shown to be a move.

`DiskIoThreadPoolProofs` proves for any settings (`AioThreads`, `Divisor` of at
least 2), any number of jobs, timer events and changes:

* `PoolInvTheorem`: `PoolInv` is an invariant. It consists of `PoolTypes`,
  `PoolCountersAgree`, `ReaperArmed`, and of how far an abort has got and who
  cleans up after it (`AbortStages`, `Cleaner`). `PoolTypeTheorem`,
  `PoolCountersTheorem` and `ReaperTheorem` follow.
* `StrandedTheorem` and `AbortTheorem`: `JobsNotStranded` and `AbortCleansUp`, from
  `SomebodyComes` (a queued job has a thread that will look, or a network thread that
  is about to announce it), under the hypothesis `HashPoolStays`: the hash pool has
  threads under all the settings that are used, or under none. Settings that take
  its last thread away strand a job, as said above.

`DiskBackPressureProofs` proves for any peers, threads and sizes:

* `PressureInvTheorem`: types, `BuffersAgree`, `WritesAccounted`, `WaitersAreKnown`
  and `CheckerInv` are invariant together. `CheckerInv` ties `m_cache_check_state` to the one thread that checks; the types
  say that the block being received is one of the buffers lent. `BuffersTheorem`,
  `WritesTheorem`, `WaitersTheorem` and `OneCheckerTheorem` follow.
* `WaitingTheorem`: `NobodyLeftWaiting`, from `RestInv`: the level counts as
  exceeded only above the low watermark (`AboveLow`), and then some thread has yet
  to look at it or has taken enough to come below, or a block is being received whose
  `AddDirtyBlock` will see to it (`Attended`). Its hypotheses are
  that allocations succeed (`MemorySuffices`) and that no change of settings restores
  the first cache size (`SizeNotRestored`); both cases fail otherwise, as said above.

`PTTorrentStreamerProofs` proves for any number of streamers, sources, files, pieces,
starts, cancels and crashes, any queue limit, and everything that the network thread
can do in between:

* `StreamerInvariant`: `StreamerInv` is an invariant of `Spec`. `StreamerTypes`
  (`TypeOK`), `DeadlinesMissing` (`DeadlinesAreMissing`) and `DeleteFinal`
  (`DeleteIsFinal`) follow without hypotheses. The types leave `required_pieces` free to
  hold any integers, as the code does; what is proved of them is that an index that is
  no piece of the source never becomes a deadline.
* `ReadyAtMostOnce` (`ReadyOnce`) and `DeadlinesFollow` (`DeadlinesFollowRequired`),
  if a streamer is started at most once (`OneStart`).
* `CancelStops` (`CancelStopsDownload`), if no start fails for lack of space
  (`SpaceSuffices`).
* `ReadyComplete` (`ReadyMeansComplete`), if every source has one file (`SingleFiles`)
  and no directory is deleted under another streamer (`OwnDirectories`).

`StreamerInv` gives the types of the variables, and for every streamer `Good`:

* `SessionOK` and `BatchOK`: an alert in the queue or in the batch names a torrent of
  the session, and what it says (the metadata is there, the file is complete) is true
  and stays true (`AlertOK`). An alert is handled long after it was posted, and
  without this nothing would be known of what its handler finds. `TorrentOK` keeps
  the pieces of a torrent within its source and its deadlines on missing pieces.
* `BudgetOK` and `Fresh`: a start makes one timer and at most one torrent, and there
  is none before the first.
* `DeletedOK`: more than `DeleteIsFinal`, which is not inductive: after a deletion
  there is also no torrent that could post, and no batch that could be worked off.
* `OnceOK`: a ready block is in the main queue only while none has been run, and a
  streamer that could dispatch one has none waiting. `ReadyOnce` alone says nothing
  of the blocks that are still to be run.
* `Held`: without callbacks, the session is paused or has no torrent.
* `Follows` and `OnDisk`: the urgent pieces are the required ones that are missing,
  and what a torrent has is on disk.

The argument goes along the calls of the code. Lemmas about the session operators
say what they leave alone in a torrent and in the others (`Kept`, `Others`) and in the
whole session (`Keeps`, `Calm`); every operator on contexts is shown to do no more than
`Acts` or `Works` allows, a start no more than `Launches`, `processTorrent` no more
than `Plays`; and there is one lemma for each action. That the functions of `StopAll`
and `Forwarded` are what their equations say is shown once (`StopsExists`,
`ForwardsExists`), by the smallest number of torrents for which it is not so.

The hypotheses are where the code's promise ends, and TLC finds each property violated
without its hypothesis on an instance of the size of `restart`. With two starts, a
cancel between them and a ready block still queued, the callback of the second start is
called twice, and two torrents of one session share one `required_pieces`. A start that
fails for lack of space resumes the session. With several files, the index that
`processTorrent` looks up is not the one for which the torrent was reported finished;
and a streamer deletes the directory that another one downloads to.

The sums are recursive functions over the elements of a finite set; `SumTheorems`
proves what changing one term does to them. Induction over data takes an operator as
a parameter, so it is replaced by the argument of a smallest counterexample, which
is first-order; so is the lemma about the jobs that a list keeps (`OnlyList`).

The assumptions are those of the modules: for the alert manager, that the report's
priority is above every other (`DroppedOutranks`) and the initial limit positive;
for the disk threads, that `Jobs` is what the network thread issues together with
the flush jobs, and that reads, writes, other jobs and flush jobs are different jobs
(`DiskAssumption`); for the pools, that there is at least one thread and that
`Divisor` is at least 2 (`PoolAssumption`; it is 4 in the code); for the
back-pressure, that peers and threads are finitely many, sizes natural numbers and
the low watermark at least 2 below the limit (`PressureAssumption`,
`BufferAssumption`; it is at least 16 below in the code); for the streamer, that the
files of a source lie within its pieces and sizes are natural numbers
(`GeometryAssumption`), that the bounds are natural numbers, that an alert can name as
many torrents as there are starts, and that the outcomes of the environment are among
those that the model names (`StreamerAssumption`).

Checked by TLC only: liveness (`QueuedIsDelivered`, `AnsweredUnlessLost`, `JobsTaken`,
and the violations of `StartIsAnswered`, `FenceRuns` and `ThreadsEnd`), which is out of reach of the
prover. Every invariant and every safety property of the passing runs is a theorem.

## Not modelled

* The list of torrents (beyond its calls to start and cancel), the first run, the
  pasteboard, the file browser: user interface, a few statements each; their
  hazards are listed in `PROJECT.json`.
* The player (`kxmovie`): third-party, started on a finished file, and independent
  of the download.
* The rest of libtorrent: trackers, DHT, uTP, encryption, bencoding and the peer
  protocol, of which the application sees only that pieces arrive; in the disk
  subsystem the files themselves, the ARC lists of the cache, what hash, move,
  rename and check jobs compute, and running without disk threads.
* boost and FFmpeg. Nearly all lines of the source tree are headers of these.

## Plan

1. Alert queue: abstract, detailed, refinement, proofs. *Done.*
2. Session and streamer: one and two streamers, restart, deletion, selection. *Done.*
3. Disk: fence with refinement and proofs, jobs, thread pools, back-pressure. *Done.*
4. Proofs about the disk: jobs, pools, back-pressure. *Done.*
5. Proofs about the streamer and its session. *Done.*
6. Models to come: the player (tick chain, scheduled decoding, audio callback,
   seek) and the list (sessions by row number across a reload).
