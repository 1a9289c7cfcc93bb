----------------------------- MODULE RipEngine ------------------------------
(* scarletbook_output.c: main queues the files to write, starts the           *)
(* processing thread, and at once calls scarletbook_output_destroy, which     *)
(* sets stop_processing and joins the thread.  The thread takes the files one *)
(* by one, reads each file's sectors in blocks and passes the frames to the   *)
(* file, directly or through a DST decoder whose write thread writes them.    *)
(* SIGINT, failed reads and failed writes set stop_processing as well.        *)
(*                                                                            *)
(* Abstracted: a sector holds one frame, whose time code is its number (the   *)
(* assembly of frames from packets is left out), and the decoder is what      *)
(* OrderedDecode promises, a queue that dst_decoder_destroy waits for.        *)
EXTENDS Integers, Sequences, FiniteSets, SequencesExt

CONSTANTS
  DiscSize,      \* sectors of the disc
  AreaStart, AreaEnd,     \* track_start and track_end of the area ripped
  OtherStart, OtherEnd,   \* those of the disc's second area
  TrackStarts,   \* track_start_lsn of each track; tracks are numbered from 1
  TrackTimes,    \* the frames within the time of each track, pauses left out
  MaxBlock,      \* MAX_PROCESSING_BLOCK_SIZE
  MaxSignals     \* bound: how often the user interrupts

ASSUME RipAssumption ==
  /\ {DiscSize, AreaStart, AreaEnd, OtherStart, OtherEnd} \subseteq Nat \ {0}
  /\ AreaStart <= AreaEnd /\ AreaEnd < OtherStart
  /\ OtherStart <= OtherEnd /\ OtherEnd < DiscSize
  /\ MaxBlock \in Nat \ {0} /\ MaxSignals \in Nat
  /\ TrackStarts \in Seq(AreaStart..AreaEnd)
  /\ \A t, u \in DOMAIN TrackStarts : t <= u => TrackStarts[t] <= TrackStarts[u]
  /\ Len(TrackTimes) = Len(TrackStarts)

VARIABLES
  format,       \* what is written: "iso", "dsd" or "dst" (decoded to DSD)
  trimming,     \* handle->audio_frame_trimming
  mpc,          \* where main is
  stop,         \* output->stop_processing
  processing,   \* output->processing
  queue,        \* output->ripping_queue
  stats,        \* the sectors queued, and those processed so far
  tpc,          \* where the processing thread is
  ft,           \* the file it works on
  block,        \* block_size and encrypted
  decoder,      \* the frames submitted to ft->dst_decoder and not yet written
  file,         \* per file: its state, current_lsn, and the frames written
  signals,      \* history: SIGINTs of the user so far
  interrupted,  \* history: one of them came while a file was open
  failure       \* history: a read or a write has failed

vars == <<format, trimming, mpc, stop, processing, queue, stats, tpc, ft,
          block, decoder, file, signals, interrupted, failure>>

modeVars == <<format, trimming>>
history == <<signals, interrupted, failure>>

-----------------------------------------------------------------------------
Formats == {"iso", "dsd", "dst"}
Tracks == DOMAIN TrackStarts
FileIds == {0} \cup Tracks     \* the file's first track; 0 is an image or master

LsnMin(a, b) == IF a <= b THEN a ELSE b

\* Where a track starts: the first one at the start of the area.
TrackStart(t) == IF t > 1 THEN TrackStarts[t] ELSE AreaStart

\* The sectors in which the frames of track t lie.
Extent(t) == TrackStart(t) ..
             (IF t < Len(TrackStarts) THEN TrackStarts[t + 1] - 1 ELSE AreaEnd)

\* Of the disc, which the code takes as it is: the times that its table of
\* contents gives a track lie within the track.
ASSUME TimesAssumption == \A t \in Tracks : TrackTimes[t] \subseteq Extent(t)

\* Mutant: the length of the last track forgets the last sector.
TrackLength_ShortEnd(first, last) ==
  IF last < Len(TrackStarts) THEN TrackStarts[last + 1] - TrackStart(first) + 1
  ELSE AreaEnd - TrackStart(first)

\* The sectors of the file for the tracks first..last: up to and including the
\* sector in which the next track starts, or to the end of the area.
TrackLength(first, last) ==
  IF last < Len(TrackStarts) THEN TrackStarts[last + 1] - TrackStart(first) + 1
  ELSE AreaEnd - TrackStart(first) + 1

\* The entries of the queue: id is the track of ft, tracks those in the file.
TrackFile(first, last) == [id |-> first, tracks |-> first..last,
                           start |-> TrackStart(first),
                           length |-> TrackLength(first, last)]
ImageFile == [id |-> 0, tracks |-> {}, start |-> 0, length |-> DiscSize]
MasterFile == [id |-> 0, tracks |-> Tracks, start |-> AreaStart,
               length |-> AreaEnd - AreaStart + 1]
NoFile == [id |-> 0, tracks |-> {}, start |-> 0, length |-> 0]

\* The files main queues: the whole disc; an edit master of the whole area; the
\* selected tracks in order; or the selected tracks, with those between them,
\* in one file, pauses included.
Selections ==
  {selected \in UNION {[1..n -> Tracks] : n \in 1..Len(TrackStarts)} :
     \A i, j \in DOMAIN selected : i < j => selected[i] < selected[j]}
ImageQueue == <<ImageFile>>
MasterQueue == <<MasterFile>>
TrackQueue(selected) ==
  [i \in DOMAIN selected |-> TrackFile(selected[i], selected[i])]
ConcatQueue(selected) ==
  <<TrackFile(selected[1], selected[Len(selected)])>>

FileAt(state, lsn, data) == [state |-> state, lsn |-> lsn, data |-> data]

Sectors(f) == f.start .. f.start + f.length - 1

\* frame_read_callback: the frames that go to the file.  An image or an edit
\* master is never trimmed.
Kept(f, s) == f.id = 0 \/ ~trimming \/ s \in TrackTimes[f.id]
KeptOf(f) == {s \in Sectors(f) : Kept(f, s)}

Extended(seq, S, s) == IF s \in S THEN Append(seq, s) ELSE seq

\* Those of a set that are among the n sectors from lsn on, in order.
Among(S, lsn, n) ==
  LET among[i \in 0..n] == IF i = 0 THEN <<>> ELSE Extended(among[i - 1], S, lsn + i - 1)
  IN among[n]
KeptIn(f, lsn, n) == Among(KeptOf(f), lsn, n)

Encrypted == AreaStart..AreaEnd \cup OtherStart..OtherEnd

Files == [id : FileIds, tracks : SUBSET Tracks, start : Nat, length : Nat]
ThreadLabels == {"none", "begin", "next", "create", "reset", "test", "read",
                 "check", "drain", "close", "stopdrain", "stopclose", "exited"}

TypeOK ==
  /\ format \in Formats /\ trimming \in BOOLEAN
  /\ mpc \in {"ready", "destroy", "join", "done"}
  /\ stop \in {0, 1} /\ processing \in {0, 1}
  /\ queue \in Seq(Files)
  /\ stats \in [total : Nat, done : Nat] /\ stats.done <= stats.total
  /\ tpc \in ThreadLabels
  /\ ft \in Files
  /\ block \in [size : 0..MaxBlock, encrypted : BOOLEAN]
  /\ decoder \in Seq(0..DiscSize)
  /\ file \in [FileIds -> [state : {"none", "open", "closed", "failed"},
                           lsn : Nat, data : Seq(0..DiscSize)]]
  /\ signals \in 0..MaxSignals
  /\ interrupted \in BOOLEAN /\ failure \in BOOLEAN

-----------------------------------------------------------------------------
\* scarletbook_output_create, and the calls that fill the queue.
Init ==
  /\ format \in Formats /\ trimming \in BOOLEAN
  /\ IF format = "iso" THEN queue = ImageQueue
     ELSE \/ queue = MasterQueue
          \/ \E selected \in Selections :
               \/ queue = TrackQueue(selected)
               \/ queue = ConcatQueue(selected) /\ ~trimming
  /\ mpc = "ready" /\ stop = 0 /\ processing = 0
  /\ stats = [total |-> 0, done |-> 0]
  /\ tpc = "none" /\ ft = NoFile
  /\ block = [size |-> 0, encrypted |-> FALSE]
  /\ decoder = <<>>
  /\ file = [id \in FileIds |-> FileAt("none", 0, <<>>)]
  /\ signals = 0 /\ interrupted = FALSE /\ failure = FALSE

-----------------------------------------------------------------------------
(* main *)

SumLengths(files) ==
  LET sum[i \in 0..Len(files)] == IF i = 0 THEN 0 ELSE sum[i - 1] + files[i].length
  IN sum[Len(files)]

\* scarletbook_output_start
Start == /\ mpc = "ready"
         /\ stats' = [total |-> SumLengths(queue), done |-> 0]
         /\ tpc' = "begin"
         /\ mpc' = "destroy"
         /\ UNCHANGED <<modeVars, stop, processing, queue, ft, block, decoder,
                        file, history>>

\* scarletbook_output_destroy calls scarletbook_output_interrupt first ...
DestroyInterrupt == /\ mpc = "destroy"
                    /\ stop' = 1
                    /\ mpc' = "join"
                    /\ UNCHANGED <<modeVars, processing, queue, stats, tpc, ft,
                                   block, decoder, file, history>>

\* ... and then joins the thread and frees the buffers.
Join == /\ mpc = "join"
        /\ tpc = "exited"
        /\ mpc' = "done"
        /\ UNCHANGED <<modeVars, stop, processing, queue, stats, tpc, ft, block,
                       decoder, file, history>>

FileOpen == file[ft.id].state = "open"

\* The user's SIGINT: handle_sigint calls scarletbook_output_interrupt.
Sigint == /\ mpc # "done"
          /\ signals < MaxSignals
          /\ signals' = signals + 1
          /\ stop' = 1
          /\ interrupted' = (interrupted \/ FileOpen)
          /\ UNCHANGED <<modeVars, mpc, processing, queue, stats, tpc, ft, block,
                         decoder, file, failure>>

-----------------------------------------------------------------------------
(* processing_thread *)

Begin == /\ tpc = "begin"
         /\ processing' = 1
         /\ tpc' = "next"
         /\ UNCHANGED <<modeVars, mpc, stop, queue, stats, ft, block, decoder,
                        file, history>>

\* Take the first file off the queue and create its decoder; calloc has left
\* its current_lsn 0.
TakeFile == /\ tpc = "next"
            /\ queue # <<>>
            /\ ft' = Head(queue)
            /\ queue' = Tail(queue)
            /\ decoder' = <<>>
            /\ tpc' = "create"
            /\ UNCHANGED <<modeVars, mpc, stop, processing, stats, block, file,
                           history>>

\* The queue is empty: the thread ends.
Finish == /\ tpc = "next"
          /\ queue = <<>>
          /\ processing' = 0
          /\ tpc' = "exited"
          /\ UNCHANGED <<modeVars, mpc, stop, queue, stats, ft, block, decoder,
                         file, history>>

\* create_output_file; current_lsn = start_lsn
CreateFile == /\ tpc = "create"
              /\ file' = [file EXCEPT ![ft.id] = FileAt("open", ft.start, <<>>)]
              /\ tpc' = "reset"
              /\ UNCHANGED <<modeVars, mpc, stop, processing, queue, stats, ft,
                             block, decoder, history>>

\* ... or it fails: the thread goes on after the loop.
CreateFails == /\ tpc = "create"
               /\ file' = [file EXCEPT ![ft.id].state = "failed"]
               /\ tpc' = "check"
               /\ UNCHANGED <<modeVars, mpc, stop, processing, queue, stats, ft,
                              block, decoder, history>>

\* sysAtomicSet(&output->stop_processing, 0)
ResetStop == /\ tpc = "reset"
             /\ stop' = 0
             /\ tpc' = "test"
             /\ UNCHANGED <<modeVars, mpc, processing, queue, stats, ft, block,
                            decoder, file, history>>

\* The range of sectors up to the next change between plain and encrypted:
\* how many sectors from lsn it has, and which it is.
Region(lsn) ==
  IF lsn < AreaStart THEN [size |-> AreaStart - lsn, encrypted |-> FALSE]
  ELSE IF lsn <= AreaEnd THEN [size |-> AreaEnd + 1 - lsn, encrypted |-> TRUE]
  ELSE IF lsn < OtherStart THEN [size |-> OtherStart - lsn, encrypted |-> FALSE]
  ELSE IF lsn <= OtherEnd THEN [size |-> OtherEnd + 1 - lsn, encrypted |-> TRUE]
  ELSE [size |-> MaxBlock, encrypted |-> FALSE]

EndLsn == ft.start + ft.length

\* Mutant: a block larger than the read buffer.
BlockSize_NoLimit(lsn) == LsnMin(EndLsn - lsn, Region(lsn).size)

BlockSize(lsn) == LsnMin(EndLsn - lsn, LsnMin(Region(lsn).size, MaxBlock))

\* The head of the loop: stop, or choose the next block.
LoopTest ==
  LET lsn == file[ft.id].lsn IN
  /\ tpc = "test"
  /\ IF stop = 0 /\ lsn < EndLsn
     THEN /\ block' = [size |-> BlockSize(lsn), encrypted |-> Region(lsn).encrypted]
          /\ tpc' = "read"
     ELSE tpc' = "check" /\ UNCHANGED block
  /\ UNCHANGED <<modeVars, mpc, stop, processing, queue, stats, ft, decoder,
                 file, history>>

\* sacd_read_block_raw reads n blocks: what this does to the position and to
\* the statistics.
Advanced(n) == [file[ft.id] EXCEPT !.lsn = @ + n]
Processed(n) == [stats EXCEPT !.done = @ + n]

\* The frames of the blocks read, and their way to the file: the decoder ...
Arrived(n) == KeptIn(ft, file[ft.id].lsn, n)
ReadForDecoder(n) ==
  /\ format = "dst"
  /\ decoder' = decoder \o Arrived(n)
  /\ file' = [file EXCEPT ![ft.id] = Advanced(n)]
  /\ UNCHANGED <<stop, failure>>

\* ... or write_block, which may fail for some of the frames: raise(SIGINT), or
\* stop_processing is set directly when the format is raw.
ReadAndWrite(n) ==
  /\ format # "dst"
  /\ \E lost \in SUBSET ToSet(Arrived(n)) :
       /\ file' = [file EXCEPT ![ft.id] =
                     [Advanced(n) EXCEPT !.data =
                        @ \o Among(KeptOf(ft) \ lost, file[ft.id].lsn, n)]]
       /\ stop' = IF lost = {} THEN stop ELSE 1
       /\ failure' = (failure \/ lost # {})
  /\ UNCHANGED decoder

Read == \E n \in 1..block.size :
          /\ tpc = "read"
          /\ ReadForDecoder(n) \/ ReadAndWrite(n)
          /\ stats' = Processed(n)
          /\ tpc' = "test"
          /\ UNCHANGED <<modeVars, mpc, processing, queue, ft, block, signals,
                         interrupted>>

\* Mutant: a failed read is only logged.
ReadFails_Ignored == /\ tpc = "read"
                     /\ failure' = TRUE
                     /\ tpc' = "test"
                     /\ UNCHANGED <<modeVars, mpc, stop, processing, queue, stats, ft,
                                    block, decoder, file, signals, interrupted>>

\* No block could be read.
ReadFails == /\ tpc = "read"
             /\ stop' = 1
             /\ failure' = TRUE
             /\ tpc' = "test"
             /\ UNCHANGED <<modeVars, mpc, processing, queue, stats, ft, block,
                            decoder, file, signals, interrupted>>

\* Mutant: only an error stops the thread.
Stopped_OnFailure == stop = 1 /\ failure

\* After the loop: has it been stopped?
Stopped == stop = 1

Check == /\ tpc = "check"
         /\ processing' = IF Stopped THEN 0 ELSE processing
         /\ tpc' = IF Stopped THEN "stopdrain" ELSE "drain"
         /\ UNCHANGED <<modeVars, mpc, stop, queue, stats, ft, block, decoder,
                        file, history>>

\* Mutant: the file is closed while the decoder is still at work.
Drain_AtOnce == /\ tpc \in {"drain", "stopdrain"}
                /\ tpc' = IF tpc = "drain" THEN "close" ELSE "stopclose"
                /\ UNCHANGED <<modeVars, mpc, stop, processing, queue, stats, ft, block,
                               decoder, file, history>>

\* dst_decoder_destroy returns when every frame submitted has been written.
Drain == /\ tpc \in {"drain", "stopdrain"}
         /\ decoder = <<>>
         /\ tpc' = IF tpc = "drain" THEN "close" ELSE "stopclose"
         /\ UNCHANGED <<modeVars, mpc, stop, processing, queue, stats, ft, block,
                        decoder, file, history>>

\* Mutant: a stopped thread leaves the queue as it is.
Close_KeepQueue == /\ tpc \in {"close", "stopclose"}
                   /\ file' = IF FileOpen THEN [file EXCEPT ![ft.id].state = "closed"]
                              ELSE file
                   /\ tpc' = IF tpc = "close" THEN "next" ELSE "exited"
                   /\ UNCHANGED <<modeVars, mpc, stop, processing, queue, stats, ft, block,
                                  decoder, history>>

\* close_output_file, and the next file; when stopped, destroy_ripping_queue
\* and pthread_exit.
Close == /\ tpc \in {"close", "stopclose"}
         /\ file' = IF FileOpen THEN [file EXCEPT ![ft.id].state = "closed"] ELSE file
         /\ queue' = IF tpc = "close" THEN queue ELSE <<>>
         /\ tpc' = IF tpc = "close" THEN "next" ELSE "exited"
         /\ UNCHANGED <<modeVars, mpc, stop, processing, stats, ft, block,
                        decoder, history>>

ProcessingThread == \/ Begin \/ TakeFile \/ Finish \/ CreateFile \/ CreateFails
                    \/ ResetStop \/ LoopTest \/ Read \/ ReadFails \/ Check
                    \/ Drain \/ Close

-----------------------------------------------------------------------------
(* The decoder's write thread: frame_decoded_callback *)

Callback == /\ decoder # <<>>
            /\ decoder' = Tail(decoder)
            /\ \/ /\ file' = [file EXCEPT ![ft.id].data = Append(@, Head(decoder))]
                  /\ UNCHANGED <<stop, failure>>
               \/ /\ stop' = 1        \* write_block fails: raise(SIGINT)
                  /\ failure' = TRUE
                  /\ UNCHANGED file
            /\ UNCHANGED <<modeVars, mpc, processing, queue, stats, tpc, ft, block,
                           signals, interrupted>>

-----------------------------------------------------------------------------
Finished == mpc = "done" /\ UNCHANGED vars

Next == \/ Start \/ DestroyInterrupt \/ Join \/ Sigint
        \/ ProcessingThread \/ Callback \/ Finished

Spec == Init /\ [][Next]_vars

\* Both threads are scheduled, and so is main inside its two calls.
FairSpec == /\ Spec
            /\ WF_vars(Start) /\ WF_vars(DestroyInterrupt) /\ WF_vars(Join)
            /\ WF_vars(ProcessingThread)
            /\ WF_vars(Callback)

-----------------------------------------------------------------------------
(* Properties *)

\* A file that has been closed holds the frames of what was read for it, in
\* order, each once, unless a write failed: nothing is in flight when it is
\* closed, in the decoder or from an earlier file.
ClosedFileHoldsWhatWasRead ==
  file[ft.id].state = "closed" =>
    LET expected == KeptIn(ft, ft.start, file[ft.id].lsn - ft.start) IN
    /\ ~failure => file[ft.id].data = expected
    /\ ToSet(file[ft.id].data) \subseteq ToSet(expected)

Promised(f) == IF format = "iso" THEN 0..DiscSize - 1
               ELSE IF trimming /\ f.id # 0 THEN TrackTimes[f.id]
               ELSE UNION {Extent(t) : t \in f.tracks}

\* A file that was read to its end holds all its tracks: no sector is left out
\* where two tracks meet or at the end of the area.
CompleteFileHoldsItsTracks ==
  file[ft.id].state = "closed" /\ file[ft.id].lsn = EndLsn /\ ~failure =>
    Promised(ft) \subseteq ToSet(file[ft.id].data)

\* A block to be read is not empty, fits the read buffer, does not go beyond
\* the end of the file, and never crosses from plain to encrypted sectors.
BlockInOneRegion ==
  tpc = "read" =>
    LET lsn == file[ft.id].lsn IN
    /\ block.size \in 1..MaxBlock /\ lsn + block.size <= EndLsn
    /\ \A s \in lsn .. lsn + block.size - 1 : s \in Encrypted <=> block.encrypted

\* When scarletbook_output_destroy returns, every file is closed, no frame is
\* in a decoder, the queue is freed and the engine is not busy, whatever way
\* the thread ended.
NothingOpen ==
  mpc = "done" => /\ queue = <<>> /\ decoder = <<>> /\ processing = 0
                  /\ \A id \in FileIds : file[id].state # "open"

\* Besides, when the last file is done and all were created, the progress shown
\* has reached the total, whatever the lengths of the reads.
NothingLeft ==
  /\ NothingOpen
  /\ tpc = "next" /\ queue = <<>> /\ (\A id \in FileIds : file[id].state # "failed")
       => stats.done = stats.total

TakesNextFile == tpc = "next" /\ tpc' = "create"

\* After a file that was cut short no other file is begun: the thread sees the
\* stop that ended the loop, whoever set it.
NoneAfterCutShort ==
  [][TakesNextFile => file[ft.id].state # "closed" \/ file[ft.id].lsn = EndLsn]_vars

\* scarletbook_output_destroy always returns, also when no block can be read.
DestroyReturns == mpc = "destroy" ~> mpc = "done"

-----------------------------------------------------------------------------
(* What the comments say and the code does not do *)

\* "indicates if the thread needs to stop": once the user has interrupted the
\* program while a file is written, no other file is begun.
InterruptStopsRip == [][TakesNextFile => ~interrupted]_vars

\* The thread ends before its work is done only when the "user cancelled", or
\* a read or a write failed.
StopsOnlyForCause ==
  [][tpc # "exited" /\ tpc' = "exited" /\ signals = 0 /\ ~failure =>
       queue = <<>> /\ (FileOpen => file[ft.id].lsn = EndLsn)]_vars

-----------------------------------------------------------------------------
(* The inductive invariant *)

\* What the variables look like, as far as the steps depend on it.
ShapeInv ==
  /\ stop \in {0, 1} /\ tpc \in ThreadLabels
  /\ ft \in Files /\ queue \in Seq(Files)
  /\ block \in [size : 0..MaxBlock, encrypted : BOOLEAN]
  /\ DOMAIN file = FileIds
  /\ \A id \in FileIds : /\ file[id] = FileAt(file[id].state, file[id].lsn, file[id].data)
                          /\ file[id].lsn \in Nat

\* Where main is, and what it may rely on when the thread has ended.
ThreadInv ==
  /\ mpc = "ready" <=> tpc = "none"
  /\ mpc = "done" => tpc = "exited"
  /\ tpc \in {"stopdrain", "stopclose", "exited"} => processing = 0
  /\ tpc = "exited" => queue = <<>>

\* A file is open only while the thread works on it, and frames are in the
\* decoder only then.
OpenInv ==
  /\ \A id \in FileIds : file[id].state = "open" =>
       id = ft.id /\ tpc \notin {"none", "begin", "next", "create", "exited"}
  /\ tpc \in {"reset", "test", "read"} => FileOpen
  /\ tpc \in {"check", "drain", "close", "stopdrain", "stopclose"} =>
       file[ft.id].state \in {"open", "failed"}
  /\ tpc \in {"none", "begin"} => file[ft.id].state = "none"
  /\ decoder # <<>> => FileOpen /\ tpc \in {"test", "read", "check", "drain", "stopdrain"}

\* How far a file has been read: to its end, or a stop is pending.
ReachInv ==
  LET lsn == file[ft.id].lsn IN
  /\ FileOpen => lsn <= EndLsn
  /\ tpc = "check" /\ FileOpen => stop = 1 \/ lsn = EndLsn
  /\ tpc \in {"drain", "close"} /\ FileOpen => lsn = EndLsn
  /\ tpc = "next" /\ file[ft.id].state = "closed" => lsn = EndLsn

RipInv == ShapeInv /\ ThreadInv /\ OpenInv /\ ReachInv /\ BlockInOneRegion

\* The files of a mode.
Planned(f) ==
  IF format = "iso" THEN f = ImageFile
  ELSE \/ f = MasterFile
       \/ \E t, u \in Tracks : t <= u /\ f = TrackFile(t, u) /\ (trimming => t = u)

\* Every file is begun once.
QueueInv ==
  /\ \A i \in DOMAIN queue : /\ Planned(queue[i]) /\ file[queue[i].id].state = "none"
                             /\ tpc \in {"none", "begin", "next"} \/ queue[i].id # ft.id
  /\ \A i, j \in DOMAIN queue : i # j => queue[i].id # queue[j].id
  /\ tpc \in {"none", "begin", "next", "exited"} \/ Planned(ft)
  /\ file[ft.id].state = "closed" => Planned(ft)
  /\ tpc = "create" => file[ft.id].state = "none"

\* A file and the decoder behind it hold what was read so far.
DataInv ==
  LET f == file[ft.id]
      expected == KeptIn(ft, ft.start, f.lsn - ft.start)
  IN
  /\ format \in Formats /\ trimming \in BOOLEAN /\ failure \in BOOLEAN
  /\ \A id \in FileIds : file[id].data \in Seq(Nat)
  /\ decoder \in Seq(Nat)
  /\ format # "dst" => decoder = <<>>
  /\ f.state \in {"open", "closed"} =>
       /\ f.lsn >= ft.start
       /\ ~failure => f.data \o decoder = expected
       /\ ToSet(f.data) \cup ToSet(decoder) \subseteq ToSet(expected)

\* What is still to be read of the file the thread works on.
Rest == IF tpc \in {"begin", "next"} THEN 0
        ELSE IF tpc = "create" THEN ft.length
        ELSE EndLsn - file[ft.id].lsn

ProgressInv ==
  /\ stats.total \in Nat /\ stats.done \in Nat /\ DOMAIN stats = {"total", "done"}
  /\ tpc \notin {"none", "exited"} /\ (\A id \in FileIds : file[id].state # "failed") =>
       stats.total = stats.done + Rest + SumLengths(queue)

RipDataInv == QueueInv /\ DataInv /\ ProgressInv

\* What is still to be read of a file that is open or about to be opened.
ToRead == IF tpc = "create" THEN ft.length
          ELSE IF FileOpen THEN EndLsn - file[ft.id].lsn
          ELSE 0

\* What is read and what is left are never more than the total: less only when a
\* file could not be created or the thread was stopped.
WithinTotal == tpc # "none" => stats.done + ToRead + SumLengths(queue) <= stats.total
=============================================================================
