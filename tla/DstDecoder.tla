----------------------------- MODULE DstDecoder -----------------------------
(* dst_decoder.c: the frames of a track are decoded in parallel and written   *)
(* in order.  The main thread (the caller of dst_decoder_decode) copies each  *)
(* frame to an input space and appends a job to the decode list; up to Procs  *)
(* decode threads take jobs from its head, decode into an output space, drop  *)
(* the input space and insert the job in the write list, sorted by sequence   *)
(* number; the write thread takes the jobs off that list in sequence, passes  *)
(* the result to the callbacks and drops the output space.                    *)
(*                                                                            *)
(* An action is one critical section of decode_have or write_first, one call  *)
(* on a pool (atomic, as BufferPool shows), or one step between them.  The    *)
(* buffers' contents are modelled to tell a buffer that is reused too early:  *)
(* an input space holds the number of a frame, an output space the number of  *)
(* the frame it was decoded from, or Silence.                                 *)
EXTENDS Integers, Sequences, FiniteSets

CONSTANTS Procs,       \* processor_count()
          MaxFrames,   \* bound: frames of the track
          BadFrames    \* the frames whose data DST_FramDSTDecode rejects

ASSUME DecoderAssumption == /\ Procs \in Nat \ {0}
                            /\ MaxFrames \in Nat
                            /\ BadFrames \subseteq 1..MaxFrames

VARIABLES
  mpc,          \* where the main thread is
  submitted,    \* frames passed to dst_decoder_decode so far
  sequence,     \* dst_decoder->sequence
  cthreads,     \* dst_decoder->cthreads
  jobs,         \* the job with each sequence number, while it is allocated
  decode_have,  \* value of the lock: number of decode jobs waiting
  decode_list,  \* sequence numbers of the jobs from decode_head
  write_first,  \* value of the lock: lowest sequence number in the write list
  write_list,   \* sequence numbers of the jobs from write_head
  dpc, djob,    \* per decode thread: where it is, and its job
  caught,       \* threads joined by join_all
  wpc, wseq,    \* the write thread: where it is, the sequence number it needs
  inFree, inBuf,    \* in_pool: its free stack, the content of each space made
  outFree, outBuf,  \* out_pool, likewise
  written,      \* contents passed to frame_decoded_callback
  reported      \* frames passed to frame_error_callback

mainVars  == <<mpc, submitted, sequence, cthreads, caught>>
listVars  == <<decode_have, decode_list, write_first, write_list>>
inVars    == <<inFree, inBuf>>
outVars   == <<outFree, outBuf>>
writerVars == <<wpc, wseq>>
logVars   == <<written, reported>>
vars == <<mpc, submitted, sequence, cthreads, caught, jobs,
          decode_have, decode_list, write_first, write_list, dpc, djob,
          wpc, wseq, inFree, inBuf, outFree, outBuf, written, reported>>

-----------------------------------------------------------------------------
Decoders  == 1..Procs
InLimit   == 2 * Procs + 2     \* the limit of in_pool; out_pool has none
NoSpace   == 0                 \* spaces are numbered from 1 as they are made
Silence   == 0
Garbage   == -1                \* content of a new space
ReturnJob == -1                \* the job that makes the decode threads return
NoneWaiting == -1              \* write_first when the write list is empty

\* Jobs are numbered from 0; the job after the last frame has more = FALSE.
JobNumbers == 0..MaxFrames
Contents == {Garbage, Silence} \cup 1..MaxFrames
NoJob == [live |-> FALSE, more |-> FALSE, error |-> FALSE,
          in |-> NoSpace, out |-> NoSpace]
NewJob(more, in) == [live |-> TRUE, more |-> more, error |-> FALSE,
                     in |-> in, out |-> NoSpace]

MainLabels    == {"ready", "getspace", "launch", "append", "join", "return",
                  "joinall", "free", "done"}
DecoderLabels == {"none", "take", "space", "decode", "drop", "insert",
                  "exited", "joined"}
WriterLabels  == {"take", "report", "write", "drop", "verify", "exit", "exited"}

MainTypeOK == /\ mpc \in MainLabels
              /\ submitted \in 0..MaxFrames
              /\ sequence \in 0..MaxFrames + 1
              /\ cthreads \in 0..Procs
              /\ caught \in Nat

JobTypeOK == jobs \in [JobNumbers -> [live : BOOLEAN, more : BOOLEAN, error : BOOLEAN,
                                     in : Nat, out : Nat]]

ListTypeOK == /\ decode_have \in Nat
              /\ decode_list \in Seq(JobNumbers \cup {ReturnJob})
              /\ write_first \in JobNumbers \cup {NoneWaiting}
              /\ write_list \in Seq(JobNumbers)

ThreadTypeOK == /\ dpc \in [Decoders -> DecoderLabels]
                /\ djob \in [Decoders -> JobNumbers]
                /\ wpc \in WriterLabels
                /\ wseq \in 0..MaxFrames + 1

PoolTypeOK == /\ inBuf \in Seq(Contents) /\ Len(inBuf) <= InLimit
              /\ outBuf \in Seq(Contents)
              /\ inFree \in Seq(1..Len(inBuf))
              /\ outFree \in Seq(1..Len(outBuf))

LogTypeOK == written \in Seq(Contents) /\ reported \subseteq Contents

TypeOK == /\ MainTypeOK /\ JobTypeOK /\ ListTypeOK
          /\ ThreadTypeOK /\ PoolTypeOK /\ LogTypeOK

-----------------------------------------------------------------------------
(* dst_decoder_create: setup_decoding_jobs and the launch of write_thread.   *)

Init ==
  /\ mpc = "ready"
  /\ submitted = 0 /\ sequence = 0 /\ cthreads = 0 /\ caught = 0
  /\ jobs = [j \in JobNumbers |-> NoJob]
  /\ decode_have = 0 /\ decode_list = <<>>
  /\ write_first = NoneWaiting /\ write_list = <<>>
  /\ dpc = [t \in Decoders |-> "none"] /\ djob = [t \in Decoders |-> 0]
  /\ wpc = "take" /\ wseq = 0
  /\ inFree = <<>> /\ inBuf = <<>> /\ outFree = <<>> /\ outBuf = <<>>
  /\ written = <<>> /\ reported = {}

-----------------------------------------------------------------------------
(* The main thread *)

\* The caller hands in one more frame.
Submit == /\ mpc = "ready"
          /\ submitted < MaxFrames
          /\ submitted' = submitted + 1
          /\ mpc' = "getspace"
          /\ UNCHANGED <<sequence, cthreads, caught, jobs, listVars, dpc, djob,
                         writerVars, inVars, outVars, logVars>>

\* buffer_pool_get_space: the space on top of the free stack, or a new one.
NextSpace(free, buf) == IF free # <<>> THEN Head(free) ELSE Len(buf) + 1

\* The stack and the contents after it; a reused space keeps its old content.
FreeAfterGet_KeepFree(free) == free     \* Mutant: the space stays in the stack
FreeAfterGet(free) == IF free # <<>> THEN Tail(free) ELSE <<>>
BufAfterGet(free, buf) == IF free # <<>> THEN buf ELSE Append(buf, Garbage)

\* buffer_pool_get_space(&in_pool), which waits while InLimit spaces are in
\* use; then the frame is copied and sequence is incremented.
GetInput ==
  LET space == NextSpace(inFree, inBuf) IN
  /\ mpc = "getspace"
  /\ inFree # <<>> \/ Len(inBuf) < InLimit
  /\ inFree' = FreeAfterGet(inFree)
  /\ inBuf' = [BufAfterGet(inFree, inBuf) EXCEPT ![space] = submitted]
  /\ jobs' = [jobs EXCEPT ![sequence] = NewJob(TRUE, space)]
  /\ sequence' = sequence + 1
  /\ mpc' = "launch"
  /\ UNCHANGED <<submitted, cthreads, caught, listVars, dpc, djob, writerVars,
                 outVars, logVars>>

\* dst_decoder_destroy, finish_write_job: the job that ends the write thread.
Destroy ==
  /\ mpc = "ready"
  /\ jobs' = [jobs EXCEPT ![sequence] = NewJob(FALSE, NoSpace)]
  /\ sequence' = sequence + 1
  /\ mpc' = "launch"
  /\ UNCHANGED <<submitted, cthreads, caught, listVars, dpc, djob, writerVars,
                 inVars, outVars, logVars>>

\* Start another decode thread if there are fewer than Procs.
Launch ==
  /\ mpc = "launch"
  /\ IF cthreads < Procs
     THEN /\ dpc' = [dpc EXCEPT ![cthreads + 1] = "take"]
          /\ cthreads' = cthreads + 1
     ELSE UNCHANGED <<dpc, cthreads>>
  /\ mpc' = "append"
  /\ UNCHANGED <<submitted, sequence, caught, jobs, listVars, djob, writerVars,
                 inVars, outVars, logVars>>

\* Put the job at the end of the decode list: twist(decode_have, BY, +1).
AppendJob ==
  LET job == sequence - 1 IN
  /\ mpc = "append"
  /\ decode_list' = Append(decode_list, job)
  /\ decode_have' = decode_have + 1
  /\ mpc' = IF jobs[job].more THEN "ready" ELSE "join"
  /\ UNCHANGED <<submitted, sequence, cthreads, caught, jobs, write_first,
                 write_list, dpc, djob, writerVars, inVars, outVars, logVars>>

\* Mutant: the write thread is not joined.
JoinWriter_AtOnce == /\ mpc = "join"
                     /\ mpc' = "return"
                     /\ UNCHANGED <<submitted, sequence, cthreads, caught, jobs,
                                    listVars, dpc, djob, writerVars, inVars,
                                    outVars, logVars>>

\* join(writeth) at the end of finish_write_job.
JoinWriter == /\ mpc = "join"
              /\ wpc = "exited"
              /\ mpc' = "return"
              /\ UNCHANGED <<submitted, sequence, cthreads, caught, jobs,
                             listVars, dpc, djob, writerVars, inVars, outVars,
                             logVars>>

\* finish_decoding_jobs: the list becomes the one job with sequence -1.
CommandReturn ==
  /\ mpc = "return"
  /\ decode_list' = <<ReturnJob>>
  /\ decode_have' = decode_have + 1
  /\ mpc' = "joinall"
  /\ UNCHANGED <<submitted, sequence, cthreads, caught, jobs, write_first,
                 write_list, dpc, djob, writerVars, inVars, outVars, logVars>>

\* One round of join_all: a thread that has exited is joined.
JoinOne == /\ mpc = "joinall"
           /\ \E t \in Decoders : /\ dpc[t] = "exited"
                                  /\ dpc' = [dpc EXCEPT ![t] = "joined"]
           /\ caught' = caught + 1
           /\ UNCHANGED <<mpc, submitted, sequence, cthreads, jobs, listVars,
                          djob, writerVars, inVars, outVars, logVars>>

\* join_all returns when its list of threads is empty.
JoinedAll == /\ mpc = "joinall"
             /\ \A t \in Decoders : dpc[t] \in {"none", "joined"}
             /\ mpc' = "free"
             /\ UNCHANGED <<submitted, sequence, cthreads, caught, jobs,
                            listVars, dpc, djob, writerVars, inVars, outVars,
                            logVars>>

\* Free both pools and the locks; dst_decoder_destroy returns.
FreeAll == /\ mpc = "free"
           /\ cthreads' = 0
           /\ mpc' = "done"
           /\ inFree' = <<>> /\ inBuf' = <<>>
           /\ outFree' = <<>> /\ outBuf' = <<>>
           /\ UNCHANGED <<submitted, sequence, caught, jobs, listVars, dpc,
                          djob, writerVars, logVars>>

-----------------------------------------------------------------------------
(* decode_thread *)

\* possess(decode_have); wait_for(decode_have, NOT_TO_BE, 0); pop the head.
TakeJob(t) ==
  LET job == Head(decode_list) IN
  /\ dpc[t] = "take"
  /\ decode_have # 0
  /\ job # ReturnJob
  /\ decode_list' = Tail(decode_list)
  /\ decode_have' = decode_have - 1
  /\ djob' = [djob EXCEPT ![t] = job]
  /\ dpc' = [dpc EXCEPT ![t] = IF jobs[job].more THEN "space" ELSE "insert"]
  /\ UNCHANGED <<mainVars, jobs, write_first, write_list, writerVars, inVars,
                 outVars, logVars>>

\* Mutant: the thread takes the job with sequence -1 for itself.
TakeReturn_Taken(t) ==
  /\ dpc[t] = "take"
  /\ decode_have # 0
  /\ Head(decode_list) = ReturnJob
  /\ decode_list' = <<>>
  /\ decode_have' = 0
  /\ dpc' = [dpc EXCEPT ![t] = "exited"]
  /\ UNCHANGED <<mainVars, jobs, write_first, write_list, djob, writerVars,
                 inVars, outVars, logVars>>

\* The job with sequence -1 stays in the list for the other threads; the thread
\* releases decode_have, exits and is marked as done.
TakeReturn(t) ==
  /\ dpc[t] = "take"
  /\ decode_have # 0
  /\ Head(decode_list) = ReturnJob
  /\ dpc' = [dpc EXCEPT ![t] = "exited"]
  /\ UNCHANGED <<mainVars, jobs, listVars, djob, writerVars, inVars, outVars,
                 logVars>>

\* job->out = buffer_pool_get_space(&out_pool), which never waits.
GetOutput(t) ==
  /\ dpc[t] = "space"
  /\ outFree' = FreeAfterGet(outFree)
  /\ outBuf' = BufAfterGet(outFree, outBuf)
  /\ jobs' = [jobs EXCEPT ![djob[t]].out = NextSpace(outFree, outBuf)]
  /\ dpc' = [dpc EXCEPT ![t] = "decode"]
  /\ UNCHANGED <<mainVars, listVars, djob, writerVars, inVars, logVars>>

\* Mutant: the error is not saved in the job.
Decode_NoError(t) ==
  LET frame == inBuf[jobs[djob[t]].in] IN
  /\ dpc[t] = "decode"
  /\ outBuf' = [outBuf EXCEPT ![jobs[djob[t]].out] =
                  IF frame \in BadFrames THEN Silence ELSE frame]
  /\ dpc' = [dpc EXCEPT ![t] = "drop"]
  /\ UNCHANGED <<mainVars, jobs, listVars, djob, writerVars, inVars, outFree,
                 logVars>>

\* DST_FramDSTDecode reads job->in and fills job->out, with silence when it
\* fails; the error is saved in the job for the write thread.
Decode(t) ==
  LET job   == djob[t]
      frame == inBuf[jobs[job].in]
  IN
  /\ dpc[t] = "decode"
  /\ jobs' = [jobs EXCEPT ![job].error = frame \in BadFrames]
  /\ outBuf' = [outBuf EXCEPT ![jobs[job].out] =
                  IF frame \in BadFrames THEN Silence ELSE frame]
  /\ dpc' = [dpc EXCEPT ![t] = "drop"]
  /\ UNCHANGED <<mainVars, listVars, djob, writerVars, inVars, outFree,
                 logVars>>

\* Mutant: the input space is not given back.
DropInput_Leak(t) ==
  /\ dpc[t] = "drop"
  /\ dpc' = [dpc EXCEPT ![t] = "insert"]
  /\ UNCHANGED <<mainVars, jobs, listVars, djob, writerVars, inVars, outVars, logVars>>

\* buffer_pool_drop_space(job->in)
DropInput(t) ==
  /\ dpc[t] = "drop"
  /\ inFree' = <<jobs[djob[t]].in>> \o inFree
  /\ dpc' = [dpc EXCEPT ![t] = "insert"]
  /\ UNCHANGED <<mainVars, jobs, listVars, djob, writerVars, inBuf, outVars, logVars>>

\* The list with the job inserted in front of the first one with a higher
\* sequence number; k jobs stay in front of it.
Inserted(list, job, k) ==
  SubSeq(list, 1, k) \o <<job>> \o SubSeq(list, k + 1, Len(list))

\* Mutant: the job goes to the end of the list.
StopsAt_End(list, job, k) == k = Len(list)

StopsAt(list, job, k) == /\ \A i \in 1..k : list[i] <= job
                         /\ k < Len(list) => list[k + 1] > job

\* Mutant: the lock is set to the job inserted, not to the head of the list.
InsertJob_OwnNumber(t) ==
  LET job == djob[t] IN
  /\ dpc[t] = "insert"
  /\ \E k \in 0..Len(write_list) :
       /\ StopsAt(write_list, job, k)
       /\ write_list' = Inserted(write_list, job, k)
  /\ write_first' = job
  /\ dpc' = [dpc EXCEPT ![t] = "take"]
  /\ UNCHANGED <<mainVars, jobs, decode_have, decode_list, djob, writerVars,
                 inVars, outVars, logVars>>

\* possess(write_first); insert; twist(write_first, TO, write_head->seq).
InsertJob(t) ==
  LET job == djob[t] IN
  /\ dpc[t] = "insert"
  /\ \E k \in 0..Len(write_list) :
       /\ StopsAt(write_list, job, k)
       /\ write_list' = Inserted(write_list, job, k)
  /\ write_first' = Head(write_list')
  /\ dpc' = [dpc EXCEPT ![t] = "take"]
  /\ UNCHANGED <<mainVars, jobs, decode_have, decode_list, djob, writerVars,
                 inVars, outVars, logVars>>

DecodeThread(t) == \/ TakeJob(t) \/ TakeReturn(t) \/ GetOutput(t)
                   \/ Decode(t) \/ DropInput(t) \/ InsertJob(t)

-----------------------------------------------------------------------------
(* write_thread.  Its job is the one it took, whose number is wseq. *)

\* wait_for(write_first, TO_BE, seq); take the head off the list.
WriterTake ==
  /\ wpc = "take"
  /\ write_first = wseq
  /\ write_list' = Tail(write_list)
  /\ write_first' = IF write_list' = <<>> THEN NoneWaiting ELSE Head(write_list')
  /\ wpc' = "report"
  /\ UNCHANGED <<mainVars, jobs, decode_have, decode_list, dpc, djob, wseq,
                 inVars, outVars, logVars>>

\* Mutant: a frame that could not be decoded ends the write thread.
WriterReport_Abort ==
  LET job == jobs[wseq] IN
  /\ wpc = "report"
  /\ reported' = IF job.error THEN reported \cup {wseq + 1} ELSE reported
  /\ wpc' = IF job.more /\ ~job.error THEN "write" ELSE "verify"
  /\ UNCHANGED <<mainVars, jobs, listVars, dpc, djob, wseq, inVars, outVars, written>>

\* Call frame_error_callback if the job has an error.
WriterReport ==
  /\ wpc = "report"
  /\ reported' = IF jobs[wseq].error THEN reported \cup {wseq + 1} ELSE reported
  /\ wpc' = IF jobs[wseq].more THEN "write" ELSE "verify"
  /\ jobs' = IF jobs[wseq].more THEN jobs ELSE [jobs EXCEPT ![wseq] = NoJob]
  /\ wseq' = IF jobs[wseq].more THEN wseq ELSE wseq + 1
  /\ UNCHANGED <<mainVars, listVars, dpc, djob, inVars, outVars, written>>

\* frame_decoded_callback(job->out->buf, ...)
WriterWrite ==
  /\ wpc = "write"
  /\ written' = Append(written, outBuf[jobs[wseq].out])
  /\ wpc' = "drop"
  /\ UNCHANGED <<mainVars, jobs, listVars, dpc, djob, wseq, inVars, outVars,
                 reported>>

\* Mutant: the output space is not given back.
WriterDrop_Leak ==
  /\ wpc = "drop"
  /\ jobs' = [jobs EXCEPT ![wseq] = NoJob]
  /\ wseq' = wseq + 1
  /\ wpc' = "take"
  /\ UNCHANGED <<mainVars, listVars, dpc, djob, inVars, outVars, logVars>>

\* buffer_pool_drop_space(job->out); free(job); seq++
WriterDrop ==
  /\ wpc = "drop"
  /\ outFree' = <<jobs[wseq].out>> \o outFree
  /\ jobs' = [jobs EXCEPT ![wseq] = NoJob]
  /\ wseq' = wseq + 1
  /\ wpc' = "take"
  /\ UNCHANGED <<mainVars, listVars, dpc, djob, inVars, outBuf, logVars>>

\* After the last job: check the decode list under decode_have ...
WriterVerify == /\ wpc = "verify"
                /\ wpc' = "exit"
                /\ UNCHANGED <<mainVars, jobs, listVars, dpc, djob, wseq, inVars,
                               outVars, logVars>>

\* ... and the write list under write_first: twist(write_first, TO, -1).
WriterExit == /\ wpc = "exit"
              /\ write_first' = NoneWaiting
              /\ wpc' = "exited"
              /\ UNCHANGED <<mainVars, jobs, decode_have, decode_list, write_list,
                             dpc, djob, wseq, inVars, outVars, logVars>>

WriteThread == \/ WriterTake \/ WriterReport \/ WriterWrite \/ WriterDrop
               \/ WriterVerify \/ WriterExit

-----------------------------------------------------------------------------
\* What the main thread does inside dst_decoder_decode and dst_decoder_destroy.
MainInCall == \/ GetInput \/ Launch \/ AppendJob \/ JoinWriter \/ CommandReturn
              \/ JoinOne \/ JoinedAll \/ FreeAll

\* The decoder is gone: the only state in which everything may stop.
Finished == mpc = "done" /\ UNCHANGED vars

Next == \/ Submit \/ Destroy \/ MainInCall \/ WriteThread \/ Finished
        \/ \E t \in Decoders : DecodeThread(t)

Spec == Init /\ [][Next]_vars

\* Threads are scheduled: one that can move eventually does.  The caller need
\* not make another call.
FairSpec == /\ Spec
            /\ WF_vars(MainInCall)
            /\ WF_vars(WriteThread)
            /\ \A t \in Decoders : WF_vars(DecodeThread(t))

-----------------------------------------------------------------------------
(* Properties *)

\* The elements of a list, and a list that holds nothing twice.
Elements(list) == {list[i] : i \in DOMAIN list}
NoRepeat(list) == \A i, j \in DOMAIN list : list[i] = list[j] => i = j
Ascending(list) == \A i, j \in DOMAIN list : i < j => list[i] < list[j]

\* A decode thread has its job between taking it and inserting it.
Holding(t) == dpc[t] \in {"space", "decode", "drop", "insert"}

\* Where the live jobs are, besides with the decode threads that hold them.
Pending  == IF mpc \in {"launch", "append"} THEN {sequence - 1} ELSE {}
Queued   == Elements(decode_list) \ {ReturnJob}
Sorted   == Elements(write_list)
AtWriter == IF wpc \in {"report", "write", "drop"} THEN {wseq} ELSE {}

\* The job owns its input space until a decode thread drops it, its output
\* space from when the thread gets it until the write thread drops it.
OwnsInput(j) == /\ jobs[j].live /\ jobs[j].more
                /\ \/ jobs[j].out = NoSpace
                   \/ \E t \in Decoders : djob[t] = j /\ dpc[t] \in {"decode", "drop"}
OwnsOutput(j) == jobs[j].live /\ jobs[j].out # NoSpace

\* No buffer belongs to two jobs, and none that belongs to a job is in the free
\* list: a frame's data stays its own from the copy in dst_decoder_decode to
\* the decode, and its samples from the decode to the callback.
BuffersExclusive ==
  /\ \A i, j \in JobNumbers :
       /\ OwnsInput(i)  /\ OwnsInput(j)  /\ jobs[i].in = jobs[j].in   => i = j
       /\ OwnsOutput(i) /\ OwnsOutput(j) /\ jobs[i].out = jobs[j].out => i = j
  /\ \A j \in JobNumbers :
       /\ OwnsInput(j)  => jobs[j].in \notin Elements(inFree)
       /\ OwnsOutput(j) => jobs[j].out \notin Elements(outFree)

\* The values of the locks say what is in the lists, and the write list is
\* sorted: the writer, which waits for one number only, can rely on them.
ListsMatchLocks ==
  /\ decode_have = Len(decode_list)
  /\ write_first = IF write_list = <<>> THEN NoneWaiting ELSE Head(write_list)
  /\ Ascending(write_list)

\* The assert()s of write_thread: both lists are empty after the last job.
WriterAsserts ==
  /\ wpc = "verify" => decode_list = <<>> /\ decode_have = 0
  /\ wpc = "exit" => write_list = <<>>

\* The assert()s that end dst_decoder_destroy: join_all caught the decode
\* threads and no other, and every space is back in its pool.
DestroyAsserts ==
  mpc = "free" => /\ caught = cthreads
                  /\ Len(inFree) = Len(inBuf)
                  /\ Len(outFree) = Len(outBuf)

\* The decoder delivers frames in order, exactly once, with their errors, and
\* dst_decoder_destroy returns only after the last one.
Ordered == INSTANCE OrderedDecode WITH closed <- mpc = "done"
OrderedSpec == Ordered!Spec

\* Every frame handed in is written, even if the caller makes no further call.
EveryFrameWritten ==
  \A n \in 1..MaxFrames : submitted >= n ~> Len(written) >= n

\* No call blocks for ever: dst_decoder_decode gets its input space and
\* dst_decoder_destroy joins all the threads.
CallsReturn == mpc # "ready" ~> mpc \in {"ready", "done"}

-----------------------------------------------------------------------------
(* The inductive invariant behind the safety properties.  A live job is in    *)
(* exactly one place, which tells what its buffers hold.                      *)

\* What the write thread must get for frame n.
Result(n) == IF n \in BadFrames THEN Silence ELSE n

\* Numbering: job n - 1 is frame n, and the last job follows the last frame.
SequenceInv ==
  /\ mpc = "ready" => sequence = submitted
  /\ mpc = "getspace" => sequence + 1 = submitted
  /\ mpc \in {"launch", "append"} => sequence \in {submitted, submitted + 1}
                                   /\ sequence > 0
  /\ mpc \notin {"ready", "getspace", "launch", "append"} => sequence = submitted + 1

\* Jobs live from their creation until the write thread is done with them.
LiveInv ==
  /\ wseq <= sequence
  /\ \A j \in JobNumbers :
       /\ jobs[j].live <=> wseq <= j /\ j < sequence
       /\ jobs[j].live => (jobs[j].more <=> j < submitted)

\* Each live job is in one place at most.
PlaceInv ==
  /\ \A j \in Pending \cup Queued \cup Sorted \cup AtWriter :
       j \in JobNumbers /\ jobs[j].live
  /\ \A t \in Decoders : Holding(t) =>
       /\ jobs[djob[t]].live
       /\ djob[t] \notin Pending \cup Queued \cup Sorted \cup AtWriter
       /\ \A u \in Decoders : Holding(u) /\ djob[u] = djob[t] => u = t
  /\ Pending \cap (Queued \cup Sorted \cup AtWriter) = {}
  /\ Queued \cap (Sorted \cup AtWriter) = {}
  /\ Sorted \cap AtWriter = {}

\* No job is twice in a list, and the job that ends the decode threads comes
\* when the last frame has been written, to stay.
ListInv ==
  /\ ListsMatchLocks
  /\ NoRepeat(decode_list)
  /\ IF mpc \in {"joinall", "free", "done"} THEN decode_list = <<ReturnJob>>
     ELSE ReturnJob \notin Elements(decode_list)

\* A job without a frame has no buffers and no error; the job of a frame is
\* decoded when it has an output space and is past its thread's decode step.
JobInv ==
  /\ \A j \in JobNumbers : jobs[j].live /\ ~jobs[j].more =>
       jobs[j].in = NoSpace /\ jobs[j].out = NoSpace /\ ~jobs[j].error
  /\ \A j \in Pending \cup Queued : jobs[j].out = NoSpace /\ ~jobs[j].error
  /\ \A t \in Decoders :
       /\ dpc[t] \in {"space", "decode", "drop"} => jobs[djob[t]].more
       /\ dpc[t] = "space" => jobs[djob[t]].out = NoSpace
       /\ dpc[t] \in {"decode", "drop"} => jobs[djob[t]].out # NoSpace
  /\ wpc \in {"write", "drop"} => jobs[wseq].more

\* job j has been decoded: its error and its samples are those of its frame.
Decoded(j) == jobs[j].more =>
                /\ jobs[j].out # NoSpace
                /\ jobs[j].error <=> j + 1 \in BadFrames
                /\ outBuf[jobs[j].out] = Result(j + 1)

DataInv ==
  /\ \A j \in JobNumbers :
       /\ OwnsInput(j)  => jobs[j].in \in 1..Len(inBuf) /\ inBuf[jobs[j].in] = j + 1
       /\ OwnsOutput(j) => jobs[j].out \in 1..Len(outBuf)
  /\ \A t \in Decoders : dpc[t] \in {"drop", "insert"} => Decoded(djob[t])
  /\ \A j \in Sorted \cup AtWriter : Decoded(j)

\* No space is twice in a free stack.
StackInv == NoRepeat(inFree) /\ NoRepeat(outFree)

\* What has been written, and when the write thread and main may end.
WriterInv ==
  /\ wpc \in {"take", "report", "write"} => Len(written) = wseq
  /\ wpc = "drop" => Len(written) = wseq + 1
  /\ wpc \in {"verify", "exit", "exited"} =>
       wseq = submitted + 1 /\ sequence = wseq /\ Len(written) = submitted
  /\ wpc = "write" /\ wseq + 1 \in BadFrames => wseq + 1 \in reported
  /\ mpc \in {"return", "joinall", "free", "done"} => wpc = "exited"

IInv == /\ TypeOK /\ SequenceInv /\ LiveInv /\ PlaceInv /\ ListInv /\ JobInv
        /\ DataInv /\ BuffersExclusive /\ StackInv /\ WriterInv

\* What the assertions of dst_decoder_destroy need besides: every space that was
\* made is in its free stack or belongs to a live job.
SpacesInv ==
  /\ \A s \in 1..Len(inBuf) : \/ s \in Elements(inFree)
                              \/ \E j \in JobNumbers : OwnsInput(j) /\ jobs[j].in = s
  /\ \A s \in 1..Len(outBuf) : \/ s \in Elements(outFree)
                               \/ \E j \in JobNumbers : OwnsOutput(j) /\ jobs[j].out = s

\* The decode threads are numbered as they start, and each is counted once when
\* it is joined.
Joined == {t \in Decoders : dpc[t] = "joined"}

ThreadsInv ==
  /\ mpc # "done" => \A t \in Decoders : dpc[t] # "none" <=> t <= cthreads
  /\ caught = Cardinality(Joined)
  /\ mpc \in {"free", "done"} => \A t \in Decoders : dpc[t] \in {"none", "joined"}

DecoderInv == IInv /\ SpacesInv /\ ThreadsInv
=============================================================================
