# A formal model of sacd-extract

`sacd_extract` reads Super Audio CDs (an image, a device, or a network server) and
writes their audio areas as DSF, DSDIFF or raw ISO files. This directory holds TLA+
models of the program, the TLC configurations that check them on small instances,
and proofs checked by TLAPS. Paths are those of the repository, `src/` for short
being its `src/` directory; line numbers are in `PROJECT.json` (`map`).

## 1. The system and its parts

| Part | Code | State | Operations | What makes it correct |
|---|---|---|---|---|
| yarn | `libdstdec/yarn.c` | per lock: mutex, condition, value; global list of threads | `new_lock possess release twist wait_for peek_lock launch join join_all` | a wait ends when its condition holds; `join_all` joins every launched thread once |
| buffer pool | `libdstdec/buffer_pool.c` | free stack, limit, number made; use count per space | `create get_space use_space drop_space free` | a space has one owner (unless shared), comes back once, no more than the limit are made |
| DST decoder pipeline | `libdstdec/dst_decoder.c` | decode list, write list, two pools, threads | `dst_decoder_create / decode / destroy`, `decode_thread`, `write_thread` | frames come back in order, once, errors first, all of them before destroy returns |
| ripping engine | `libsacd/scarletbook_output.c` | queue, stop flag, statistics, the open file and its decoder | enqueue (three kinds), `start`, `interrupt`, `destroy`, `processing_thread`, the frame callbacks | a file holds the frames of its sectors; a stop stops; nothing is left open |
| frame assembly | `libsacd/scarletbook_read.c` 695-921 | the frame being assembled | `scarletbook_frame_init`, `scarletbook_process_frames` | a frame is emitted once, complete, never glued from two |
| TOC reading | `libsacd/scarletbook_read.c` 68-693 | master TOC, up to two areas | `scarletbook_open`, `close`, the TOC readers | a readable copy of each TOC is used |
| DSF writer | `libsacd/dsf.c` | a block per channel; static carry-over between tracks | create, write, close | every sample of a track in its file or carried to the next; counts match |
| DSDIFF writer | `libsacd/dsdiff.c` | header, footer, frame index | create, write, close | chunk sizes and index describe the file |
| ISO writer | `libsacd/iso_writer.c` | none | write | every sector written or an error |
| input layer | `libsacd/sacd_input.c`, `sacd_reader.c` | file or socket | open, read, total_sectors, close | a read returns the blocks asked for, fewer, or none |
| DST frame decoding | `libdstdec/dst_fram.c`, `unpack_dst.c`, `dst_data.c` ... | tables of one frame | unpack, map, arithmetic decode | every table index and segment lies within the frame |
| main | `main.c` | options, the engine in use | option parsing, the export loops, `handle_sigint` | the queue holds what was asked for |
| naming, metadata | `scarletbook_helpers.c`, `_id3.c`, `_print.c`, `_xml.c`, `cuesheet.c`, `libcommon/fileutils.c` | none | names of directories and files, tags, cue sheets, XML | no two files share a name; a tag is read back; times ascend |
| ID3 library | `libid3` | list of frames, buffer | open, add frame, set text, write; read frames | sizes and encodings match |
| vendored or platform code | nanopb, sockets, `getopt`, PS3 files | - | - | - |

How they interact. `main` fills the engine's queue, calls `scarletbook_output_start`
(which creates the *processing thread*) and directly afterwards
`scarletbook_output_destroy`, which sets the stop flag and joins the thread. For each
file the processing thread creates a decoder if DST is to become DSD, opens the file,
resets the stop flag, and reads sectors in blocks; frames go to `frame_read_callback`,
and from there to the file or to `dst_decoder_decode`. The decoder's *decode threads*
(as many as there are processors) and its *write thread* turn them into samples, which
reach the file through `frame_decoded_callback` in the write thread. All threads share
yarn locks; the stop flag is shared with the SIGINT handler.

Hard behaviour: decode threads finish in any order; the main thread blocks on a limited
pool; shutdown goes through three kinds of threads; the stop flag is written by main,
the signal handler, the write thread (through `raise`) and the processing thread itself;
reads and writes fail halfway; static and reused buffers (frame buffer, DSF carry-over,
spaces) outlive one use; block arithmetic at region, track and area borders.
`PROJECT.json` lists each as a hazard, at its line, with the properties that cover it.

## 2. Plan

| # | Module | Reference it is checked against | Status |
|---|---|---|---|
| 1 | `YarnLock`, `BufferPool` | `SpacePool` | checked (run `pool`) and proved (`BufferPoolProofs`) |
| 2 | `ThreadList`: yarn's list of threads | the number of announced ends (`ThreadsCounted`) | checked (`pool`) and proved (`BufferPoolProofs`) |
| 3 | `DstDecoder` | `OrderedDecode` | checked (`decoder`) and proved (`DstDecoderProofs`) |
| 4 | `RipEngine`, over what `OrderedDecode` promises | the sectors and tracks of the disc | checked (`rip`) and proved (`RipEngineProofs`) |
| 5 | `TocOpen`: TOC-1, its backup, the flags; `AreaToc`: the lists behind a header | the mastered disc | checked (`reading`) and proved (`ReadingProofs`) |
| 6 | `FrameAssembler`: packets to frames over sectors | the frames of a well-formed stream (`Entire`, `Whole`) | checked (`reading`); proved (`ReadingProofs`) |
| 7 | `NetInput`: requests and answers over one connection | the disc's sectors | checked (`reading`) and proved (`ReadingProofs`) |
| 8 | `DsfWriter`, `DsdiffWriter` | the channels' byte streams; a reader that walks over the chunks | checked (`writing`) and proved (`WritingProofs`, `DsdiffWriterProofs`) |
| 9 | `Names`, `Modes`: names, options, what main makes of a disc | what the options ask for (`Expected`) | checked (`writing`) |
| 10 | `Id3Tag`: the tag of a track, written and read back | the frames put into it | checked (`writing`) and proved (`WritingProofs`) |
| 11 | `DstFrame`, `DstBits`, `DstData`, over the numbers and bits of `Binary`: one DST frame | sums over the last bits, the exact arithmetic code, the stream of bits | checked (`dst`) and proved (`DstFrameProofs`) |

Composition: `BufferPool` shows that a pool's operations are atomic, so `DstDecoder`
takes them as steps; `DstDecoder` shows that the decoder is `OrderedDecode`, so `RipEngine`
takes it as a queue that `dst_decoder_destroy` waits for; `RipEngine` shows what becomes of a
queue, so `Modes` takes a rip as one step; `DstFrame` ends where `DstBits` begins, with
tables for every bit. Modules that answer independent questions about one stage are run
together (`MCBufferPool`, `MCReading`, `MCWriting`, `MCDst`): the first state chooses the part that
moves, so a state of one part is never multiplied with those of another.

Left to model: what is listed at the end as not modelled and is more than wording.

## 3. The modules

**`YarnLock`** - a lock as a record of owner, value and sleeping threads, and what each
yarn call makes of it. `twist` wakes all sleepers; a woken thread tests again.

**`SpacePool` / `BufferPool`** - `BufferPool` has one action for every lock operation of
`buffer_pool_get_space`, `_use_space` and `_drop_space`; a thread's place in the call is
`pc[t]`, its local variable `space` is `sp[t]`. The caller's discipline is the variable
`refs`: a thread may drop or share only a reference the program holds. Nothing in the
repository calls `buffer_pool_use_space`; it is modelled because it is part of the pool.
Getters and droppers are different threads, as in `dst_decoder.c`. `buffer_pool_free`
happens when no reference is left. `malloc` never fails in the model.

**`OrderedDecode` / `DstDecoder`** - main thread (`mpc`), decode threads (`dpc[t]`,
`djob[t]`) and write thread (`wpc`, `wseq`). An action is a critical section of
`decode_have` or `write_first`, one pool operation, or a step between them. Since
`wait_for` tests its condition under the mutex and every change to a value is a `twist`
with broadcast, a wait is the guard of the action that follows it. Buffer contents are
modelled as the number of the frame they hold, so that a space that is reused too early
shows. `DST_FramDSTDecode` decodes a frame or, for the frames of `BadFrames`, rejects it
and leaves silence. `DST_InitDecoder` and `DST_CloseDecoder` return 0 on every path, so
the `pthread_exit(0)` branches at lines 198-201 and 255-258 are never taken. The job with
sequence -1 lives on main's stack; as it is never removed from the list, it is the
constant `ReturnJob`.

**`ThreadList`** - the caller (`pc`, `ally`) and each thread (`running[t]`). A section between
`possess` and `release` is one step, but for the places where another thread sees the middle: a
thread runs before `launch` has listed it, and `join_all` waits, with the lock held, for the exit
of a thread that has announced its end. `cancelled` threads unwind through `reenter` as well. The
caller keeps to what `yarn.h` asks: every thread is joined once.

**`RipEngine`** - main (`mpc`), the processing thread (`tpc`), the decoder's callback and
the user's SIGINT. The queue is every one that main can build: the image, the edit master,
selected tracks one by one, or a concatenation (which switches trimming off). A read
returns 1..n blocks or none; a creation, each write and each callback may fail. `format`
tells the raw path, the direct path, and the path through the decoder. A sector stands for
one frame whose time code is the sector's number. Left out: the hack for non-encrypted
discs (lines 653-673; `sacd_decrypt` does nothing outside the PS3), printed statistics,
and the limit of in_pool (shown in `DstDecoder`). The area ripped is the first one.

**`TocOpen`** - `scarletbook_open` and `scarletbook_close`, one action for each step that
may fail: the master TOC, and for each area the buffer, TOC-1, its backup with the
comparison, and the parse. The disc (`toc1`, `toc2`) is any combination of copies: as
mastered, damaged behind a good first sector, claiming the other area's channels, not
accepted, unreadable, absent. `area` and `owner` are the four slots of `sb->area`: what the
buffer holds and which allocation the pointer is of; `live` are the allocations. A buffer
that `malloc` gave and nothing filled (undefined contents) is taken to equal no copy and
to lack the header. Texts are left out, and so are reads that return too few sectors of
the master TOC.

**`AreaToc`** - the rest of `scarletbook_read_area_toc`: the walk over the lists, sector by sector,
and the texts of the tracks, item by item; then `write_cue_sheet` (its times) and `free_area`. A
text is what matters of it: usable, with control characters, empty, too long, of a known type or
not. Fourteen types are represented by two. A text that cannot be converted is one like any other: `charset_convert` leaves out
what it cannot convert and gives a null pointer only for one.

**`FrameAssembler`** - `scarletbook_process_frames`, one action per sector header and per
packet, with the handle's frame (`frame`) and frame infos (`info`) kept from call to call.
A *layout* says which frames have a packet in which sector; a file is any stretch of it, a
call any one or two sectors. Data is the list of the packets it came from, each marked if it was read
from the wrong place. Damage is confined to the packet headers of one sector: a type that
is not audio, a length above `MAX_PACKET_SIZE`, an inverted `frame_start`. Left out: wrong
lengths that are legal, damaged counts and infos (nothing in the code can tell them), and
the channel count (plain sectors carry none, so it is 2). `packet_info_count` has three bits,
so the branch for more than 7 packets (lines 791-798) is dead.

**`NetInput`** - `sacd_input.c` over nanopb and sockets. A message is a sequence of fields that ends
with a zero; `pb_decode` takes them one by one, so that a message can be given up in its middle,
which leaves the rest in the stream (the history variable `outOfStep`). The server is external:
it answers each request, well or in one of eight bad ways. Connections end at any moment.
The caller is `sacd_reader.c`: one call at a time, close at the end. The file input is the other
value of `net`.

**`DsfWriter`** - `dsf_create`, `dsf_write_frame` (byte by byte, as its loop runs) and `dsf_close`, for
the tracks that main queues; `buffer_prev`, `prev_track_no` are the static variables that
survive a file. Bytes are named by where they come from, so that one that is lost, doubled or put
into a wrong channel shows. **`DsdiffWriter`** - a chunk is the size its header states, the
bytes by which the code advances, and the chunks within. Sizes are the code's; the
step by which the index grows and the numbers of frames are small; whether a track is followed by a pause is the constant `Pauses`.

**`Names`** - the functions on file names: a text is a sequence of words and of the characters that the code
treats in a special way. **`Modes`** - `main.c` from the command line to the exit code: options in any order,
the configuration file, `-o` and `-y`, the handle's settings, and the loop over the areas, with a step
for each file or group of files. What exists on the disk is `dirs` and `before` (the names in
use); a `mkdir`, an open or a parse may fail. A `mkdir` that fails with EACCES or EROFS is not reported by `recursive_mkdir`
(`fileutils.c:385`, 412): the program goes on and cannot open its files, which is left out like every other
failure to write a sheet or the metadata.

**`Id3Tag`** - `scarletbook_id3_tag_render` with the library's writer, and the library's reader, which shows
what a tag holds: the frames with their identifiers, sizes in bytes, encodings. The reader also
gets tags that the program did not write.

**`DstFrame`** - `DST_FramDSTDecode` up to the arithmetic code: segmentation, mapping, tables. Every number
that the code reads from the frame is any number of its width; the bits may end at any read. The branch for all channels
tests for room only before it reads another segment, so a frame may have one more than `conststr.h` allows. The model goes on
as the code does: the table of a ninth segment lies where the first one of the next channel is (`InSpace`). Only if all of the
six channels have nine, the copying overwrites the number of segments by which it goes (`unpack_dst.c:281`); what follows is undefined, and the action
`Overrun` allows any result and a crash. Not modelled are two other writes that no test stops: the arithmetic code behind its
buffer (`dst_init.c:261`), when a frame is longer than a plain one, and `m` of the Rice method 3, whose order is
read behind the table of three (`dst_init.c:251`) and taken to be 0 to `MaxOrder`.
**`DstBits`** - the loop over the bits, with the lookup tables of the filters (`Filter4Bit` and so on) and the
status words, at smaller widths: 6 bits per channel, tables for 2 bits, 4-bit words, a 3-bit
interval, 5 bits for a prediction. A prediction is an `int16_t`, which holds every sum of a filter but that of 128 coefficients of -256 with bits
of 0, +32768; `Short` wraps it to -32768 as the code does, and the second filter of the run has coefficients that reach it. **`DstData`** - `dst_data.c`: reads of any width, signed, unsigned and Rice coded, over two frames.
**`Binary`** - powers of two, the bits of a number and sums, as recursive functions; the model of no code, but what the two are written with.

Each module with checked properties also holds its mutants: operators named
`<Definition>_<Bug>`, a plausible bug in the code of that definition. With the definition
replaced by the mutant, the property named in `PROJECT.json` fails.

## 4. The runs

| Run | Instance | States | Shows |
|---|---|---|---|
| `pool` | 2 getters, 2 droppers, limits 1, 2, none; 3 spaces; use count up to 2. Three threads, joined in every way | 28 630 | `PoolSpec`: the pool implements `SpacePool`. `NoSleepingGetter`: no lost wake-up. `AssertsHold`: the three assertions. `ThreadsCounted`. `TypesOK` is the invariants of the proofs: `IInv` of the pool and `ListInv` of the list. |
| `decoder` | 2 decode threads, 3 frames, frame 2 damaged | 51 268 | `OrderedSpec`, `BuffersExclusive`, `ListsMatchLocks`, `WriterAsserts`, `DestroyAsserts`; `EveryFrameWritten` and `CallsReturn` under fairness; `DecoderInv`, the invariant of the proofs. |
| `decoder_full_pool` | 1 decode thread, 5 frames: in_pool (4 spaces) runs full | 272 729 | main blocks for a space and gets one (`CallsReturn`); that all spaces are back at the end is checked in `decoder` only. |
| `rip` | 8 sectors, two tracks with a pause, two areas, blocks of 2, one SIGINT | 41 683 | contents of closed and complete files, nothing left open; no file is begun after one that was cut short; `destroy` returns. `TypesOK` includes `RipInv` and `RipDataInv`, the invariants of the proofs, and with them that no block crosses a border of a region. |
| `reading` | 1296 discs with every `malloc` failing or not; 1182 areas; 5 layouts of up to 6 sectors, all stretches, calls of 1-2 sectors, one damaged sector; 4 calls to a server, 2 faults | 241 146 | `OpenAreasAreSound`, `GoodCopyIsUsed`, `CloseFreesAll` (opening, lists, texts, input); `ExactlyWholeFrames`, `DamageIsLocal`, `TimesAscend`; `AnswersMatchRequests`. `TypesOK` includes the invariants of the proofs: `PlaceInv`, `AssemblyInv`, `AscendInv`, `LocalInv`, `TocInv`, `ListsInv`, `NetInv`, `ResultInv`. |
| `writing` | DSF: 3 tracks, 2 channels, blocks of 3 bytes, frames of 2; DSDIFF: up to 3 frames, the index grows by 2; main: up to 3 options, 4 configuration files, 3 discs; tags: 6 modes, 13 texts | 611 759 | `EverySampleOnce`, `HeaderMatchesFile`, `ChunksTileFile`, `IndexFindsFrames`, `RequestServed`, `TagReadsBack`. `TypesOK` is the invariants of the proofs: of both writers and `TagInv` of the tag. |
| `dst` | 2 channels, frames of 3 bytes per channel; codes of 9 bits; 4 buffers of up to 3 bytes; as many segments as there is space for, and one more | 114 512 | `EveryBitHasTables`, `CodeInInterval`, `FilterSeesLastBits`, `ReadsMatchStream`. `TypesOK` is the invariants of the proofs: `FrameInv`, `BitsInv`, `DataInv`. |
| `toc_backup`, `frames_glued`, `rip_interrupt`, `rip_cause`, `dst_truncated` | the same instances; `dst_truncated` 1 channel, 2 bytes | violated | see findings |

Why the bounds are enough. *Pool*: two getters can be woken for one space, two droppers
can meet at one, and the limits 1 and 2 are reached; three spaces are one more than the
largest limit. With three threads, `join_all` can meet one that has exited, one that is leaving
and one that still runs, in each order of the list. *Decoder*: with two threads a later frame can overtake an earlier one and
the write list can hold several; threads 1 and 2 and the last job (which carries no frame)
meet in every order; one frame is damaged between two good ones. Full pool: one thread
makes the limit 4, and a fifth frame has to wait. *Rip*: the tracks touch in a shared sector, the
first has a pause to trim, the image crosses all five regions, and a block can be shorter
than, equal to or cut by a region.

*Reading*: frames of one, two and three packets, up to three starts in a sector, a frame
border that is a sector border, and a buffer that holds the largest frame but no packet
more, so that lost starts overflow it; every state of the four copies of the two areas; a track with two items of each kind and another beside it,
and every sequence of up to three lists, whole and cut short; two sectors to ask for, and room
for a second exchange after each bad answer. *Writing*: blocks and frames of
different sizes, so that a block is filled in the middle of a frame and at its end; three tracks, so that a carry-over can
be followed by a gap or by a track that fails; frames of odd and even size, more than the index has room for; a text
longer than fourteen bits can count; options that contradict each other in both orders. *Dst*: more segments than there is room
for, and frames too short for them; tables that are full, begun and empty, and status words that carry into the next; buffers
that end in a byte, and reads that span three.

Deadlock is checked in all runs. Where a part may stop it has an action for it (`Finished`, `Ended`, `Exited`) whose guard is
the end the code knows: the decoder, the engine, the disc is gone, the file is read or written, the
program has exited. That the two locks of the pool, taken in one order by `drop_space` and in the other by `get_space`, do not block each other for ever is this check
in the run `pool`. `BufferPool` never stops, as a client can always make
another call or drop what it holds.

Fairness. `DstDecoder!FairSpec`: weak fairness of each decode thread, the write thread and
main inside a call - the operating system runs every thread that can run. Nothing is
assumed of the caller: it may make no further call (`Submit`, `Destroy` are not fair).
Mutexes are not assumed to be fair beyond that; no action of one thread can disable
another thread's for ever. `RipEngine!FairSpec`: the same for the processing thread, the
decoder's callback, and main inside `start` and `destroy`; SIGINT need not happen.
`DstFrame!Spec`: the decoding of a frame is a sequential loop that goes on.

### Findings

* `rip_interrupt`: the stop flag is reset for every file (`scarletbook_output.c:603`). A
  SIGINT between the creation of the file and the reset, or after the last test at line 781
  - in the time `dst_decoder_destroy` takes to write the frames in flight - is forgotten
  and the next file is begun, although line 88 says that the flag "indicates if the thread needs to
  stop" and the user has read "Program interrupted...".
* `rip_cause`: the flag that stops a rip is also set by `scarletbook_output_destroy`,
  which main calls to *wait* for it. If main runs late, after the reset of line 603, the
  first file is cut short and the queue dropped; if the first file cannot be created, the
  flag is still 1 at line 781 and all later files are dropped. The comments know only the
  "user cancelled" (810) and "aborted (eg. ctrl+C)" (927) as causes.
* `toc_backup`: the backup of an area's TOC is never used. An unreadable TOC-1 sets
  `flag_use_toc2`, but the buffer that was not read differs from TOC-2, and a difference
  sets the flags back (`scarletbook_read.c:145`, 215); the uninitialized buffer is parsed and
  refused. Line 112 says "Trying to read and use TOC-2...", line 139 "if not identical then
  copy TOC-2 in TOC-1."

* `frames_glued`: completeness of a frame is tested by counting (`scarletbook_read.c:820`).
  When a sector without audio packets (an erased one) hides the end of a frame and the
  start of the next, packets of the next one are appended, and if the count fits the mixture
  is passed on under the first one's time code. The comments say "try to save the entire
  previous audio frame" and "checks if we have a completed frame"; nothing is reported.

* `dst_truncated`: the reads of `dst_data.c` return EOF at the end of the frame (line 366), and the caller makes a
  frame of silence of an error. `RiceDecode` (`unpack_dst.c:152`) ignores it and waits for a bit that is set; behind
  the end it gets zeros, and counts beyond the buffer.

`DamageIsLocal` states what the assembly does guarantee: at most the frames that touch the
damaged sector suffer, and the frame directly before a lost start (it collects packets of
its successor and is then over-complete).

### Observations

What the models show, or had to be given to be faithful, and what has no run of its own:

* *Opening.* The buffers of a disc that is not opened, and of an area that is not accepted, are never freed. An
  area is indexed by the channel count in its data, so that a damaged Area 2 claiming two
  channels hides Area 1 (`GoodCopyIsUsed` excludes it). A text of an unknown type, or the
  first of two of one type, is never freed (`TextsAreFreed` excludes them). An area without `SACDTRL2` or
  `SACD_IGL` leads `write_cue_sheet` to a null pointer (`StartCue`).
* *Network.* A message that is given up halfway (a field of a wrong kind, too much data, an unknown field of bytes: the
  skipping branch of `read_callback` ends with `count` below zero and reports failure) leaves its rest in the stream, and later
  answers are read from there. `AnswersMatchRequests` holds until then.
* *Options.* The help (`main.c:125`) and `README.txt:26` give `-y` for DSF and DSDIFF; with `-o` it is not used at
  all (`main.c:1024`). `-s` with `-p` makes only DSF files. The help offers `--select-track`, the table of options does not have it.
  Numbers after `-t` wrap at 256. `-k` with tracks that the disc does not have queues a range that ends before it begins
  (`Sound` excludes both). The slash at the end of a directory is kept, though `README.txt` says it is stripped.
* *Names.* A directory for `-o` or `-y` that begins with a dot loses the dot after the place of the file's name was
  computed, and the name is lost. After 20 tries `get_unique_filename` returns a name that is in use. Tracks from 100 on have no number in their
  name. Files of tracks overwrite those of an earlier run (image, master, sheet and metadata get a new name). The cue
  sheet refers to "Album.dff" even when the master was named "Album (1).dff".
* *Tags.* `ID3_SET_SIZE28` loses bits of a size of 2^14 or more, so that such a tag is not read back
  (`TagReadsBack` says up to where it is). With `id3tag=0` DSF files have no tag, DSDIFF files one with empty frames, though
  `main.c:566` says that none is inserted. A foreign tag with less than ten bytes of padding is rejected whole. The footer buffer of a
  DSF file has 2048 bytes; nothing compares the size of the tag with it.
* *DST frames.* `conststr.h:132` and 133 allow four segments of filters and eight of Ptables per channel, and there is an error for more
  (`DSTErr_TooManySegments`), but the branch for all channels lets five and nine through (`unpack_dst.c:240`-282). The ninth length and the ninth table
  are written over the first of the next channel. The length is not used and comes right again; the last segment is decoded with a table the
  frame did not give it, the first one of the next channel: a table that exists (`EveryBitHasTables`), but one of those
  that were read may be used by no segment. With six channels the number of segments is overwritten (`Overrun`).
* *Album names.* The condition at `scarletbook_helpers.c:134` never takes the phonetic title of a disc in a set.

## 5. The proofs

`DstDecoderProofs` proves, for every `Procs >= 1`, every `MaxFrames` and every set of
damaged frames (the assumption `DecoderAssumption` of `DstDecoder`):

* `InductiveInvariant` - `Spec => []IInv`
* `TypeCorrect`, `NoBufferShared`, `LocksDescribeLists`, `WriterAssertsNeverFail` - the
  safety properties of the run `decoder` other than `DestroyAsserts`
* `Refinement` - `Spec => OrderedSpec`: the pipeline implements `OrderedDecode`.

The argument. `BuffersExclusive` and the order of the frames are not inductive alone: that
a space just taken from the free stack belongs to nobody needs to know where every job is. `IInv`
says it: jobs are numbered consecutively and live from creation until the write thread is
done (`SequenceInv`, `LiveInv`); each live job is in at most one place - in main's hands,
in the decode list, with one decode thread, in the write list, or with the writer
(`PlaceInv`); the lists agree with their locks and repeat nothing (`ListInv`); a job has
the buffers its place calls for (`JobInv`) and these hold the data of its frame
(`DataInv`); no space is twice in a stack (`StackInv`); and the writer's count is the
length of what was written (`WriterInv`). There is one lemma for every action of `Next`
(`SubmitInv`, `GetInputInv`, ...), with one step for every conjunct the action can
disturb; they rest on lemmas about lists - taking the head (`PopElements`), pushing
(`PushElements`), appending (`AppendElements`), inserting in an ascending list
(`InsertElements`) - and about getting a space (`GetSpace`). `Refinement` maps each step to
a step of `OrderedDecode` or a stutter, using `IInv` to show that what the writer passes on
is what its frame decodes to (`StepSimulation`), and that when the write thread ends every
frame has been written.

From there it goes on to the end of the decoder, under the same assumption:

* `EverySpaceAccounted` - `Spec => []DecoderInv`
* `DestroyAssertsNeverFail` - the assertions that end `dst_decoder_destroy`.

`IInv` says that a space in use is not free, but not that a space that is not free is in use: one
that leaked would satisfy it. `SpacesInv` is that converse, for both pools; `ThreadsInv` says that
threads 1 to `cthreads` have been started, that `caught` is the number of those joined, and that
none runs when `join_all` has returned. Both are inductive relative to `IInv`: most steps keep the jobs
and the stacks (`SpacesKept`), and the others move one space between a stack and a job. That the write thread may end a job without
looking at its input space needs `PlaceInv`: no decode thread has the job any more. At the end no job lives, so each
stack holds every space once, and has the length of the pool (`FullStack`).

`BufferPoolProofs` proves, for every finite set of getting and of dropping threads, every bound on the number of spaces and
on the use count, and every set of limits (`PoolAssumption` of `BufferPool`):

* `InductiveInvariant`, `TypeCorrect`
* `NoGetterSleeps`, `AssertionsHold` - the pool's two safety properties of the run `pool`
* `Refinement` - `Spec => PoolSpec`: lock by lock, the pool implements `SpacePool`.

The argument. The value of a space's lock lags behind its users: a thread has a space before it sets the count to 1, and has
given it up before it takes 1 off. So `CountInv` relates the lock to the threads that it counts (`Counted`) and the abstract pool's users to
those that act as one (`Using`); the two sets differ in two places of the calls, and there `CountInv` says that the thread
is alone with its space. `PlaceInv` ties every place to the locks held there, `ListInv` says that the list has exactly the
spaces without users and that nobody sleeps while it has any, and `LimitInv` that `limit` is what the limit at creation leaves. The users
of a space in the abstract pool are its references plus the threads of `Using`; the step that takes the space out of the list is
its get, the one that puts it back, or counts down before others, its drop, and every other step is a stutter (`StepSimulation`). The
threads are finite sets so that they can be counted; the lemma `OneMoves` does the counting for all actions.

The same module proves of `ThreadList`, for any number of threads (`ListAssumption` of `MCBufferPool`, which only asks that nobody is
called `NoThread`):

* `ListAndCountAgree` - the property `ThreadsCounted` of the run `pool`
* `LibraryTypes` - the invariants `IInv` and `ListInv` in every state of that run.

The argument. `ThreadsCounted` speaks of the free lock only; in `join_all` the lock is held over many steps, and what is true when it is
released must be known all the time. So `ListedInv` says at every place which threads are listed (`Extant`: a new thread is not until
`launch` lists it, a joined one still is until `join` removes it), that each is listed once and that the value is the number of
those marked; `LockInv` says who holds the lock, and `AllyInv` what the caller knows of the thread it works on - that the one `join_all` reaps is
listed and marked. A thread can mark itself between the first and the last step of `join`, but not once it has exited. The lemmas
`List!Without...` say what is left of a list without a thread, and count what is marked in it.

`RipEngineProofs` proves, for every layout of a disc whose areas and tracks come in order and every `MaxBlock >= 1`
(`RipAssumption` of `RipEngine`):

* `InductiveInvariant` - `Spec => []RipInv`
* `BlocksInOneRegion` - no block that is read crosses a border between encrypted and plain sectors
* `NothingAfterCutShort` - once a file has been cut short, no later one is begun
* `CleanEnd` - when `destroy` has returned the thread has ended, the queue and the decoder are empty and no file is open
* `NoFrameWithoutFile` - frames are in the decoder only while their file is open.

The argument. `OpenInv` says at which places of the thread a file may be open and the decoder hold frames; it needs
`ShapeInv` for the files and `ThreadInv` for what main may rely on once the thread has ended. `ReachInv` says that a file
the thread leaves has been read to its end or a stop is pending; `NothingAfterCutShort` follows from it at the step that takes the next
file. The sizes of the blocks are the lemma `BlockChosen`, by cases on the region of the next sector.

What the files hold is a second invariant, `RipDataInv`, on top of `RipInv`:

* `DataInvariant` - `Spec => []RipDataInv`
* `ClosedFiles`, `CompleteFiles`, `ProgressComplete` - the properties `ClosedFileHoldsWhatWasRead`,
  `CompleteFileHoldsItsTracks` and `NothingLeft` of the run `rip`
* `RipTypes` - its type invariant, `TypesOK`, which these need no part of but which rests on them: that the progress stays within the total
  (`WithinTotal`) follows from what is still to be read of the open file and queued (`LeftIsNat`, `TotalKept`), and that the frames of a file are
  frames of the disc (`FramesOnDisc`) from `DataInv`.

`DataInv` says that the file and the decoder behind it together hold the kept frames of the sectors read so far, `QueueInv` that
every file of the queue is one that main can plan and is begun once, and `ProgressInv` that what is done, what is left of
the file and what is queued add up to the total. A closed file holds what was read because nothing is in the decoder when it is
closed (`OpenInv`). That a file read to its end has all its tracks is then a fact about the layout: where trimming is
on, the frames within the time of a track must lie in its sectors (`TimesAssumption`, a condition on the disc, not on the code).

*Data.* `Among` (which frames of a range are kept), `SumLengths` and, below, `DueOf` are recursive functions, and the library's
induction theorems cannot be instantiated here. `DataInduction` replaces them: a nonempty set of numbers has a least
element (from the library's well-foundedness of `<`), so a set that contains 0 and with i - 1 also i contains
everything up to n (`Induction`), and a recursion over 1..n has a solution (`Recursion`). The proofs cite these with a set or a
function for the property and the step, and so prove what the recursive functions compute for every input.

`DstFrameProofs` proves every property of the run `dst`, and with `DstTypes` the types and inductive invariants of its three parts.

Of `DstFrame`, the reading of a frame's segments and tables, for all
numbers of channels, segments and bits and whatever the bits of the frame say, except that nothing is claimed of the code once the number of segments was
overwritten (`Overrun`, section 3). `DstFrame` assumes, and TLC evaluates, `DstFrameAssumption`; beyond types it says that a segment
of Ptables may be as short as one of filters, as `conststr.h:134` has it:

* `FrameInvariant` - `Spec => []FrameInv`
* `TablesForEveryBit` - the property `EveryBitHasTables` of the run `dst`.

The argument. A bit has a table if its segment was given one and that one was read. `SegmentsInv` says that the segments of a channel always
leave room for the last, which takes what is left, and that each has at least one bit, so that the ends of the segments ascend and
every bit is in exactly one (`EndsAscend`). `MappingInv` says at each step which segments have a table: all those of the channels before
`ChNr`, some of this one, none after it; and which of the two kinds has been mapped. `TablesInv` says that the tables in use are among
0 to `NrOfTables` - 1, so none is used that will not be read, and are all of these unless a segment lies outside the space of its channel
(`NoneOutside`): a new one is always the next. `SegmentsInv` allows one segment too many, and where it lies outside, `WhatIsInSpace`
says that its table is overwritten with one that is in use. When the segments or the
mapping of the Ptables are copied from the filters, all of this is copied with them, but must fit the shorter limits; where it does not,
the code reports an error, which is a step of its own (`TooManySegmentsStep`, ...; one lemma for every action).

Of `DstBits`, for all widths of registers, probabilities, tables and status words, every code, and all filters and Ptables that
the first half can have read (`AudioNumbers` of `MCDst`: a filter has one to as many coefficients as the tables look at, the entries of a Ptable are
between 1 and one half, the interval fits the registers, and a word has an even number of bits):

* `BitsInvariant` - `Spec => []BitsInv`
* `CodeStaysInInterval`, `FiltersSeeLastBits` - the properties `CodeInInterval` and `FilterSeesLastBits`.

The argument. *The interval.* `A` has its highest bit set, so `Part`, with its rounding up, is at least 1 and less than `A` for any probability
up to one half: neither half of the interval is empty, and subtracting does not wrap. The half that is taken is doubled until it is at
least `HALF` again, which it is after at most `ABITS` times and then not above `ONE - 1`; `C`, below it, is shifted as often and the
bits that come in are below the power by which it is shifted, so it stays below. The code read so far and the lower end grow by the same shifts,
and both are taken modulo the width of the registers, which distributes over sums and products. *The filters.* `WindowInv` says that bit k of word w is the
last bit w * `WordBits` + k of its channel: the update shifts each word and takes the highest bit of the one below, as it was before. So
table t is indexed with the last bits t * `TableBits` on, and what it holds for them is a piece of the sum over all coefficients; the
pieces add up, though the last may be short and those behind it are empty. *The output.* `OutputInv` says that the places of the bits
still to come are free in each byte, so none overflows.

Of `DstData`, for all frames, widths and Rice parameters (`DataNumbers`: bytes are bytes, widths are numbers):

* `DataInvariant` - `Spec => [](DataInv /\ ReadsMatchStream)`; `ReadsReturnTheStream` carries it over to the run.

The argument. `DataInv` ties the byte that is begun to the place in the frame. Each turn of the loop of `getbits` takes bits from
one byte; over the turns, the number so far is the number that the bits since the start of the read are, and what is left and what was
taken add up to the width. A turn takes at least a bit, so as many turns as bits are enough. A failed read leaves the counter behind the
last byte, where every other read fails. A Rice code is three reads in a row, the first up to the first one in the stream.

Powers, bits and sums are recursive functions (`Binary`), and what the provers do not know of them - powers add, a number is the sum of its bits, sums can be
split and joined - is proved first, with `DataInduction`.

`ReadingProofs` proves every property of the run `reading`, and with `ReadingTypes` the type and inductive
invariants of its four parts.

Of `FrameAssembler`, for every layout of sectors, every file of a disc and any number of sectors in a call
(`AssemblerAssumption`: the layouts are `Mastered`, a condition on the disc, not on the code: a sector has one to seven packets, of
consecutive frames, the first of them of the last frame of the sector before or of the next one, and a frame is no longer than the buffer;
a plain frame has exactly the bytes of one):

* `OnlyWholeFrames` - the property `ExactlyWholeFrames`
* `DamageStaysLocal` - `DamageIsLocal`, whatever is wrong with the packets of one sector: types that are not audio, lengths that are too long, starts hidden or made up
* `TimesAreOrdered` - `TimesAscend`, whatever sector is damaged as long as no packet is taken for a start that is none; and the
  half of it about cue sheets (below).

The argument. The property speaks of the end; `AssemblyInv` says at every step what `handle->frame` is (`Held`) and what has been passed on
(`PassedOn`), as a function of the last packet read alone: the calls, which keep the frame from one to the next, drop out. A
frame is passed on when a packet starts the next one, if it is complete, and completeness is counted: by sectors in DST, by bytes
in plain files. That the count is right exactly when the frame is (`Completed`) needs that a frame's sectors are consecutive
(`FrameSectors`) and that its bytes grow with every one of them (`BytesGrow`, a recursion over the sectors); that its time code is the
right one needs that the infos of a sector are counted with the starts in it (`AudioStep`). A frame that began before the file leaves
nothing (`ContinueFrame`), one that ends behind it is never complete (`AllPassedOn`).

`LocalInv` cuts the file at the damaged sector. Before it, all is as `AssemblyInv` has it, by the same lemmas (`FrameBefore`,
`AudioAsMastered`). In it and behind it, the frame under construction is again exactly what it would be without damage (`Held`) once
its start lies behind the sector: a frame assembled there takes its time code from an info of that sector, counted from its first
packet. Until then the frame has its first packet in the damaged sector or before it, and if it is complete it is entire or reaches
that sector (`Touched`). The frame before the damage is passed on by the start of the next one, so it is the one that is lost or
grows when that start is hidden: the condition `NextStartFound` of the property.

For the order of the time codes, frames lost or glued together leave little to hold on to: all codes passed on lie below a
bound (`AscendInv`). Within a sector the bound is the code of the info that the next start takes, and taking it raises the bound; starts
that damage hides leave the infos behind the packets, so the bound may be lower than the packets are, but the next sector begins
above every info of this one. The infos looked at are those of the sector (`PlaceInv`) as long as no more starts are seen than it
has; a false start would go beyond them, to what an earlier sector left there.

Of `TocOpen`, for every state of the copies of both areas and every outcome of each `malloc`, and of `AreaToc`, for every set of areas
(`AreaNumbers`: lists, texts and times of the right types, and at least one track):

* `SoundAreas` - the property `OpenAreasAreSound`
* `UsedIfGood` - the property `GoodCopyIsUsed`
* `NothingIsLeft` - the property `CloseFreesAll`, with `CloseReleases` for the input.

The argument. *Opening.* A slot of `handle->area` is counted only after its area is parsed, so the slots below `area_count` belong to areas that
are done, and the one at `area_count` to the area in work (`SlotsInv`, `CurrentInv`). An index names a counted slot and was
set from what is in it (`IndexInv`). That a good first copy stays in its slot needs that no backup is copied over it: a backup is
wanted only when the first copy could not be read (`CurrentInv`), and then the two differ and the code gives up on it (the finding
`toc_backup`). Each case of the code is a lemma (`TocMaster` to `TocClose`). *Lists.* The sectors where lists begin ascend strictly (`Ends`), so the
walk, which adds up the same sizes, is at one list and knows all before it (`WalkInv`, `Places`). A track's texts are the latest usable ones of the
items before this one (`TextInv`); so if no track has two of a type, every text that was allocated is still in the track, where
`free_area` finds it (`AllocInv`). *Cue sheets.* The last index is the start of the track before (`CueInv`); INDEX 00 stands at the end of
that track, which is not before its start, and only where the next starts later (`CueStep`).

Of `NetInput`, for every size of the disc, every limit of an answer and any number of calls and faults
(the condition `Numbers` in the theorems: they are numbers, and the disc has a sector):

* `NetInvariant` - `Spec => []NetInv`
* `NetTypes` - the type invariant, in step or not: a call never returns more than the disc has sectors (`ResultInv`)
* `NetAnswersMatch` - the property `AnswersMatchRequests`; `AnswersMatch` carries it over to the run, whose first
  state chooses a part
* `CloseReleases` - `ClosedIsReleased`: after a close nothing of the input is left, in step or not.

The argument. Nothing in a message tells which request it answers, so what keeps the two sides together is what is in the
stream: while no message was given up halfway, the stream is empty whenever no answer is awaited, and then
holds what is left of one answer at most (`StreamInv`). All of it suits the call that waits, or all of it is of another type
(`DecodeInv`): the code tells the two apart only by the type, which it has read or will read before it returns. A field decoded takes one element
off (`TypeField`, ..., one lemma each); what ends a message early sets `outOfStep`, and with it the invariant claims nothing more.

`WritingProofs` proves of `DsfWriter`, for any number of channels and tracks, every block size and every size of a frame (`DsfAssumption` of
`DsfWriter`, which says only that these are positive numbers and that a tag has a size):

* `DsfInvariant` - `Spec => []DsfInv`
* `DsfTypes` - the type invariant, and with it that no buffer is filled beyond a block
* `SamplesOnce`, `HeadersMatch` - the properties `EverySampleOnce` and `HeaderMatchesFile` of the run `writing`.

The argument. What is due to a channel of a file is what the file before has not written, if that was of the track
before, and then its own track (`Due`, a recursion over the files). `Stream` is byte p of it, and `LoopInv` accounts for each byte in the middle of
`dsf_write_frame`: it is in a written block at the place where a player looks for it, in the channel's buffer, or still to come
of the frame. The loop has two modes (`Loop`): it takes bytes, one for each channel in turn, and the channels before `ch` have one more; or
the buffers are full and it writes a block for each channel in turn. There is one lemma for each step between and within the modes, and
the arithmetic of rounds and places is apart in lemmas of its own. On closing, the rest is padded (`Padding`) or kept for the next track
(`PrevInv`), and `Closed` says what a reader finds in the file; both properties follow from it.

`DsdiffWriterProofs` proves, for every number of channels and tracks, all lengths of the frames, texts and tags, every step by which the index
grows and any pauses between the tracks (the condition `Numbers`: lengths are not negative, the step is positive):

* `DsdiffInvariant` - `Spec => []DsdiffInv`
* `TilesFile`, `IndexesFrames` - the properties `ChunksTileFile` and `IndexFindsFrames`; `WritingProofs` carries these over
  to the run `writing`, and with `WritersInvariant` the invariants of both writers and of the tag.

The argument. Why a file has no gap is arithmetic on chunks: a chunk by which the code advances as far as a reader does (`Exact`) may be put
behind others (`RowJoined`, `RowTiles`), and a chunk with others in it ends with them if it has the size they add up to (`Solid`). The
texts, markers and tags are each shown to be such chunks whatever their length, which fails where one rounds up and the other does not; `Advance`
is a recursion over the chunks (`AdvanceIs`). The invariant says the rest: the header's size does not change between the two times it is written
(`SoundStart`), a frame begins where the one before ended (`SoundInv`), the position is the start plus the audio
counted (`FileInv`), and the index has room for each frame and an entry for each while no write has failed (`IndexInv`).

`WritingProofs` also proves, of `Id3Tag`, for all texts that a disc can have (the condition `Numbers`: a character takes a byte or
more in UTF-8), and for all tags of other programs whose frames lie behind each other up to the first that is too large, each beginning
within the tag:

* `TagsReadBack` - the property `TagReadsBack`.

The argument. *The tag of a track.* The frames are added one by one, so those in the list are always the first ones of `Rendered`; what is written
has all of them, each where those before it end (`SizeUpTo`); and those that have been read are again the first ones (`DiscInv`). The
reader is at a frame's start because it advances by what it reads of the size; that this is the size that was written
is arithmetic on four bytes (`SizeReadsBack`), which for `ID3_SET_SIZE28` holds below 2^14 only. All of a tag's sizes are below
when their sum is, so the condition of the property is on the whole tag. That a text fits its frame in each encoding (`TextFits`)
is a comparison of what `id3_set_text...` reserves by the bytes in UTF-8 and what it writes by the characters. *The tags of
others.* The reader stands where frame n ends, none of the first n is too large, and of the frames in the list as many are to be kept as of
the first n in the tag (`OtherInv`): counting does for frames that are skipped, and for those of version 2 that change their names. When
the reader gives up, a frame is too large, one ends behind the tag, or there is too little padding for a header, and only then.

Only model-checked: the liveness properties (`EveryFrameWritten`, `CallsReturn`,
`DestroyReturns`), which need fairness and ENABLED; and
`RequestServed`, which follows the names of files character by character, through `ToString`.

## 6. Not modelled

* Wording: the XML export, the disc's description on the screen, logs, usage texts, progress lines; of cue
  sheets everything but the times.
* `scarletbook_open`'s conversion of the disc's own texts, one by one from fixed offsets.
* `getopt` (GNU): `Modes` starts from the options it returns. iconv, zlib, the field types of nanopb that the two
  messages do not use, WinSock.
* The kernel's list macros and atomic operations: sequences and single steps in the models.
* The PS3 back end and the Windows branches, which other tool chains build.
* Failing allocations end the program or are not handled by the code and are left out, except in `TocOpen` and
  `NetInput`, where they are.
