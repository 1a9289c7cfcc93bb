------------------------------- MODULE TocOpen -------------------------------
(* scarletbook_open and scarletbook_close: the table of contents of each of   *)
(* the disc's two areas is on the disc twice.  The first copy goes to the     *)
(* next free slot of sb->area, the second to a slot of its own (2 or 3) to be *)
(* compared with it, and what is in the first slot is parsed.                 *)
(*                                                                            *)
(* Of a copy the model keeps whether it can be read and whether its header    *)
(* is accepted by scarletbook_read_area_toc; of a buffer that was not read,   *)
(* that it equals no copy and is not accepted.  Any malloc may fail.          *)
EXTENDS Integers

\* valid: as mastered; damaged: other data after a good first sector, or fewer
\* sectors than asked for; mislabelled: accepted, but with the channel count of
\* the other area; invalid: not accepted by scarletbook_read_area_toc.
Readable == {"valid", "damaged", "mislabelled", "invalid"}
Copies   == Readable \cup {"unreadable"}
Contents == Readable \cup {"null", "garbage"}

Areas == {1, 2}            \* TWOCHTOC, MULCHTOC
BackupSlot(a) == a + 1     \* sb->area[2] and sb->area[3]
NoIndex == -1

\* The buffers by what they are allocated for.
Master  == <<"master", 0>>
NoOwner == <<"null", 0>>
Buffers == {Master} \cup {<<k, a>> : k \in {"toc", "backup"}, a \in Areas}

VARIABLES
  toc1, toc2,         \* the copies on the disc; "absent" if their sector is 0
  pc, cur,            \* the step of scarletbook_open, and the area it is for
  area, owner,        \* per slot: area_data, and the buffer it points to
  area_count, index,  \* index[1]: twoch_area_idx, index[2]: mulch_area_idx
  use1, use2,         \* flag_use_toc1, flag_use_toc2
  live,               \* the buffers that are allocated
  short               \* history: a malloc has failed

disc == <<toc1, toc2>>
result == <<area_count, index>>
vars == <<toc1, toc2, pc, cur, area, owner, area_count, index, use1, use2,
          live, short>>

Slots == 0..3

TypeOK == /\ toc1 \in [Areas -> Copies \cup {"absent"}]
          /\ toc2 \in [Areas -> Copies \cup {"absent"}]
          /\ pc \in {"master", "area", "read", "backup", "parse", "finish",
                     "open", "failed", "closed"}
          /\ cur \in Areas
          /\ area \in [Slots -> Contents]
          /\ owner \in [Slots -> Buffers \cup {NoOwner}]
          /\ area_count \in 0..2
          /\ index \in [Areas -> NoIndex..1]
          /\ use1 \in BOOLEAN /\ use2 \in BOOLEAN
          /\ live \subseteq Buffers /\ short \in BOOLEAN

Init == /\ toc1 \in [Areas -> Copies \cup {"absent"}]
        /\ toc2 \in [Areas -> Copies \cup {"absent"}]
        /\ pc = "master" /\ cur = 1
        /\ area = [s \in Slots |-> "null"]
        /\ owner = [s \in Slots |-> NoOwner]
        /\ area_count = 0 /\ index = [a \in Areas |-> NoIndex]
        /\ use1 = FALSE /\ use2 = FALSE
        /\ live = {} /\ short = FALSE

-----------------------------------------------------------------------------
\* scarletbook_read_master_toc succeeds ...
ReadMaster == /\ pc = "master"
              /\ live' = {Master}
              /\ pc' = "area"
              /\ UNCHANGED <<disc, cur, area, owner, result, use1, use2, short>>

\* ... or has no memory, or cannot read or accept the master TOC, whose buffer
\* is not freed.
MasterFails == /\ pc = "master"
               /\ live' \in {{}, {Master}}
               /\ pc' = "failed"
               /\ UNCHANGED <<disc, cur, area, owner, result, use1, use2, short>>

\* Done with an area.
Leave == /\ pc' = IF cur = 1 THEN "area" ELSE "finish"
         /\ cur' = 2

NoArea == /\ pc = "area"
          /\ toc1[cur] = "absent"
          /\ Leave
          /\ UNCHANGED <<disc, area, owner, result, use1, use2, live, short>>

\* malloc(area_n_toc_size * SACD_LSN_SIZE) for TOC-1; the flags are set to 0.
AllocArea == /\ pc = "area"
             /\ toc1[cur] # "absent"
             /\ live' = live \cup {<<"toc", cur>>}
             /\ area' = [area EXCEPT ![area_count] = "garbage"]
             /\ owner' = [owner EXCEPT ![area_count] = <<"toc", cur>>]
             /\ use1' = FALSE /\ use2' = FALSE
             /\ pc' = "read"
             /\ UNCHANGED <<disc, cur, result, short>>

AllocAreaFails == /\ pc = "area"
                  /\ toc1[cur] # "absent"
                  /\ area' = [area EXCEPT ![area_count] = "null"]
                  /\ owner' = [owner EXCEPT ![area_count] = NoOwner]
                  /\ short' = TRUE
                  /\ Leave
                  /\ UNCHANGED <<disc, result, use1, use2, live>>

\* Read TOC-1: when that fails, TOC-2 is to be used.
ReadToc1 ==
  /\ pc = "read"
  /\ IF toc1[cur] = "unreadable"
     THEN use2' = TRUE /\ UNCHANGED <<area, use1>>
     ELSE use1' = TRUE /\ area' = [area EXCEPT ![area_count] = toc1[cur]] /\ UNCHANGED use2
  /\ pc' = IF toc2[cur] = "absent" THEN "parse" ELSE "backup"
  /\ UNCHANGED <<disc, cur, owner, result, live, short>>

\* memcmp: two copies are the same when both are as mastered.
Identical(a, b) == a = "valid" /\ b = "valid"

\* Mutant: the comparison gives up both copies when they differ.
Flags_GiveUp(mine, backup) ==
  IF backup = "unreadable" THEN [use1 |-> use1, use2 |-> FALSE]
  ELSE IF ~Identical(mine, backup) THEN [use1 |-> FALSE, use2 |-> FALSE]
  ELSE [use1 |-> use1, use2 |-> use2]

\* The flags after reading TOC-2 and comparing.
Flags(mine, backup) ==
  IF backup = "unreadable" THEN [use1 |-> use1, use2 |-> FALSE]
  ELSE IF ~Identical(mine, backup) THEN [use1 |-> TRUE, use2 |-> FALSE]
  ELSE [use1 |-> use1, use2 |-> use2]

\* Mutant: the backup's buffer is not freed.
Backup_NotFreed ==
  LET flags == Flags(area[area_count], toc2[cur]) IN
  /\ pc = "backup"
  /\ use1' = flags.use1 /\ use2' = flags.use2
  /\ area' = IF flags.use2 THEN [area EXCEPT ![area_count] = area[2]] ELSE area
  /\ live' = live \cup {<<"backup", cur>>}
  /\ pc' = "parse"
  /\ UNCHANGED <<disc, cur, owner, result, short>>

\* The backup: allocate, read, compare, copy if it is to be used (always from
\* slot 2), and free; the slot keeps the pointer.
Backup ==
  LET flags == Flags(area[area_count], toc2[cur])
      slots == [area EXCEPT ![BackupSlot(cur)] =
                  IF toc2[cur] = "unreadable" THEN "garbage" ELSE toc2[cur]]
  IN
  /\ pc = "backup"
  /\ use1' = flags.use1 /\ use2' = flags.use2
  /\ area' = IF flags.use2 THEN [slots EXCEPT ![area_count] = slots[2]] ELSE slots
  /\ owner' = [owner EXCEPT ![BackupSlot(cur)] = <<"backup", cur>>]
  /\ pc' = "parse"
  /\ UNCHANGED <<disc, cur, result, live, short>>

\* No memory for the backup: do not use it.
BackupAllocFails == /\ pc = "backup"
                    /\ use2' = FALSE
                    /\ owner' = [owner EXCEPT ![BackupSlot(cur)] = NoOwner]
                    /\ area' = [area EXCEPT ![BackupSlot(cur)] = "null"]
                    /\ short' = TRUE
                    /\ pc' = "parse"
                    /\ UNCHANGED <<disc, cur, result, use1, live>>

\* scarletbook_read_area_toc accepts the buffer.
Accepted(content) == content \in {"valid", "damaged", "mislabelled"}
MayParse == (use1 \/ use2) /\ Accepted(area[area_count])

\* By the channel count, not by the place in the master TOC or the header: the
\* area a buffer describes.
AreaOf(content, a) == IF content = "mislabelled" THEN 3 - a ELSE a

\* Mutant: the index is taken after the count was incremented.
Parse_LateIndex == /\ pc = "parse"
                   /\ MayParse
                   /\ index' = [index EXCEPT ![AreaOf(area[area_count], cur)] = area_count + 1]
                   /\ area_count' = area_count + 1
                   /\ Leave
                   /\ UNCHANGED <<disc, area, owner, use1, use2, live, short>>

\* It also sets the index of the area; then the slot is kept.
Parse == /\ pc = "parse"
         /\ MayParse
         /\ index' = [index EXCEPT ![AreaOf(area[area_count], cur)] = area_count]
         /\ area_count' = area_count + 1
         /\ Leave
         /\ UNCHANGED <<disc, area, owner, use1, use2, live, short>>

\* Mutant: a slot that was not accepted is kept.
NotParsed_Kept == /\ pc = "parse"
                  /\ ~MayParse
                  /\ area_count' = area_count + 1
                  /\ Leave
                  /\ UNCHANGED <<disc, area, owner, index, use1, use2, live, short>>

\* The buffer stays allocated, its slot is used for the next area.
NotParsed == /\ pc = "parse"
             /\ ~MayParse
             /\ Leave
             /\ UNCHANGED <<disc, area, owner, result, use1, use2, live, short>>

\* Without an area NULL is returned, and neither the master's buffer nor those
\* of the areas are freed.
Finish == /\ pc = "finish"
          /\ pc' = IF area_count = 0 THEN "failed" ELSE "open"
          /\ UNCHANGED <<disc, cur, area, owner, result, use1, use2, live, short>>

\* scarletbook_close
Close == /\ pc = "open"
         /\ live' = live \ ({Master} \cup {owner[index[a]] :
                                a \in {b \in Areas : index[b] # NoIndex}})
         /\ pc' = "closed"
         /\ UNCHANGED <<disc, cur, area, owner, result, use1, use2, short>>

Finished == pc \in {"failed", "closed"} /\ UNCHANGED vars

Next == \/ ReadMaster \/ MasterFails \/ NoArea \/ AllocArea \/ AllocAreaFails
        \/ ReadToc1 \/ Backup \/ BackupAllocFails \/ Parse \/ NotParsed
        \/ Finish \/ Close \/ Finished

Spec == Init /\ [][Next]_vars

-----------------------------------------------------------------------------
(* Properties *)

\* The slot that the index of area a names holds a copy of a's own.
Opened(a) == /\ index[a] # NoIndex
             /\ owner[index[a]] = <<"toc", a>>
             /\ Accepted(area[index[a]])

\* An area that an open disc names lies in a slot that is counted, holds data
\* that was read and accepted, and is still allocated; no slot is named twice:
\* has_two_channel and has_multi_channel, by which main chooses the area to
\* rip, can be trusted, and scarletbook_close frees no buffer twice.
OpenAreasAreSound ==
  pc = "open" =>
    /\ \E a \in Areas : index[a] # NoIndex
    /\ \A a \in Areas : index[a] # NoIndex =>
         /\ index[a] < area_count
         /\ Accepted(area[index[a]])
         /\ owner[index[a]] \in live
    /\ index[1] # index[2]

\* The first copy of an area that is as mastered is used, whatever the state of
\* its backup and of the other area (unless that one claims to be this one):
\* damage costs no more than what it hits.
GoodCopyIsUsed ==
  pc \in {"open", "failed"} /\ cur = 2 /\ ~short =>
    \A a \in Areas : toc1[a] = "valid" /\ toc1[3 - a] # "mislabelled" =>
      Opened(a) /\ area[index[a]] = "valid"

\* When every first copy is accepted as what it is, closing the disc frees
\* everything, whatever happened to the backups and to malloc.
CloseFreesAll ==
  pc = "closed" /\ (\A a \in Areas : toc1[a] \in {"absent", "valid", "damaged"}) =>
    live = {}

-----------------------------------------------------------------------------
(* The inductive invariant *)

\* The areas that scarletbook_open is done with, and those it has begun.
Done  == {a \in Areas : a < cur \/ (pc \in {"finish", "open", "closed", "failed"} /\ cur = 2)}
Begun == Done \cup (IF pc \in {"read", "backup", "parse"} THEN {cur} ELSE {})

\* The slots that are counted hold the first copies of areas that are done.
SlotsInv ==
  /\ pc \in {"master", "area", "read", "backup", "parse"} => area_count < cur
  /\ pc = "master" => cur = 1
  /\ pc \in {"finish", "open", "closed"} => cur = 2
  /\ pc = "open" => area_count > 0
  /\ \A s \in 0 .. area_count - 1 : \E a \in Done :
       /\ owner[s] = <<"toc", a>> /\ area[s] = toc1[a] /\ Accepted(area[s])
       /\ pc # "closed" => owner[s] \in live

\* An index is that of a slot with an area of its kind, and an area that was
\* read and is accepted has an index.
IndexInv ==
  /\ \A x \in Areas : index[x] # NoIndex =>
       index[x] < area_count /\ \E a \in Areas : /\ owner[index[x]] = <<"toc", a>>
                                                 /\ AreaOf(area[index[x]], a) = x
  /\ area_count > 0 => \E x \in Areas : index[x] # NoIndex
  /\ \A a \in Done : Accepted(toc1[a]) /\ (~short \/ <<"toc", a>> \in live) =>
       index[AreaOf(toc1[a], a)] # NoIndex

\* The slot in use has its first copy if that could be read; only if not, the
\* backup is to be used.
CurrentInv ==
  pc \in {"read", "backup", "parse"} =>
    /\ toc1[cur] # "absent" /\ owner[area_count] = <<"toc", cur>> /\ <<"toc", cur>> \in live
    /\ pc = "read" => area[area_count] = "garbage" /\ ~use2
    /\ pc # "read" => IF toc1[cur] = "unreadable" THEN area[area_count] = "garbage"
                      ELSE use1 /\ area[area_count] = toc1[cur]
    /\ pc = "backup" => toc2[cur] # "absent" /\ (use2 => toc1[cur] = "unreadable")

LiveInv == live \subseteq {Master} \cup {<<"toc", a>> : a \in {b \in Begun : toc1[b] # "absent"}}

TocInv == SlotsInv /\ IndexInv /\ CurrentInv /\ LiveInv /\ CloseFreesAll

-----------------------------------------------------------------------------
(* What the messages say and the code does not do *)

\* "Can't read Area 1 (TWOCHTOC) TOC-1 !! Trying to read and use TOC-2...": an
\* area whose first copy cannot be read is opened from a backup as mastered.
BackupIsUsed ==
  pc \in {"open", "failed"} /\ cur = 2 /\ ~short =>
    \A a \in Areas : toc1[a] = "unreadable" /\ toc2[a] = "valid" => Opened(a)
=============================================================================
