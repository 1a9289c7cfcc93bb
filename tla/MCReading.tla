------------------------------ MODULE MCReading ------------------------------
(* What is read from a disc: its table of contents, its audio sectors, and how *)
(* they get here from a server or a file.  A behaviour is one of the part that *)
(* the first state chooses; the others stay in their first states.             *)
EXTENDS MCFrameAssembler, SequencesExt

CONSTANTS Total, MaxData, MaxCalls, MaxFaults,    \* of NetInput
          AreaTocs, FrameRate                     \* of AreaToc

VARIABLES part,
          toc1, toc2, toc_pc, cur, area, owner, area_count, index, use1, use2, live, short,
          net, net_pc, call, dev, fd, conn, input, requests, garbled, response, seen, buffer,
          returned, outOfStep, calls, faults,
          toc_area, lists_pc, p, text_idx, track, item, track_text, pointers, converted, cue

toc_vars == <<toc1, toc2, toc_pc, cur, area, owner, area_count, index, use1, use2, live, short>>
net_vars == <<net, net_pc, call, dev, fd, conn, input, requests, garbled, response, seen,
              buffer, returned, outOfStep, calls, faults>>
lists_vars == <<toc_area, lists_pc, p, text_idx, track, item, track_text, pointers, converted, cue>>

\* The areas: in the first set the texts vary, in the second the lists and how
\* many sectors the header says there are, in the third the times of the tracks.
Items == [type : {"title", "performer", "unknown"}, holds : {"text", "controls", "empty", "long"}]
Title == <<[type |-> "title", holds |-> "text"]>>
AllLists == <<"SACDTTxt", "SACDTTxt", "SACD_IGL", "SACD_ACC", "SACDTRL1", "SACDTRL2">>
ListSectors == [list \in ToSet(AllLists) \cup {"other"} |->
                  CASE list = "SACD_ACC" -> 32 [] list = "SACD_IGL" -> 2 [] OTHER -> 1]

AreaOf(lists, cut, texts1, texts2, start, duration) ==
  [lists |-> lists, items |-> <<texts1, texts2>>,
   start |-> <<<<0, 0, 0>>, start>>, duration |-> <<duration, <<0, 1, 0>>>>,
   size |-> 1 - cut + FoldLeft(LAMBDA sum, list : sum + ListSectors[list], 0, lists)]

MCAreaTocs ==
  {AreaOf(AllLists, 0, texts1, texts2, <<0, 1, 0>>, <<0, 1, 0>>) :
     texts1 \in SeqOf(Items, 2), texts2 \in {<<>>, Title}}
  \cup {AreaOf(lists, cut, <<>>, Title, <<0, 1, 0>>, <<0, 1, 0>>) :
     lists \in SeqOf(ToSet(AllLists) \cup {"other"}, 3), cut \in {0, 1}}
  \cup {AreaOf(AllLists, 0, Title, Title, start, duration) :
     start \in {<<0, 1, 0>>, <<1, 2, 3>>, <<1, 2, 4>>},
     duration \in {<<0, 59, 74>>, <<1, 2, 3>>, <<0, 0, 1>>}}
SomeArea == AreaOf(AllLists, 0, Title, Title, <<0, 1, 0>>, <<0, 1, 0>>)

Toc == INSTANCE TocOpen WITH pc <- toc_pc
Net == INSTANCE NetInput WITH pc <- net_pc

ASSUME NetNumbers == Net!Numbers

Lists == INSTANCE AreaToc WITH disc <- toc_area, pc <- lists_pc

ASSUME AreaNumbers == Lists!Numbers

MCInit == /\ part \in {"frames", "toc", "net", "lists"}
          /\ part # "lists" => toc_area = SomeArea
          /\ Lists!Init
          /\ part # "frames" => dst_encoded = FALSE /\ first = 1 /\ last = 1 /\ damage = NoDamage
          /\ part # "toc" => toc1 = [a \in {1, 2} |-> "absent"] /\ toc2 = toc1
          /\ part # "net" => net = TRUE
          /\ Init /\ Toc!Init /\ Net!Init

MCNext == /\ UNCHANGED part
          /\ \/ part = "frames" /\ Next /\ UNCHANGED <<toc_vars, net_vars, lists_vars>>
             \/ part = "toc" /\ Toc!Next /\ UNCHANGED <<vars, net_vars, lists_vars>>
             \/ part = "net" /\ Net!Next /\ UNCHANGED <<vars, toc_vars, lists_vars>>
             \/ part = "lists" /\ Lists!Next /\ UNCHANGED <<vars, toc_vars, net_vars>>

MCSpec == MCInit /\ [][MCNext]_<<part, vars, toc_vars, net_vars, lists_vars>>

\* The types of all variables, and the inductive invariants of
\* the proofs.
TypesOK == /\ TypeOK /\ PlaceInv /\ AssemblyInv /\ AscendInv /\ LocalInv
           /\ Toc!TypeOK /\ Toc!TocInv
           /\ Net!TypeOK /\ Net!ResultInv /\ Net!NetInv
           /\ Lists!TypeOK /\ Lists!ListsInv

\* What an open disc names was read, accepted and is allocated (TocOpen), and
\* what an area names is what its lists say (AreaToc).
OpenAreasAreSound == Toc!OpenAreasAreSound /\ Lists!ListsAreFound

\* The times in the frames ascend (FrameAssembler), and so do those in the cue
\* sheet (AreaToc).
TimesAscend == TimecodesAscend /\ Lists!CueAscends

\* A first copy as mastered is used (TocOpen).
GoodCopyIsUsed == Toc!GoodCopyIsUsed

\* Closing a disc frees what opening it allocated (TocOpen) and the texts of its
\* tracks (AreaToc), and so does closing the input (NetInput).
CloseFreesAll == Toc!CloseFreesAll /\ Net!ClosedIsReleased /\ Lists!TextsAreFreed

\* Reads over the network return the sectors asked for (NetInput).
AnswersMatchRequests == Net!AnswersMatchRequests
=============================================================================
