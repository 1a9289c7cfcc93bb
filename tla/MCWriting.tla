------------------------------ MODULE MCWriting ------------------------------
(* What is written, and under which name: the two writers of audio files, the *)
(* tag they put into a file, and main, which decides what files there are.  A *)
(* behaviour is one of one of these parts, which the first state chooses; the *)
(* others stay in their first state.                                          *)
EXTENDS DsfWriter

CONSTANTS ChannelCount, FrameLengths, MaxFrameCount, IndexStep, TextLengths, TagLengths,
          VersionInfo, Pauses, MaxText, MaxTries, MaxOptions, Discs, ConfigFiles, DiscTexts, Foreign

VARIABLES part,
          dsd_encoded_export, edit_master, artist, title, mtoc_title, tag, dsdiff_pc, pos,
          frame_count, dsdiff_audio_data_size, frame_indexes, frame_indexes_allocated, sound,
          dsdiff_header, footer, form_size,
          asked, opts, config, main_pc, disc, reader, handle, before, dirs, made, area_idx,
          output_dir_dsd, exit_main_flag,
          id3_tag_mode, text, source, id3_pc, id3_tag, id3_buffer, id3_pos, id3_tagsize

dsdiff_vars == <<dsd_encoded_export, edit_master, artist, title, mtoc_title, tag, dsdiff_pc,
                 pos, frame_count, dsdiff_audio_data_size, frame_indexes,
                 frame_indexes_allocated, sound, dsdiff_header, footer, form_size>>
main_vars == <<asked, opts, config, main_pc, disc, reader, handle, before, dirs, made, area_idx,
               output_dir_dsd, exit_main_flag>>
id3_vars == <<id3_tag_mode, text, source, id3_pc, id3_tag, id3_buffer, id3_pos, id3_tagsize>>

\* Three tracks, with a pause behind the first.
MCPauses == <<TRUE, FALSE>>

Missing == <<"NULL">>

-----------------------------------------------------------------------------
(* The discs of Modes: one area with a separator in each text; a set with a   *)
(* title for the album and two areas; one area without any text.              *)

Untitled == [disc_artist |-> Missing, disc_artist_phonetic |-> Missing, album_artist |-> Missing,
             album_artist_phonetic |-> Missing, album_title |-> Missing,
             album_title_phonetic |-> Missing, disc_title |-> Missing,
             disc_title_phonetic |-> Missing]
Song(name, performer) == [title |-> name, performer |-> performer]
Songs == <<Song(<<".", "Song">>, Missing), Song(<<"Song">>, <<"Duo", "/", "Band">>)>>
Bare == [track |-> <<Song(Missing, Missing), Song(<<"?">>, Missing)>>, channels |-> 6, extra |-> 4]
Areas == [twoch |-> [channels |-> 2, extra |-> 0, track |-> Songs],
          mulch |-> [channels |-> 5, extra |-> 3, track |-> Songs]]

MCDiscs ==
  {[text |-> [Untitled EXCEPT !.disc_title = <<"Title", "/", "B">>,
                              !.disc_artist = <<"Artist", ";", "X">>],
    set |-> 1, number |-> 1, has |-> {"twoch"}, area |-> Areas],
   [text |-> [Untitled EXCEPT !.album_title = <<"Album", "of", "all">>, !.disc_title = <<"Title">>,
                              !.album_artist_phonetic = <<"Ph">>],
    set |-> 2, number |-> 2, has |-> {"twoch", "mulch"}, area |-> Areas],
   [text |-> Untitled, set |-> 1, number |-> 1, has |-> {"mulch"},
    area |-> [Areas EXCEPT !.mulch = Bare]]}

MCConfigs == {<<>>, <<"artist", "performer", "id3tag=2">>, <<"pauses", "nopad", "id3tag=no">>,
              <<"concatenate", "logging">>}

-----------------------------------------------------------------------------
(* The texts of Id3Tag: all of them, none, one, or all but one, each of them  *)
(* short, not in ASCII, or longer than 14 bits can count.                     *)

Names13 == {"track_title", "album_title", "album_title_phonetic", "disc_title",
            "disc_title_phonetic", "performer", "disc_artist", "disc_artist_phonetic",
            "album_artist", "album_artist_phonetic", "composer", "album_publisher",
            "album_copyright"}
Fillings == {{}, Names13} \cup {Names13 \ {f} : f \in Names13} \cup {{f} : f \in Names13}
MCDiscTexts == {[f \in Names13 |-> IF f \in filled THEN t ELSE Missing] :
                  filled \in Fillings,
                  t \in {<<"short", 3, 3>>, <<"accents", 4, 6>>, <<"long", 9000, 9000>>}}

\* The tags of others: two frames, the first of them known, to be discarded,
\* unknown, known in version 2, or too large, and some bytes of padding, and a
\* tag too short for its extended header.
ForeignTag(version, id, flags, extended, padding) ==
  LET first == IF extended THEN 10 ELSE 0
      next  == first + (IF version = 2 THEN 6 ELSE 10) + 6
      frame(i, at, size, f) == [id |-> i, at |-> at, size |-> size, flags |-> f, data |-> <<"?">>]
  IN  [version |-> version, extended |-> extended,
       size |-> <<0, 0, 0, 2 * next - first + padding>>,
       frames |-> <<frame(id, first, <<0, IF id = "large" THEN 127 ELSE 0, 0, 6>>, flags),
                    frame(IF version = 2 THEN "TT2" ELSE "TIT2", next, <<0, 0, 0, 6>>, {})>>]

MCForeign ==
  {ForeignTag(version, id, flags, extended, padding) :
     version \in 2 .. 5, id \in {"TALB", "TLEN", "????", "TT2", "TLE", "PIC", "large"},
     flags \in {{}, {"compress"}, {"group", "encrypt"}}, extended \in BOOLEAN,
     padding \in {-1, 0, 5, 20}}
  \cup {[version |-> 4, size |-> <<0, 0, 0, 3>>, extended |-> TRUE, frames |-> <<>>]}

-----------------------------------------------------------------------------
Dsdiff == INSTANCE DsdiffWriterProofs WITH
            pc <- dsdiff_pc, header <- dsdiff_header, audio_data_size <- dsdiff_audio_data_size,
            MaxFrames <- MaxFrameCount

ASSUME DsdiffNumbers == Dsdiff!Numbers

Main == INSTANCE Modes WITH pc <- main_pc

Id3 == INSTANCE Id3Tag WITH
         pc <- id3_pc, tag <- id3_tag, buffer <- id3_buffer, pos <- id3_pos, size <- id3_tagsize

ASSUME TagNumbers == Id3!Numbers

FirstDsf == concatenate = TRUE /\ dsf_nopad = TRUE /\ tags = TRUE /\ queue = <<0>>
FirstDsdiff == /\ dsd_encoded_export = TRUE /\ edit_master = TRUE
               /\ artist = 0 /\ title = 0 /\ mtoc_title = 0 /\ tag = 0
FirstMain == disc \in {d \in Discs : d.text = Untitled}
FirstId3 == /\ id3_tag_mode = 0 /\ text = [f \in Names13 |-> Missing]

MCInit == /\ part \in {"dsf", "dsdiff", "main", "id3"}
          /\ part # "dsf" => FirstDsf
          /\ part # "dsdiff" => FirstDsdiff
          /\ part # "main" => FirstMain
          /\ part # "id3" => FirstId3 /\ source = "disc"
          /\ part = "id3" => source = "disc" \/ (source = "other" /\ FirstId3)
          /\ Init /\ Dsdiff!Init /\ Main!Init /\ Id3!Init

MCNext ==
  /\ UNCHANGED part
  /\ \/ part = "dsf" /\ Next /\ UNCHANGED <<dsdiff_vars, main_vars, id3_vars>>
     \/ part = "dsdiff" /\ Dsdiff!Next /\ UNCHANGED <<vars, main_vars, id3_vars>>
     \/ part = "main" /\ Main!Next /\ UNCHANGED <<vars, dsdiff_vars, id3_vars>>
     \/ part = "id3" /\ Id3!Next /\ UNCHANGED <<vars, dsdiff_vars, main_vars>>

MCSpec == MCInit /\ [][MCNext]_<<part, vars, dsdiff_vars, main_vars, id3_vars>>

\* The inductive invariants, with the types of the variables of the writers.
TypesOK == DsfInv /\ Dsdiff!DsdiffInv /\ Id3!TagInv

\* The chunks of a DSDIFF file leave no gap (DsdiffWriter).
ChunksTileFile == Dsdiff!ChunksTileFile

\* The index of a DST file has every frame of it (DsdiffWriter).
IndexFindsFrames == Dsdiff!IndexFindsFrames

\* The program makes what its options ask for (Modes).
RequestServed == part = "main" => Main!RequestServed

\* A tag is read back as it was written (Id3Tag).
TagReadsBack == Id3!TagReadsBack
=============================================================================
