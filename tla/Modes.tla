------------------------------- MODULE Modes --------------------------------
(* main.c: the options of the command line, the configuration file, and what  *)
(* the program then makes of a disc, in order: the metadata, the image, and   *)
(* for each channel area the edit master, the cue sheet and the tracks.  Each *)
(* rip is one step here, which is what RipEngine is about; a file counts as   *)
(* made when it is queued for a rip, or written by main itself.               *)
EXTENDS Names, FiniteSets

CONSTANTS MaxOptions,   \* bound: options on the command line
          Discs,        \* the discs there may be
          ConfigFiles   \* the settings of sacd_extract.cfg, in order; <<>> is no file

VARIABLES asked,     \* the options given
          opts,      \* opts_s
          config,    \* the settings read from the configuration file
          pc, disc, reader,
          handle,    \* whether scarletbook_handle_t is open, and its flags
          before,    \* the files there were when the disc was opened
          dirs,      \* the directories made
          made,      \* the files made, in order
          area_idx, output_dir_dsd, exit_main_flag

run == <<disc, reader, handle, before, dirs, made, area_idx, output_dir_dsd, exit_main_flag>>
vars == <<asked, opts, config, pc, run>>

-----------------------------------------------------------------------------
(* The options: one character, with its argument if it has one. *)

FlagOf == [two_channel |-> "2", multi_channel |-> "m", output_dsdiff |-> "p", output_dsf |-> "s",
           dsf_nopad |-> "z", artist_flag |-> "A", performer_flag |-> "a", output_iso |-> "I",
           convert_dst |-> "c", export_cue_sheet |-> "C", print |-> "P", version |-> "v"]

\* The numbers in the argument of -t.
Lists == [tracks |-> {"t 2", "t 1,2", "t 0", "t 7", "t 258"},
          of |-> [o \in {"t 2", "t 1,2", "t 0", "t 7", "t 258"} |->
                    CASE o = "t 2" -> <<2>> [] o = "t 1,2" -> <<1, 2>> [] o = "t 0" -> <<0>>
                      [] o = "t 7" -> <<7>> [] o = "t 258" -> <<258>>]]

\* The arguments of -o and -y: a directory, one that begins with a dot, one that
\* does not exist, and one character, which is ignored.
Root == <<"/", "out">>
Dirs == [o |-> {"o /out", "o ./out", "o /none", "o ."}, y |-> {"y /out", "y /none"}]
DirOf(o) == CASE o \in {"o /out", "y /out"} -> Root [] o = "o ./out" -> <<".", "/", "out">>
              [] o \in {"o /none", "y /none"} -> <<"/", "none">> [] o = "o ." -> <<".">>
Existing == {Root, <<".", "/", "out">>}

NoHandle == [state |-> "none", concatenate |-> FALSE, trimming |-> TRUE, nopad |-> FALSE, id3 |-> 4]

Init == /\ asked = {}
        /\ opts = [two_channel |-> FALSE, multi_channel |-> FALSE, output_dsf |-> FALSE,
                   output_dsdiff_em |-> FALSE, output_dsdiff |-> FALSE, output_iso |-> FALSE,
                   convert_dst |-> FALSE, export_cue_sheet |-> FALSE, print |-> FALSE,
                   output_dir |-> NoText, output_dir_conc |-> NoText, select_tracks |-> FALSE,
                   selected_tracks |-> {}, dsf_nopad |-> FALSE, audio_frame_trimming |-> TRUE,
                   artist_flag |-> FALSE, performer_flag |-> FALSE, concatenate |-> FALSE,
                   logging |-> FALSE, id3_tag_mode |-> 4, version |-> FALSE]
        /\ config = <<>>
        /\ pc = "options"
        /\ disc \in Discs
        /\ reader = "none" /\ handle = NoHandle
        /\ before = {} /\ dirs = {} /\ made = <<>>
        /\ area_idx = "none" /\ output_dir_dsd = <<>>
        /\ exit_main_flag = 0

\* One more option, none of them twice.
Given(options, o) == /\ pc = "options"
                     /\ o \in options
                     /\ asked \cap options = {}
                     /\ Cardinality(asked) < MaxOptions
                     /\ asked' = asked \cup {o}
                     /\ UNCHANGED <<config, pc, run>>

FlagOption(flag) == /\ Given({FlagOf[flag]}, FlagOf[flag])
                    /\ opts' = [opts EXCEPT ![flag] = TRUE]

MasterOption == /\ Given({"e"}, "e")
                /\ opts' = [opts EXCEPT !.output_dsdiff_em = TRUE, !.export_cue_sheet = TRUE]

PausesOption == /\ Given({"b"}, "b")
                /\ opts' = [opts EXCEPT !.audio_frame_trimming = FALSE]

ConcatenateOption == /\ Given({"k"}, "k")
                     /\ opts' = [opts EXCEPT !.concatenate = TRUE, !.audio_frame_trimming = FALSE]

\* -w does nothing.
ConcurrentOption == /\ Given({"w"}, "w")
                    /\ UNCHANGED opts

\* The tracks are numbered from 0 and kept in eight bits.
TracksOption(o) == LET numbers == ToSet(Lists.of[o]) \ {0} IN
                   /\ Given(Lists.tracks, o)
                   /\ opts' = [opts EXCEPT !.selected_tracks = {(n - 1) % 256 : n \in numbers},
                                           !.select_tracks = numbers # {}]

DirOption(o) == /\ Given(Dirs.o, o)
                /\ opts' = IF Len(DirOf(o)) >= 2 THEN [opts EXCEPT !.output_dir = DirOf(o)] ELSE opts

ConcDirOption(o) == /\ Given(Dirs.y, o)
                    /\ opts' = [opts EXCEPT !.output_dir_conc = DirOf(o)]

\* -? and --usage
HelpOption == /\ pc = "options"
              /\ pc' = "exit"
              /\ UNCHANGED <<asked, opts, config, run>>

EndOptions == /\ pc = "options"
              /\ pc' = "start"
              /\ UNCHANGED <<asked, opts, config, run>>

Options == \/ \E flag \in DOMAIN FlagOf : FlagOption(flag)
           \/ MasterOption \/ PausesOption \/ ConcatenateOption \/ ConcurrentOption
           \/ \E o \in Lists.tracks : TracksOption(o)
           \/ \E o \in Dirs.o : DirOption(o)
           \/ \E o \in Dirs.y : ConcDirOption(o)
           \/ HelpOption \/ EndOptions

-----------------------------------------------------------------------------
(* The configuration, and the disc *)

NotWide == /\ pc = "start"
           /\ exit_main_flag' = -1
           /\ pc' = "exit"
           /\ UNCHANGED <<asked, opts, config, disc, reader, handle, before, dirs, made, area_idx,
                          output_dir_dsd>>

\* read_config: what one setting does.
Applied(o, setting) ==
  CASE setting = "artist"      -> [o EXCEPT !.artist_flag = TRUE]
    [] setting = "performer"   -> [o EXCEPT !.performer_flag = TRUE]
    [] setting = "pauses"      -> [o EXCEPT !.audio_frame_trimming = FALSE]
    [] setting = "nopad"       -> [o EXCEPT !.dsf_nopad = TRUE]
    [] setting = "concatenate" -> [o EXCEPT !.concatenate = TRUE, !.audio_frame_trimming = FALSE]
    [] setting = "logging"     -> [o EXCEPT !.logging = TRUE]
    [] setting = "id3tag=no"   -> [o EXCEPT !.id3_tag_mode = 0]
    [] setting = "id3tag=2"    -> [o EXCEPT !.id3_tag_mode = 2]

ReadConfig == /\ pc = "start"
              /\ \E file \in ConfigFiles : /\ config' = file
                                           /\ opts' = FoldLeft(Applied, opts, file)
              /\ pc' = IF opts.version THEN "exit" ELSE "dirs"
              /\ UNCHANGED <<asked, run>>

\* Two channels unless an area is asked for; each of the directories stands for
\* the other one when only one is given, and must exist.
OutputDirs ==
  LET dir  == IF opts.output_dir # NoText THEN opts.output_dir ELSE opts.output_dir_conc
      conc == IF opts.output_dir_conc # NoText THEN opts.output_dir_conc ELSE opts.output_dir
      good == {dir, conc} \subseteq Existing \cup {NoText}
  IN  /\ pc = "dirs"
      /\ opts' = [opts EXCEPT !.two_channel = @ \/ ~opts.multi_channel, !.output_dir = dir,
                              !.output_dir_conc = conc]
      /\ exit_main_flag' = IF good THEN 0 ELSE -1
      /\ pc' = IF good THEN "open" ELSE "exit"
      /\ UNCHANGED <<asked, config, disc, reader, handle, before, dirs, made, area_idx,
                     output_dir_dsd>>

\* The directory of the disc, and the one of an area.
OutputDir == (IF opts.output_dir = NoText THEN <<>> ELSE Slash(opts.output_dir))
               \o PathDiscAlbum(disc, opts.artist_flag)
AreaDir(a) == OutputDir \o (IF "mulch" \in disc.has THEN <<"/", SpeakerConfig(disc.area[a])>> ELSE <<>>)
Album == AlbumDir(disc, opts.artist_flag)

\* The files that an earlier run of the same kind has left.
Earlier == {MakeFilename(OutputDir, Album, x) : x \in {"xml", "iso"}} \cup
           {MakeFilename(AreaDir(a), Album, x) : a \in disc.has, x \in {"dff", "cue"}}

\* sacd_open and scarletbook_open
Open == /\ pc = "open"
        /\ reader' = "open"
        /\ handle' = [state |-> "open", concatenate |-> opts.concatenate,
                      trimming |-> opts.audio_frame_trimming, nopad |-> opts.dsf_nopad,
                      id3 |-> opts.id3_tag_mode]
        /\ before' \in {{}, Earlier}
        /\ pc' = "xml"
        /\ UNCHANGED <<asked, opts, config, disc, dirs, made, area_idx, output_dir_dsd,
                       exit_main_flag>>

OpenFails == /\ pc = "open"
             /\ reader' \in {"none", "closed"}
             /\ exit_main_flag' = -1
             /\ pc' = "exit"
             /\ UNCHANGED <<asked, opts, config, disc, handle, before, dirs, made, area_idx,
                            output_dir_dsd>>

-----------------------------------------------------------------------------
(* What the program makes *)

Taken == before \cup {made[i].path : i \in DOMAIN made}
File(what, a, tracks, path) == [what |-> what, area |-> a, tracks |-> tracks, path |-> path]
AlbumFile(what, a, dir, extension) == File(what, a, {}, UniqueFilename(dir, Album, extension, Taken))

\* scarletbook_close, sacd_close
Closed == reader' = "closed" /\ handle' = [handle EXCEPT !.state = "closed"]

\* recursive_mkdir reports every failure but those for which it takes the directory to
\* be there, EEXIST and EISDIR, and two others, EACCES and EROFS.  After these the code goes
\* on, and what fails is the opening of the files, which is not modelled.
MkdirFails == /\ \/ pc = "xml" /\ opts.export_cue_sheet
                 \/ pc = "iso" /\ opts.output_iso /\ OutputDir \notin dirs
                 \/ pc = "area"
              /\ Closed
              /\ exit_main_flag' = -1
              /\ pc' = "exit"
              /\ UNCHANGED <<asked, opts, config, disc, before, dirs, made, area_idx, output_dir_dsd>>

Base == IF opts.output_dir = NoText THEN <<>> ELSE opts.output_dir

\* One stage: its directory and its files, if the options ask for it.
Stage(here, wanted, dir, files, next) ==
  /\ pc = here
  /\ dirs' = IF wanted THEN dirs \cup Directories(dir, Base) ELSE dirs
  /\ made' = IF wanted THEN made \o files ELSE made
  /\ pc' = next
  /\ UNCHANGED <<asked, config, disc, reader, handle, before, exit_main_flag>>

\* write_metadata_xml
ExportXml == /\ Stage("xml", opts.export_cue_sheet, OutputDir,
                      <<AlbumFile("xml", "none", OutputDir, "xml")>>, "iso")
             /\ UNCHANGED <<opts, area_idx, output_dir_dsd>>

ExportIso == /\ Stage("iso", opts.output_iso, OutputDir,
                      <<AlbumFile("iso", "none", OutputDir, "iso")>>, "loop")
             /\ UNCHANGED <<opts, area_idx, output_dir_dsd>>

ByArea == opts.output_dsf \/ opts.output_dsdiff \/ opts.output_dsdiff_em \/ opts.export_cue_sheet

\* An area that the disc does not have.
SkipArea == /\ pc = "loop" /\ ByArea
            /\ \/ /\ opts.multi_channel /\ "mulch" \notin disc.has
                  /\ opts' = [opts EXCEPT !.multi_channel = FALSE]
               \/ /\ ~(opts.multi_channel /\ "mulch" \notin disc.has)
                  /\ opts.two_channel /\ "twoch" \notin disc.has
                  /\ opts' = [opts EXCEPT !.two_channel = FALSE]
            /\ UNCHANGED <<asked, config, pc, run>>

TakeArea == /\ pc = "loop" /\ ByArea
            /\ opts.multi_channel \/ opts.two_channel
            /\ opts.multi_channel => "mulch" \in disc.has
            /\ opts.two_channel => "twoch" \in disc.has
            /\ area_idx' = IF opts.multi_channel THEN "mulch" ELSE "twoch"
            /\ pc' = "area"
            /\ UNCHANGED <<asked, opts, config, disc, reader, handle, before, dirs, made,
                           output_dir_dsd, exit_main_flag>>

\* create_path_output
CreatePath == /\ Stage("area", TRUE, AreaDir(area_idx), <<>>, "em")
              /\ output_dir_dsd' = AreaDir(area_idx)
              /\ UNCHANGED <<opts, area_idx>>

ExportMaster == /\ Stage("em", opts.output_dsdiff_em, output_dir_dsd,
                         <<AlbumFile("em", area_idx, output_dir_dsd, "dff")>>, "cue")
                /\ opts' = [opts EXCEPT !.export_cue_sheet = @ \/ opts.output_dsdiff_em]
                /\ UNCHANGED <<area_idx, output_dir_dsd>>

ExportCue == /\ Stage("cue", opts.export_cue_sheet, output_dir_dsd,
                      <<AlbumFile("cue", area_idx, output_dir_dsd, "cue")>>, "audio")
             /\ UNCHANGED <<opts, area_idx, output_dir_dsd>>

Format == IF opts.output_dsf THEN "dsf" ELSE "dff"
AreaTracks == Len(disc.area[area_idx].track)
Selected == {i \in 1 .. AreaTracks : opts.select_tracks => i - 1 \in opts.selected_tracks}

AudioFile(tracks, first, override) ==
  File(Format, area_idx, tracks,
       MakeFilename(output_dir_dsd,
                    MusicFilename(disc, area_idx, first, override, opts.performer_flag), Format))

\* One file for each selected track.
TrackFiles == [k \in 1 .. Cardinality(Selected) |->
                 LET i == SetToSortSeq(Selected, <)[k] IN AudioFile({i}, i, <<>>)]

\* One file from the first selected track to the last one; both keep the value
\* they start with when there is none.
ConcatenatedFiles ==
  LET first == Min(Selected \cup {AreaTracks})
      last  == Max(Selected \cup {1})
  IN  IF opts.select_tracks
      THEN <<AudioFile(first .. last, first, <<"[", ToString(first), "-", ToString(last), "]">>)>>
      ELSE <<>>

\* Mutant: both areas are done after one of them.
AreaDone_Both(o) == [o EXCEPT !.multi_channel = FALSE, !.two_channel = FALSE]

\* The end of the loop: the multi-channel area is done first.
AreaDone(o) == IF o.multi_channel THEN [o EXCEPT !.multi_channel = FALSE]
               ELSE [o EXCEPT !.two_channel = FALSE]

ExportAudio == /\ Stage("audio", opts.output_dsf \/ opts.output_dsdiff, output_dir_dsd,
                        IF opts.concatenate THEN ConcatenatedFiles ELSE TrackFiles, "loop")
               /\ opts' = AreaDone(opts)
               /\ UNCHANGED <<area_idx, output_dir_dsd>>

Finish == /\ pc = "loop"
          /\ ByArea => ~(opts.two_channel \/ opts.multi_channel)
          /\ Closed
          /\ pc' = "exit"
          /\ UNCHANGED <<asked, opts, config, disc, before, dirs, made, area_idx, output_dir_dsd,
                         exit_main_flag>>

\* The program has ended.
Exited == pc = "exit" /\ UNCHANGED vars

Next == \/ Options
        \/ NotWide \/ ReadConfig \/ OutputDirs
        \/ Open \/ OpenFails \/ MkdirFails
        \/ ExportXml \/ ExportIso
        \/ SkipArea \/ TakeArea \/ CreatePath \/ ExportMaster \/ ExportCue \/ ExportAudio
        \/ Finish \/ Exited

-----------------------------------------------------------------------------
(* Properties *)

\* The numbers given with -t, and whether tracks are to be concatenated.
Listed == UNION {ToSet(Lists.of[o]) \ {0} : o \in asked \cap Lists.tracks}
Concatenating == "k" \in asked \/ "concatenate" \in ToSet(config)

\* What the options ask for, in the order in which it is made.
ExpectedAudio(a) ==
  LET tracks == 1 .. Len(disc.area[a].track)
      kind   == IF "s" \in asked THEN "dsf" ELSE "dff"
      chosen == IF Listed = {} THEN tracks ELSE Listed \cap tracks
  IN  IF asked \cap {"s", "p"} = {} \/ (Concatenating /\ Listed = {}) THEN <<>>
      ELSE IF Concatenating THEN <<<<kind, a, Min(chosen) .. Max(chosen)>>>>
      ELSE [k \in 1 .. Cardinality(chosen) |-> <<kind, a, {SetToSortSeq(chosen, <)[k]}>>]

Expected ==
  LET one(option, what, a) == IF asked \cap option = {} THEN <<>> ELSE <<<<what, a, {}>>>>
      area(a) == IF a \notin disc.has THEN <<>>
                 ELSE one({"e"}, "em", a) \o one({"C", "e"}, "cue", a) \o ExpectedAudio(a)
  IN  one({"C", "e"}, "xml", "none") \o one({"I"}, "iso", "none")
        \o (IF "m" \in asked THEN area("mulch") ELSE <<>>)
        \o (IF {"2", "m"} \cap asked # {"m"} THEN area("twoch") ELSE <<>>)

\* The command lines that the property is about: numbers of tracks in eight bits,
\* among them one of the disc when tracks are concatenated.
Sound == /\ \A n \in Listed : n <= 256
         /\ Concatenating /\ Listed # {} => \A a \in disc.has : Listed \cap DOMAIN disc.area[a].track # {}

\* Whatever is asked for, whatever fails and in whatever order the options come:
\* the program makes what the options ask for, the multi-channel area before the
\* stereo area and each once; all of it when it exits with 0 after it has opened
\* the disc.  No two files have the same name, no image, master, sheet or
\* metadata overwrites an earlier one, and each file lies below the directory
\* given with -o, unless that begins with a dot.  The pauses are kept when they
\* or a concatenation are asked for.  The disc is closed on every way out.
RequestServed ==
  LET summary == [i \in DOMAIN made |-> <<made[i].what, made[i].area, made[i].tracks>>] IN
  /\ Sound => /\ IsPrefix(summary, Expected)
              /\ pc = "exit" /\ handle.state = "closed" /\ exit_main_flag = 0 => summary = Expected
  /\ "o ./out" \notin asked =>
       \A i \in DOMAIN made :
         /\ \A j \in 1 .. i - 1 : made[i].path # made[j].path
         /\ made[i].what \notin {"dsf", "dff"} => made[i].path \notin before
         /\ asked \cap {"o /out", "y /out"} # {} => IsPrefix(Root, made[i].path)
         /\ \E d \in dirs : IsPrefix(d, made[i].path)
  /\ handle.state # "none" =>
       handle.trimming = ~(Concatenating \/ "b" \in asked \/ "pauses" \in ToSet(config))
  /\ pc = "exit" => reader # "open" /\ handle.state # "open"
=============================================================================
