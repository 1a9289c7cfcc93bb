------------------------------- MODULE Names --------------------------------
(* Names of directories and files: fileutils.c and scarletbook_helpers.c.     *)
(* A text is a sequence of words and of the characters that these functions   *)
(* treat in a way of their own; a path is a text with slashes.  Lengths in    *)
(* bytes are left out, except that each text of the disc is cut to a maximum. *)
EXTENDS Integers, Sequences, SequencesExt, FiniteSetsExt

CONSTANTS MaxText,    \* stands for the MAX_..._LEN of scarletbook_helpers.c
          MaxTries    \* how often get_unique_filename tries

NoText == <<"NULL">>     \* a text the disc does not have

Separators == {";", "/", ",", " -"}

\* The characters that sanitize_filename replaces; sanitize_filepath leaves "/".
Unsafe == {"/", "?"}

FirstOf(texts) == LET present == {i \in DOMAIN texts : texts[i] # NoText}
                  IN  IF present = {} THEN NoText ELSE texts[Min(present)]

\* The text without the characters of C at its ends.
Trim(text, C) == LET kept == {i \in DOMAIN text : text[i] \notin C}
                 IN  IF kept = {} THEN <<>> ELSE SubSeq(text, Min(kept), Max(kept))

Replaced(text, C) == [i \in DOMAIN text |-> IF text[i] \in C THEN "_" ELSE text[i]]

\* sanitize_filename and sanitize_filepath
Sanitized(text) == Trim(Trim(Replaced(text, Unsafe), {"."}), {" "})
SanitizedPath(text) == Trim(Trim(Replaced(text, Unsafe \ {"/"}), {"."}), {" "})

\* The text up to the first character of C, cut to its maximal length.
UpTo(text, C) == LET cuts == {i \in DOMAIN text : text[i] \in C}
                     end  == IF cuts = {} THEN Len(text) ELSE Min(cuts) - 1
                 IN  Sanitized(SubSeq(text, 1, Min({end, MaxText})))

-----------------------------------------------------------------------------
(* make_filename, parse_format, get_unique_filename *)

Slash(path) == IF Last(path) = "/" THEN path ELSE Append(path, "/")

\* The path is sanitized after the place for the name has been computed: when
\* that shortens it, the name lands behind the end of the string.
MakeFilename(dir, name, extension) ==
  LET path  == IF dir = NoText THEN <<>> ELSE Slash(dir)
      clean == SanitizedPath(path)
  IN  IF Len(clean) < Len(path) THEN clean
      ELSE clean \o Sanitized(name) \o <<".", extension>>

\* Two digits, for the tracks 1 to 99.
Number(n) == IF n \in 1 .. 99 THEN <<ToString(n)>> ELSE <<>>

\* A format is a sequence of words and of "%N" (track number), "%A" (artist),
\* "%L" (album) and "%T" (title).
ParseFormat(format, n, artist, album, title) ==
  FlattenSeq([i \in DOMAIN format |-> CASE format[i] = "%N" -> Number(n)
                                        [] format[i] = "%A" -> artist
                                        [] format[i] = "%L" -> album
                                        [] format[i] = "%T" -> title
                                        [] OTHER -> <<format[i]>>])

\* The name, or with the first of the numbers 1 to MaxTries that is not taken,
\* or with the last one, taken or not.
UniqueFilename(dir, name, extension, taken) ==
  LET path(k) == MakeFilename(dir, IF k = 0 THEN name ELSE name \o <<" (", ToString(k), ")">>,
                              extension)
      free == {k \in 0 .. MaxTries : path(k) \notin taken}
  IN  path(IF free = {} THEN MaxTries ELSE Min(free))

\* The directories that recursive_mkdir makes below base.
Directories(path, base) ==
  {SubSeq(path, 1, n) : n \in {k \in Len(base) + 1 .. Len(path) :
                                 path[k] # "/" /\ (k < Len(path) => path[k + 1] = "/")}}

-----------------------------------------------------------------------------
(* The names of a disc.  disc.text has the master text, disc.set the number   *)
(* of discs of its album and disc.number its own among them; a track of an    *)
(* area has a title and a performer.                                          *)

ArtistOf(disc) == FirstOf(<<disc.text.disc_artist, disc.text.disc_artist_phonetic,
                            disc.text.album_artist, disc.text.album_artist_phonetic>>)

\* The title of the album comes first when the disc is one of a set.  In a set
\* the phonetic title of the disc is never used: it stands behind a second test
\* of disc_title.
TitleOf(disc) ==
  FirstOf(IF disc.set > 1
          THEN <<disc.text.album_title, disc.text.album_title_phonetic, disc.text.disc_title>>
          ELSE <<disc.text.disc_title, disc.text.disc_title_phonetic,
                 disc.text.album_title, disc.text.album_title_phonetic>>)

Artist(text) == IF text = NoText THEN <<>> ELSE UpTo(text, Separators)

\* get_album_dir: the name of the files that stand for a whole disc.
AlbumDir(disc, artist_flag) ==
  LET artist == Artist(ArtistOf(disc))
      title  == IF TitleOf(disc) = NoText THEN <<>> ELSE UpTo(TitleOf(disc), {";"})
      album  == title \o (IF disc.set > 1 THEN <<" (disc ", ToString(disc.number), ")">> ELSE <<>>)
      named  == artist # <<>> /\ artist_flag
  IN  ParseFormat(IF named THEN (IF title # <<>> THEN <<"%A", " - ", "%L">> ELSE <<"%A">>)
                  ELSE IF title # <<>> THEN <<"%L">> ELSE <<"Unknown Album">>,
                  0, artist, album, <<>>)

\* get_path_disc_album: the directory of a disc.
PathDiscAlbum(disc, artist_flag) ==
  LET artist == Artist(ArtistOf(disc))
      title  == IF TitleOf(disc) = NoText THEN <<"unknown album title">> ELSE UpTo(TitleOf(disc), {})
  IN  (IF artist_flag /\ artist # <<>> THEN artist \o <<" - ">> ELSE <<>>)
        \o title
        \o (IF disc.set > 1 THEN <<"/", "Disc ", ToString(disc.number)>> ELSE <<>>)

\* get_music_filename, for track i of an area, counted from 1; override is the
\* range of concatenated tracks, or empty.
MusicFilename(disc, area, i, override, performer_flag) ==
  LET track  == disc.area[area].track[i]
      who    == FirstOf(<<track.performer, disc.text.disc_artist, disc.text.album_artist>>)
      artist == Artist(who)
      title  == IF track.title = NoText THEN <<"unknown track title">> ELSE UpTo(track.title, {})
      of     == FirstOf(<<disc.text.disc_title, disc.text.disc_title_phonetic,
                          disc.text.album_title, disc.text.album_title_phonetic>>)
      album  == IF of = NoText THEN <<"unknown title">> ELSE UpTo(of, {";"})
      named  == performer_flag /\ who # NoText
  IN  ParseFormat(
        CASE override # <<>> -> (IF named THEN <<"%N", " - ", "%L", " - ", "%A", " -", "%T">>
                                 ELSE <<"%N", " - ", "%L", " -", "%T">>)
          [] override = <<>> /\ named /\ artist # <<>> ->
               (IF title # <<>> THEN <<"%N", " - ", "%A", " - ", "%T">> ELSE <<"%N", " - ", "%A">>)
          [] override = <<>> /\ ~(named /\ artist # <<>>) ->
               (IF title # <<>> THEN <<"%N", " - ", "%T">>
                ELSE IF album # <<>> THEN <<"%N", " - ", "%L">> ELSE <<"%N", " - ", "Unknown Artist">>),
        i, artist, album, IF override # <<>> THEN override ELSE title)

\* get_speaker_config_string
SpeakerConfig(area) == CASE area.channels = 2 /\ area.extra = 0 -> "Stereo"
                         [] area.channels = 5 /\ area.extra = 3 -> "5ch"
                         [] area.channels = 6 /\ area.extra = 4 -> "6ch"
                         [] OTHER -> "Unkn-ch"
=============================================================================
