--------------------------- MODULE OrderedDecode ----------------------------
(* What the DST decoder promises the ripping engine: every frame handed to    *)
(* dst_decoder_decode comes back through frame_decoded_callback exactly once  *)
(* and in the order of the calls; a frame that could not be decoded is first  *)
(* reported through frame_error_callback and then comes back as silence; and  *)
(* dst_decoder_destroy returns only after the last of them.  DstDecoder       *)
(* implements this specification.                                             *)
EXTENDS Naturals, Sequences

CONSTANT BadFrames     \* the frames whose data cannot be decoded

VARIABLES submitted,   \* frames handed in; they are numbered from 1
          written,     \* what frame_decoded_callback got, in order
          reported,    \* the frames frame_error_callback got
          closed       \* dst_decoder_destroy has returned

vars == <<submitted, written, reported, closed>>

Silence == 0           \* the content of a frame that could not be decoded

\* The frame whose turn it is.
Due == Len(written) + 1

Init == /\ submitted = 0
        /\ written = <<>>
        /\ reported = {}
        /\ closed = FALSE

Submit == /\ ~closed
          /\ submitted' = submitted + 1
          /\ UNCHANGED <<written, reported, closed>>

Report == /\ Due <= submitted
          /\ Due \in BadFrames
          /\ reported' = reported \cup {Due}
          /\ UNCHANGED <<submitted, written, closed>>

Write == /\ Due <= submitted
         /\ Due \in BadFrames => Due \in reported
         /\ written' = Append(written, IF Due \in BadFrames THEN Silence ELSE Due)
         /\ UNCHANGED <<submitted, reported, closed>>

Close == /\ ~closed
         /\ Len(written) = submitted
         /\ closed' = TRUE
         /\ UNCHANGED <<submitted, written, reported>>

Next == Submit \/ Report \/ Write \/ Close

Spec == Init /\ [][Next]_vars
=============================================================================
