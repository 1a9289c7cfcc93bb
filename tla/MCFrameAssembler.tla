-------------------------- MODULE MCFrameAssembler ---------------------------
(* Small layouts.  DST: frames of one, two and three packets, several starts   *)
(* in a sector, a frame that ends with its sector.  Plain: two frames in three *)
(* sectors, twice (on a disc it is three frames in 14 or 16).                  *)
EXTENDS FrameAssembler

MCDstLayouts == { <<<<1>>, <<1, 2>>, <<2, 3>>, <<3>>>>,
                  <<<<1, 2, 3>>, <<3, 4>>, <<4, 5>>>>,
                  <<<<1>>, <<1>>, <<1, 2>>, <<2>>, <<3>>>>,
                  <<<<1, 2>>, <<3>>, <<3>>, <<4>>>> }
MCPlainLayouts == { <<<<1>>, <<1, 2>>, <<2>>, <<3>>, <<3, 4>>, <<4>>>> }
=============================================================================
