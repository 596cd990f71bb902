------------------------------ MODULE Readers -------------------------------
(***************************************************************************)
(* The two readers of the files a tape comes in, side by side: a compressed*)
(* recording is first inflated as a whole, and the compiler then sees a    *)
(* block of sound or of none.  They share nothing; zlib_inflate_alloc only *)
(* returns the text or nothing.                                            *)
(***************************************************************************)
EXTENDS CompilerProps, Inflate

CONSTANT
  NoStream   \* the stream that is none, beside a file that is compiled

ASSUME NoStreamAssumption == NoStream \notin Streams /\ ~NoStream.zlib /\ Written(NoStream)

\* Either a file is compiled or a stream is inflated.
ReadersInit ==
  /\ Init
  /\ stream \in {NoStream} \cup (IF body = <<>> THEN Streams ELSE {})
  /\ Begin

ReadersNext ==
  \/ stream = NoStream /\ Next /\ UNCHANGED decoder
  \/ stream # NoStream /\ InflateNext /\ UNCHANGED vars

ReadersSpec == ReadersInit /\ [][ReadersNext]_<<vars, decoder>>
=============================================================================
