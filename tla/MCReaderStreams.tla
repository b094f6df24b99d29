--------------------------- MODULE MCReaderStreams ---------------------------
(***************************************************************************)
(* A small instance of ReaderStreams for TLC.                              *)
(***************************************************************************)
EXTENDS ReaderStreams, TLC

CONSTANTS t1, t2, t3, s1, s2, s3

MCThreads == {t1, t2, t3}
MCClosers == {t1}
MCStreams == {s1, s2, s3}
MCFaults == {"interrupt"}

Names == Permutations(MCStreams)
=============================================================================
