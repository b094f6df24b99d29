--------------------------- MODULE MCWriterThreads ---------------------------
(***************************************************************************)
(* Small instances of WriterThreads for TLC.                               *)
(***************************************************************************)
EXTENDS WriterThreads, TLC

CONSTANTS t1, t2, t3, h1, h2, h3, d1

MCThreads == {t1, t2}
MCThreeThreads == {t1, t2, t3}
MCHandles == {h1, h2}
MCThreeHandles == {h1, h2, h3}
MCDirectories == {d1}
MCOneHandle == {h1}
MCNone == {}
MCFaults == {"header", "final"}

(* Threads that write, one that writes in one call, one that only reads or  *)
(* only closes the archive.                                                 *)
MCWriters == [t \in MCThreads |-> {"open", "close"}]
MCThreeWriters == [t \in MCThreeThreads |->
    IF t = t3 THEN {"writestr"} ELSE {"open", "close"}]
MCStrings == [t \in MCThreeThreads |->
    CASE t = t1 -> {"writestr", "mkdir", "closeArchive"}
      [] t = t2 -> {"writestr", "closeArchive"}
      [] OTHER  -> {"read"}]
MCCloser == [t \in MCThreads |->
    IF t = t2 THEN {"close", "closeArchive"} ELSE {"open", "close"}]
MCReader == [t \in MCThreads |->
    IF t = t2 THEN {"read"} ELSE {"open", "close"}]

Names == Permutations(MCHandles)
ThreeNames == Permutations(MCThreeHandles)
=============================================================================
