------------------------------ MODULE MCExtFile ------------------------------
(***************************************************************************)
(* Small instances of ExtFile for TLC.                                     *)
(***************************************************************************)
EXTENDS ExtFile

MCContent == <<1, 2, 3, 4>>

(* The last unit of a whole stream ends it.                                 *)
Cut(bs) == [k \in DOMAIN bs |-> [bytes |-> bs[k], ends |-> FALSE]]
Whole(bs) == [Cut(bs) EXCEPT ![Len(bs)].ends = TRUE]

Plain == Cut(<<<<1>>, <<2>>, <<3>>, <<4>>>>)
Dense == Whole(<<<<1, 2, 3>>, <<4>>>>)
Spare == Whole(<<<<>>, <<1, 2>>, <<3, 4>>>>)    \* LZMA begins with a header
Gap   == Whole(<<<<1>>, <<>>, <<2, 3, 4>>>>)
Late  == Whole(<<<<1>>, <<2, 3, 4>>, <<>>>>)

Sound(k, e, r) == [kind |-> k, enc |-> e, raw |-> r, csize |-> Len(r), mac |-> r]
Bad(k, e, r, m) == [Sound(k, e, r) EXCEPT !.mac = m]

MCSound ==
    {Sound("stored", e, Plain) : e \in Encryptions}
    \cup {Sound(k, e, r) : k \in Kinds \ {"stored"},
                           e \in {"none", "aes2"}, r \in {Dense, Late, Gap}}
    \cup {Sound("lzma", e, Spare) : e \in {"none", "aes1"}}

(* A byte changed, the stream cut, or longer than the ZipInfo says; the     *)
(* archive's file cut short.                                                *)
MCDamaged ==
    {Bad("stored", e, Cut(<<<<1>>, <<2>>, <<3>>, <<3>>>>), Plain) : e \in Encryptions}
    \cup {Bad(k, e, Whole(<<<<1, 2, 2>>, <<4>>>>), Dense) :
              k \in {"deflated", "lzma"}, e \in Encryptions}
    \cup {Sound(k, "none", r) : k \in {"deflated", "other"},
              r \in {Cut(<<<<1, 2, 3>>>>), Whole(<<<<1, 2>>, <<3, 4, 4>>>>)}}
    \cup {Sound("stored", "none", r) :
              r \in {Cut(<<<<1>>, <<2>>, <<3>>>>), Plain \o Cut(<<<<1>>>>)}}
    \cup {[Sound(k, "none", Cut(<<<<1>>, <<2>>>>)) EXCEPT !.csize = 4] :
              k \in {"stored", "deflated", "other"}}

MCEntries == MCSound \cup MCDamaged
ASSUME MembersAreOrdinary == HonestMacs /\ Unpadded

MCRequests == {0, 1, 2, 3, 5}
MCTargets == -1 .. 5
MCFaults == {"read", "rewind", "seek", "trailer"}
=============================================================================
