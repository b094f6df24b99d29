-------------------------------- MODULE ExtFile --------------------------------
(***************************************************************************)
(* zipfile/ext.py: ZipExtFile, a member opened for reading.  One client    *)
(* calls read, read1, peek, seek and close; a call that loops takes one    *)
(* step for each turn of its loop, which is one _read1.  A read of the     *)
(* archive's file is refused while another thread has a write handle open. *)
(*                                                                         *)
(* The member's compressed data is a sequence of UNITS: each has the bytes *)
(* it decompresses to, and may end the compressed stream; a unit of a      *)
(* stored member is a byte.  A CRC is the sequence of bytes it was fed, an *)
(* HMAC the sequence of units.                                             *)
(***************************************************************************)
EXTENDS Integers, Sequences, SequencesExt

CONSTANTS
    Content,      \* the bytes the ZipInfo describes (file_size and CRC)
    Entries,      \* members: how they are stored, and what is really there
    Noise,        \* what decrypting out of step gives
    MinRead,      \* MIN_READ_SIZE
    MaxRead,      \* MAX_READ_SIZE
    MaxSeekRead,  \* MAX_SEEK_READ
    MaxN,         \* MAX_N, more than the member holds
    PeekLimit,    \* peek() returns no more than this
    Requests,     \* bound: sizes a client asks for
    Targets,      \* bound: positions it seeks to
    Faults        \* refusals by an open writer that may happen

Kinds == {"stored", "deflated", "lzma", "other"}
Encryptions == {"none", "zipcrypto", "aes1", "aes2"}
Size == Len(Content)
Byte == Range(Content) \cup {Noise}
Unit == [bytes : Seq(Byte), ends : BOOLEAN]
Entry == [kind : Kinds, enc : Encryptions,
          raw : Seq(Unit),      \* the member's data, encryption header excluded
          csize : Nat,          \* the length the ZipInfo gives for it
          mac : Seq(Unit)]      \* the data its HMAC was made for

ASSUME ExtAssumption ==
    /\ \A e \in Entries : /\ e \in Entry /\ Len(e.raw) <= e.csize
                          /\ e.kind = "stored" =>
                                \A k \in DOMAIN e.raw :
                                   Len(e.raw[k].bytes) = 1 /\ ~e.raw[k].ends
    /\ Content \in Seq(Range(Content)) /\ Noise \notin Range(Content)
    /\ {MinRead, MaxRead, MaxSeekRead, MaxN, PeekLimit} \subseteq Nat \ {0}
    /\ Size < MaxN
    /\ Requests \subseteq Nat /\ Targets \subseteq Int
    /\ Faults \subseteq {"read", "rewind", "seek", "trailer"}

VARIABLES
    entry,     \* the member
    rawPos,    \* units between _compress_start and _fileobj's position
    st,        \* what read_init sets
    expected,  \* _expected_crc is not None
    closed,
    call,      \* the call that is going on
    last,      \* what the last call was asked for and returned
    skipped,   \* what made the client lose the check at the end
    broken     \* a call has raised BadZipFile or EOFError

vars == <<entry, rawPos, st, expected, closed, call, last, skipped, broken>>

(* read_init, with fresh decrypter and decompressor.                        *)
ReadInit ==
    [crc          |-> <<>>,              \* _running_crc
     compressLeft |-> entry.csize,       \* _compress_left
     left         |-> Size,              \* _left
     buffer       |-> <<>>,              \* _readbuffer
     offset       |-> 0,                 \* _offset
     eof          |-> FALSE,             \* _eof
     decrypted    |-> <<>>,              \* units given to the decrypter
     \* the decompressor: its input and output not used yet
     tail |-> <<>>, pending |-> <<>>, ended |-> FALSE]

NoCall == [op |-> "none", asked |-> 0, at |-> 0, need |-> 0, acc |-> <<>>,
           todo |-> 0]
Nothing == [asked |-> 0, bytes |-> <<>>]

Init ==
    /\ entry \in Entries
    /\ rawPos = 0
    /\ st = ReadInit
    /\ expected = TRUE
    /\ closed = FALSE /\ skipped = {} /\ broken = FALSE
    /\ call = NoCall
    /\ last = Nothing

-----------------------------------------------------------------------------
(* Raw reads                                                                *)

Bytes(us) == FlattenSeq([k \in DOMAIN us |-> us[k].bytes])

Stored == entry.kind = "stored"
Aes == entry.enc \in {"aes1", "aes2"}

(* The units _read2 gets when asked for n: none when none are left, and     *)
(* fewer when the file ends early.                                          *)
RawUnits(n) ==
    SubSeq(entry.raw, rawPos + 1,
           Min({rawPos + Min({Max({n, MinRead}), MaxRead, st.compressLeft}),
                Len(entry.raw)}))

(* Ciphers are streams: a unit decrypts only in its turn.                   *)
Decrypt(us) ==
    IF entry.enc = "none" \/ rawPos = Len(st.decrypted) THEN us
    ELSE [k \in DOMAIN us |-> [bytes |-> <<Noise>>, ends |-> FALSE]]

(* A decompressor given input decompresses until it has n bytes, or the     *)
(* input or the stream ends; the rest of a unit's bytes stays pending.      *)
Decompress(tail, pending, ended, input, n) ==
    LET us == tail \o input
        upTo(k) == pending \o Bytes(SubSeq(us, 1, k))
        endsAt(k) == ended \/ (k > 0 /\ us[k].ends)
        enough(k) == k = Len(us) \/ endsAt(k) \/ Len(upTo(k)) >= n
        k == Min({j \in 0 .. Len(us) : enough(j)})
        done == endsAt(k)
        bytes == upTo(k)
    IN  [data    |-> SubSeq(bytes, 1, Min({n, Len(bytes)})),
         pending |-> SubSeq(bytes, n + 1, Len(bytes)),
         tail    |-> IF done THEN <<>> ELSE SubSeq(us, k + 1, Len(us)),
         ended   |-> done]

(* How much _read1(n) asks _read2 for.                                      *)
Demand(n) ==
    CASE Stored -> n
      [] entry.kind = "deflated" -> Max({0, n - Len(st.tail)})
      [] OTHER -> IF st.tail = <<>> /\ st.pending = <<>> THEN n ELSE 0

(* What _read1(n) reads and decompresses, and whether that is the end.      *)
Chunk(n) ==
    LET input == IF Demand(n) = 0 \/ st.compressLeft <= 0 THEN <<>>
                 ELSE RawUnits(Demand(n))
        cleft == st.compressLeft - Len(input)
        d == Decompress(st.tail, st.pending, st.ended, Decrypt(input), n)
        finished == d.ended /\ d.pending = <<>>
        exhausted == cleft <= 0 /\ d.tail = <<>>
    IN  CASE Stored ->
               [input |-> input, data |-> Bytes(Decrypt(input)),
                eof |-> cleft <= 0, tail |-> <<>>, pending |-> <<>>,
                ended |-> FALSE]
          [] entry.kind = "deflated" ->
               [input |-> input,
                data |-> IF exhausted THEN d.data \o d.pending ELSE d.data,
                eof |-> finished \/ exhausted, tail |-> d.tail,
                pending |-> IF exhausted THEN <<>> ELSE d.pending,
                ended |-> d.ended]
          [] OTHER ->
               [input |-> input, data |-> d.data, eof |-> finished,
                tail |-> d.tail, pending |-> d.pending, ended |-> d.ended]

(* EOFError: there should be data, but the file ends.                       *)
RunsOut(c) ==
    /\ Demand(call.need) > 0 /\ st.compressLeft > 0
    /\ c.input = <<>>

(* Mutant: the size given is not looked at.                                 *)
SizeIgnored(c) == FALSE

(* BadZipFile: more data than file_size says.                               *)
TooLong(c) == Len(c.data) > st.left

(* Mutants of Truncated: the last data of a stream, still without its end,  *)
(* is not let through; a stream that has run dry is read on and on.         *)
TruncatedWithData(c) ==
    ~Stored /\ st.compressLeft - Len(c.input) <= 0 /\ ~c.eof
NeverTruncated(c) == FALSE

(* BadZipFile: all data has been read and gives nothing, without an end.    *)
Truncated(c) ==
    /\ ~Stored /\ st.compressLeft - Len(c.input) <= 0
    /\ ~c.eof /\ c.data = <<>>

(* The state after a chunk was accepted; it goes into the buffer when the   *)
(* caller wanted less.                                                      *)
Accept(c) ==
    [st EXCEPT !.compressLeft = @ - Len(c.input),
               !.left = @ - Len(c.data),
               !.eof = c.eof \/ (Stored /\ st.left <= Len(c.data)),
               !.crc = IF expected THEN @ \o c.data ELSE @,
               !.decrypted = IF entry.enc = "none" THEN @ ELSE @ \o c.input,
               !.tail = c.tail, !.pending = c.pending, !.ended = c.ended,
               !.buffer = IF call.need < Len(c.data) THEN c.data ELSE <<>>,
               !.offset = IF call.need < Len(c.data) THEN call.need ELSE 0]

(* Mutant: the CRC is not for encrypted members.                            *)
CheckMacOrCrc(s, p) ==
    IF entry.enc = "none" THEN expected => s.crc = Content
    ELSE Aes => s.decrypted = entry.mac /\ p = entry.csize

(* check_integrity in state s, the raw stream at position p.  An LZMA       *)
(* decompressor that has seen its end marker refuses the padding it is fed. *)
CheckIntegrity(s, p) ==
    LET crcAgrees == expected => s.crc = Content
        macAgrees == s.decrypted = entry.mac /\ p = entry.csize
        drained == entry.kind = "lzma" => s.compressLeft <= 0
    IN  IF Aes THEN /\ drained /\ macAgrees
                    /\ entry.enc = "aes1" => crcAgrees
               ELSE crcAgrees

-----------------------------------------------------------------------------
(* Calls                                                                    *)

Idle == call = NoCall
(* Bound: the client drops a member in which a call has found damage.       *)
Ready == Idle /\ ~closed /\ ~broken

Ahead == SubSeq(st.buffer, st.offset + 1, Len(st.buffer))
Tell == Size - st.left - Len(st.buffer) + st.offset

(* The beginning of read(n): from the buffer, or the buffer and more.       *)
BeginRead(op, at, n, todo) ==
    LET end == st.offset + n
        begun(need, acc) == [op |-> op, asked |-> n, at |-> at, need |-> need,
                             acc |-> acc, todo |-> todo]
    IN  IF end < Len(st.buffer)
        THEN /\ call' = begun(0, SubSeq(st.buffer, st.offset + 1, end))
             /\ st' = [st EXCEPT !.offset = end]
        ELSE /\ call' = begun(end - Len(st.buffer), Ahead)
             /\ st' = [st EXCEPT !.buffer = <<>>, !.offset = 0]

Read(n) ==
    /\ Ready /\ BeginRead("read", Tell, n, 0)
    /\ UNCHANGED <<entry, rawPos, expected, closed, last, skipped, broken>>

Read1(n) ==
    /\ Ready /\ BeginRead("read1", Tell, n, 0)
    /\ UNCHANGED <<entry, rawPos, expected, closed, last, skipped, broken>>

(* read(-1) and read1(-1)                                                   *)
ReadAll(op) ==
    /\ Ready
    /\ call' = [op |-> op, asked |-> MaxN, at |-> Tell, need |-> MaxN,
                acc |-> Ahead, todo |-> 0]
    /\ st' = [st EXCEPT !.buffer = <<>>, !.offset = 0]
    /\ UNCHANGED <<entry, rawPos, expected, closed, last, skipped, broken>>

Peeked(s) == SubSeq(s.buffer, s.offset + 1, Min({s.offset + PeekLimit, Len(s.buffer)}))
Showing(bytes) == [asked |-> Len(bytes), bytes |-> bytes]

PeekBuffer(n) ==
    /\ Ready /\ n <= Len(Ahead)
    /\ last' = Showing(Peeked(st))
    /\ UNCHANGED <<entry, rawPos, st, expected, closed, call, skipped, broken>>

Peek(n) ==
    /\ Ready /\ n > Len(Ahead)
    /\ BeginRead("peek", Tell, n, 0)
    /\ UNCHANGED <<entry, rawPos, expected, closed, last, skipped, broken>>

(* readline, when a newline is in the buffer: any byte may be one.  When    *)
(* none is, it is made of peeks and reads.                                  *)
ReadLine(k) ==
    /\ Ready /\ k <= Len(Ahead)
    /\ last' = Showing(SubSeq(Ahead, 1, k))
    /\ st' = [st EXCEPT !.offset = @ + k]
    /\ UNCHANGED <<entry, rawPos, expected, closed, call, skipped, broken>>

Close ==
    /\ Idle /\ ~closed /\ closed' = TRUE
    /\ UNCHANGED <<entry, rawPos, st, expected, call, last, skipped, broken>>

-----------------------------------------------------------------------------
(* One turn of a loop                                                       *)

Looping == call.op # "none" /\ call.need > 0 /\ ~st.eof

(* read1 stops at the first data, read(n) when it has n bytes, read(-1)     *)
(* at the end.                                                              *)
Taken(data) ==
    LET part == SubSeq(data, 1, Min({call.need, Len(data)}))
    IN  [call EXCEPT !.acc = @ \o part,
             !.need = CASE call.op = "readall" -> @
                        [] call.op = "read1" /\ data # <<>> -> 0
                        [] OTHER -> @ - Len(part)]

Fill ==
    /\ Looping
    /\ \E c \in {Chunk(call.need)} :
          LET p == rawPos + Len(c.input)
          IN  /\ ~RunsOut(c) /\ ~TooLong(c) /\ ~Truncated(c)
              /\ st' = Accept(c)
              /\ st'.eof => CheckIntegrity(st', p)
              /\ rawPos' = IF st'.eof /\ Aes THEN p + 1 ELSE p    \* the HMAC
              /\ call' = Taken(c.data)
    /\ UNCHANGED <<entry, expected, closed, last, skipped, broken>>

Raise == call' = NoCall /\ last' = Nothing

(* The same turn when it finds damage: the call raises, and what it had     *)
(* read is lost.  (Where check_integrity leaves the raw stream is not kept: *)
(* _eof is set, and only a rewind leads on.)                                *)
FillFindsDamage ==
    /\ Looping
    /\ \E c \in {Chunk(call.need)} :
          LET p == rawPos + Len(c.input)
              kept == [Accept(c) EXCEPT !.buffer = <<>>, !.offset = 0]
          IN  \/ RunsOut(c) /\ UNCHANGED <<st, rawPos>>
              \/ /\ TooLong(c)
                 /\ st' = [kept EXCEPT !.left = st.left, !.crc = st.crc,
                                       !.eof = c.eof]
                 /\ rawPos' = p
              \/ /\ ~RunsOut(c) /\ ~TooLong(c)
                 /\ Truncated(c) \/ (kept.eof /\ ~CheckIntegrity(kept, p))
                 /\ st' = kept /\ rawPos' = p
    /\ broken' = TRUE
    /\ Raise
    /\ UNCHANGED <<entry, expected, closed, skipped>>

(* ClosableZipStream.read refuses while a writer is open.                   *)
FillRefused ==
    /\ Looping /\ "read" \in Faults
    /\ Demand(call.need) > 0 /\ st.compressLeft > 0
    /\ Raise
    /\ UNCHANGED <<entry, rawPos, st, expected, closed, skipped, broken>>

(* The last data has been read, the HMAC cannot be.                         *)
TrailerRefused ==
    /\ Looping /\ "trailer" \in Faults /\ Aes
    /\ \E c \in {Chunk(call.need)} :
          /\ ~RunsOut(c) /\ ~TooLong(c) /\ ~Truncated(c) /\ Accept(c).eof
          /\ st' = [Accept(c) EXCEPT !.buffer = <<>>, !.offset = 0]
          /\ rawPos' = rawPos + Len(c.input)
    /\ skipped' = skipped \cup {"refused trailer"}
    /\ Raise
    /\ UNCHANGED <<entry, expected, closed, broken>>

Returns(op) == call.op = op /\ ~Looping

ReadReturns ==
    /\ \E op \in {"read", "readall"} : Returns(op)
    /\ last' = [asked |-> call.asked, bytes |-> call.acc]
    /\ call' = NoCall
    /\ UNCHANGED <<entry, rawPos, st, expected, closed, skipped, broken>>

(* read1 may return less than it was asked for; only nothing means the end. *)
Read1Returns ==
    /\ Returns("read1")
    /\ last' = IF call.acc = <<>> THEN [asked |-> call.asked, bytes |-> <<>>]
               ELSE Showing(call.acc)
    /\ call' = NoCall
    /\ UNCHANGED <<entry, rawPos, st, expected, closed, skipped, broken>>

(* What was read is put back into the buffer.                               *)
PeekReturns ==
    /\ Returns("peek")
    /\ st' = IF Len(call.acc) > st.offset
             THEN [st EXCEPT !.buffer = call.acc \o Ahead, !.offset = 0]
             ELSE [st EXCEPT !.offset = @ - Len(call.acc)]
    /\ last' = Showing(Peeked(st'))
    /\ call' = NoCall
    /\ UNCHANGED <<entry, rawPos, expected, closed, skipped, broken>>

-----------------------------------------------------------------------------
(* seek.  SEEK_CUR and SEEK_END come down to a target position.             *)

Clip(p) == Max({0, Min({p, Size})})
Direct == Stored /\ entry.enc = "none"
InBuffer(p) == p - Tell + st.offset \in 0 .. (Len(st.buffer) - 1)

(* The rest of a seek reads todo bytes and drops them.                      *)
Seeking(todo) == [NoCall EXCEPT !.op = "seek", !.at = Tell, !.todo = todo]

SeekInBuffer(p) ==
    /\ Ready /\ InBuffer(p)
    /\ st' = [st EXCEPT !.offset = p - Tell + st.offset]
    /\ call' = Seeking(0)
    /\ UNCHANGED <<entry, rawPos, expected, closed, last, skipped, broken>>

(* Mutant: the bytes in the buffer are counted twice.                       *)
ShiftFromTell(p) == p - Tell

(* How far the raw stream is from position p: it is ahead by the buffer.    *)
RawShift(p) == p - Tell - Len(Ahead)

(* A stored member: the raw stream is moved, and the CRC given up.          *)
SeekDirect(p) ==
    /\ Ready /\ ~InBuffer(p)
    /\ Direct /\ p # Tell
    /\ LET by == RawShift(p)
       IN  /\ rawPos' = rawPos + by
           /\ st' = [st EXCEPT !.left = @ - by, !.compressLeft = @ - by,
                               !.eof = st.left - by <= 0,
                               !.buffer = <<>>, !.offset = 0]
    /\ expected' = FALSE /\ skipped' = skipped \cup {"seek"}
    /\ call' = Seeking(0)
    /\ UNCHANGED <<entry, closed, last, broken>>

(* ... given up even if the raw stream cannot be moved.                     *)
SeekDirectRefused(p) ==
    /\ Ready /\ ~InBuffer(p)
    /\ Direct /\ p # Tell
    /\ "seek" \in Faults
    /\ expected' = FALSE /\ skipped' = skipped \cup {"refused seek"}
    /\ Raise
    /\ UNCHANGED <<entry, rawPos, st, closed, broken>>

(* Mutant: read_init does not start the CRC again.                          *)
RewoundSameCrc == [ReadInit EXCEPT !.crc = st.crc]

Rewound == ReadInit

SeekBack(p) ==
    /\ Ready /\ ~InBuffer(p)
    /\ ~Direct /\ p < Tell
    /\ rawPos' = 0
    /\ st' = Rewound
    /\ call' = Seeking(p)
    /\ UNCHANGED <<entry, expected, closed, last, skipped, broken>>

SeekBackRefused(p) ==
    /\ Ready /\ ~InBuffer(p)
    /\ ~Direct /\ p < Tell
    /\ "rewind" \in Faults
    /\ Raise
    /\ UNCHANGED <<entry, rawPos, st, expected, closed, skipped, broken>>

SeekAhead(p) ==
    /\ Ready /\ ~InBuffer(p)
    /\ p = Tell \/ (~Direct /\ p > Tell)
    /\ call' = Seeking(p - Tell)
    /\ UNCHANGED <<entry, rawPos, st, expected, closed, last, skipped, broken>>

SeekOn ==
    /\ Returns("seek") /\ call.todo > 0
    /\ LET n == Min({MaxSeekRead, call.todo})
       IN  BeginRead("seek", call.at, n, call.todo - n)
    /\ UNCHANGED <<entry, rawPos, expected, closed, last, skipped, broken>>

SeekReturns ==
    /\ Returns("seek") /\ call.todo = 0
    /\ last' = Nothing
    /\ call' = NoCall
    /\ UNCHANGED <<entry, rawPos, st, expected, closed, skipped, broken>>

-----------------------------------------------------------------------------
Start ==
    \/ \E n \in Requests : Read(n) \/ Read1(n) \/ PeekBuffer(n) \/ Peek(n)
    \/ \E op \in {"readall", "read1"} : ReadAll(op)
    \/ \E k \in 1 .. MaxRead : ReadLine(k)
    \/ \E p \in {Clip(t) : t \in Targets} :
          \/ SeekInBuffer(p) \/ SeekDirect(p) \/ SeekDirectRefused(p)
          \/ SeekBack(p) \/ SeekBackRefused(p) \/ SeekAhead(p)
    \/ Close

(* A call goes on.                                                          *)
Step ==
    \/ Fill \/ FillFindsDamage \/ FillRefused \/ TrailerRefused
    \/ ReadReturns \/ Read1Returns \/ PeekReturns \/ SeekOn \/ SeekReturns

Next == Start \/ Step

Spec == Init /\ [][Next]_vars
-----------------------------------------------------------------------------
(* A stream ends with the first unit that says so, or with the data.        *)
Ends(us) == {k \in DOMAIN us : us[k].ends}
Reach(us) == IF Ends(us) = {} THEN Len(us) ELSE Min(Ends(us))
Stream(us) == Bytes(SubSeq(us, 1, Reach(us)))

(* What is really there, as far as file_size reaches.                       *)
Data ==
    LET all == Stream(entry.raw)
    IN  SubSeq(all, 1, Min({Size, Len(all)}))

(* The stream ends where it should: with the marker if it is compressed.    *)
Complete ==
    /\ Len(Stream(entry.raw)) = Size
    /\ Stored \/ Ends(entry.raw) # {}

(* Of the members: an HMAC was made for data that decompresses to what the  *)
(* ZipInfo says; nothing follows the end of a compressed stream.            *)
HonestMacs == \A e \in Entries : e.enc = "aes2" => Stream(e.mac) = Content
Unpadded == \A e \in Entries : Reach(e.raw) = Len(e.raw)

TypeOK ==
    /\ entry \in Entries
    /\ rawPos \in Nat
    /\ st.crc \in Seq(Byte)
    /\ st.compressLeft \in Int
    /\ st.left \in 0 .. Size
    /\ st.buffer \in Seq(Byte)
    /\ st.offset \in 0 .. Len(st.buffer)
    /\ st.eof \in BOOLEAN /\ st.ended \in BOOLEAN
    /\ {expected, closed, broken} \subseteq BOOLEAN
    /\ skipped \subseteq {"seek", "refused seek", "refused trailer"}
    /\ call.op \in {"none", "read", "readall", "read1", "peek", "seek"}
    /\ Tell \in 0 .. Size

(* However the client has read, peeked and sought, the running CRC is that *)
(* of the member's bytes from the first to the last one taken from the     *)
(* decompressor: none is counted twice or left out.                        *)
CrcCoversPrefix ==
    ~broken /\ expected => st.crc = SubSeq(Data, 1, Size - st.left)

(* A client that is told that the member has ended, by a read that returns *)
(* less than it was asked for, has been given bytes that agree with the    *)
(* CRC or HMAC, unless it has sought in a stored member, or an open writer  *)
(* came between it and the check.                                           *)
EndMeansVerified ==
    /\ ~broken /\ Len(last.bytes) < last.asked
    /\ skipped = {}
    => Data = Content

(* A member that is what its ZipInfo says is never called damaged, however *)
(* its bytes are split over reads and wherever the client seeks.            *)
SoundMembersNeverFail ==
    broken => \/ Data # Content \/ ~Complete
              \/ Len(entry.raw) < entry.csize \/ entry.mac # entry.raw

(* No call loops for ever, whatever the data is like: each turn takes       *)
(* something from the raw stream, or from the input the decompressor has   *)
(* kept, or gives the caller something, or it is the last: the end was     *)
(* reached, or the call raises.                                            *)
EveryTurnAdvances ==
    Looping =>
        LET c == Chunk(call.need)
        IN  \/ c.input # <<>> \/ c.data # <<>> \/ Accept(c).eof
            \/ Len(c.tail) < Len(st.tail)
            \/ RunsOut(c) \/ TooLong(c) \/ Truncated(c)

-----------------------------------------------------------------------------
Position == IF Idle THEN Tell ELSE call.at

Promise == INSTANCE MemberBytes WITH
    Lengths <- Requests \cup {MaxN} \cup 0 .. Size,
    data <- Data, at <- Position

(* A ZipExtFile is a sequence of bytes with a position: see MemberBytes.    *)
ImplementsBytes == Promise!Spec
=============================================================================
