-------------------------------- MODULE Chunker --------------------------------
(***************************************************************************)
(* The chunker (cas/chunker.py): a stream is read in blocks of whatever    *)
(* size its read() returns, and cut where a rolling hash of its content    *)
(* has zeros in certain bits, or at MaxSize.                               *)
(*                                                                         *)
(* Sizes, the width of the hash, the gear table and the two masks are      *)
(* parameters; a mask is the set of its one-bits.                          *)
(***************************************************************************)
EXTENDS Integers, Sequences, FiniteSetsExt

CONSTANTS
  Byte,                 \* the values of a byte
  GEAR,                 \* byte -> number below 2^Width
  Width,                \* bits of the rolling hash
  HardBits, EasyBits,   \* masks, before and from the average size
  MinSize, AvgSize, MaxSize,
  ReadSize,             \* bytes asked for by one read()
  MaxLen                \* bounds the streams

ASSUME ChunkerAssumption ==
  /\ Width \in Nat \ {0}
  /\ GEAR \in [Byte -> 0 .. 2^Width - 1]
  /\ HardBits \subseteq 0 .. Width - 1 /\ EasyBits \subseteq 0 .. Width - 1
  /\ MinSize \in Nat \ {0} /\ AvgSize \in Nat /\ MaxSize \in Nat
  /\ ReadSize \in Nat /\ MaxLen \in Nat
  /\ MinSize < AvgSize /\ AvgSize < MaxSize /\ MaxSize <= ReadSize

VARIABLES
  input,      \* the stream
  pos,        \* how much of it has been read
  buf,        \* bytes read and not yet emitted
  offset,     \* where buf begins in the stream
  eof,        \* read() has returned nothing
  chunks,     \* what was yielded
  done        \* the generator has returned

vars == <<input, pos, buf, offset, eof, chunks, done>>

Streams == UNION {[1 .. n -> Byte] : n \in 0 .. MaxLen}

ChunkerTypeOK ==
  /\ input \in Streams
  /\ pos \in 0 .. Len(input) /\ offset \in 0 .. pos
  /\ buf \in Seq(Byte) /\ Len(buf) < MaxSize + ReadSize
  /\ eof \in BOOLEAN /\ done \in BOOLEAN
  /\ chunks \in Seq([offset : Nat, data : Seq(Byte)])

Init ==
  /\ input \in Streams
  /\ pos = 0 /\ buf = <<>> /\ offset = 0
  /\ eof = FALSE /\ done = FALSE
  /\ chunks = <<>>

-----------------------------------------------------------------------------
(* _find_cut *)

(* fp & mask == 0 *)
ZeroAt(fp, bits) == \A k \in bits : (fp \div 2^k) % 2 = 0

(* fp after each byte of window w; hashing starts behind the minimum size. *)
Rolling(w) ==
  LET fp[i \in MinSize .. Len(w)] ==
        IF i = MinSize THEN 0 ELSE (2 * fp[i - 1] + GEAR[w[i]]) % 2^Width
  IN fp

FindCut(w) ==
  IF Len(w) <= MinSize
  THEN Len(w)
  ELSE LET fp   == Rolling(w)
           hard == {i \in MinSize + 1 .. Len(w) : i <= AvgSize /\ ZeroAt(fp[i], HardBits)}
           easy == {i \in MinSize + 1 .. Len(w) : i > AvgSize /\ ZeroAt(fp[i], EasyBits)}
       IN Min(hard \cup easy \cup {Len(w)})

-----------------------------------------------------------------------------
(* chunk_stream *)

(* Mutant: reads on while it may. *)
RefillAlways ==
  /\ ~eof /\ ~done
  /\ IF pos = Len(input)
     THEN eof' = TRUE /\ UNCHANGED <<pos, buf>>
     ELSE \E n \in 1 .. Min({ReadSize, Len(input) - pos}) :
            /\ buf' = buf \o SubSeq(input, pos + 1, pos + n)
            /\ pos' = pos + n
            /\ UNCHANGED eof
  /\ UNCHANGED <<input, offset, chunks, done>>

(* One read(): a block of any size up to ReadSize, nothing at the end.     *)
Refill ==
  /\ ~eof /\ ~done /\ Len(buf) < MaxSize
  /\ IF pos = Len(input)
     THEN eof' = TRUE /\ UNCHANGED <<pos, buf>>
     ELSE \E n \in 1 .. Min({ReadSize, Len(input) - pos}) :
            /\ buf' = buf \o SubSeq(input, pos + 1, pos + n)
            /\ pos' = pos + n
            /\ UNCHANGED eof
  /\ UNCHANGED <<input, offset, chunks, done>>

(* Mutant: cuts as soon as a read() has returned something.                *)
EmitEarly ==
  /\ ~done /\ buf # <<>>
  /\ LET window == SubSeq(buf, 1, Min({Len(buf), MaxSize}))
         cut    == FindCut(window)
     IN /\ chunks' = Append(chunks, [offset |-> offset, data |-> SubSeq(window, 1, cut)])
        /\ buf' = SubSeq(buf, cut + 1, Len(buf))
        /\ offset' = offset + cut
  /\ UNCHANGED <<input, pos, eof, done>>

(* Mutant: drops the window it looked at, not the chunk it found.          *)
EmitDropsWindow ==
  /\ ~done /\ buf # <<>>
  /\ eof \/ Len(buf) >= MaxSize
  /\ LET window == SubSeq(buf, 1, Min({Len(buf), MaxSize}))
         cut    == FindCut(window)
     IN /\ chunks' = Append(chunks, [offset |-> offset, data |-> SubSeq(window, 1, cut)])
        /\ buf' = SubSeq(buf, Len(window) + 1, Len(buf))
        /\ offset' = offset + cut
  /\ UNCHANGED <<input, pos, eof, done>>

(* A full window is there, or all that is left. *)
Emit ==
  /\ ~done /\ buf # <<>>
  /\ eof \/ Len(buf) >= MaxSize
  /\ LET window == SubSeq(buf, 1, Min({Len(buf), MaxSize}))
         cut    == FindCut(window)
     IN /\ chunks' = Append(chunks, [offset |-> offset, data |-> SubSeq(window, 1, cut)])
        /\ buf' = SubSeq(buf, cut + 1, Len(buf))
        /\ offset' = offset + cut
  /\ UNCHANGED <<input, pos, eof, done>>

(* Mutant: an empty stream is not the end of one.                          *)
FinishAfterChunk ==
  /\ ~done /\ eof /\ buf = <<>> /\ chunks # <<>>
  /\ done' = TRUE
  /\ UNCHANGED <<input, pos, buf, offset, eof, chunks>>

Finish ==
  /\ ~done /\ eof /\ buf = <<>>
  /\ done' = TRUE
  /\ UNCHANGED <<input, pos, buf, offset, eof, chunks>>

Next == Refill \/ Emit \/ Finish

Spec == Init /\ [][Next]_vars

(* The consumer keeps asking for chunks and read() returns.                *)
FairSpec == Spec /\ WF_vars(Next)

-----------------------------------------------------------------------------
(* Properties. *)

(* What was yielded, and then the buffer, is what was read: no byte is     *)
(* lost, repeated or moved, and every chunk has its own offset             *)
(* (cas/chunker.py chunk_stream: concatenating reproduces the input).      *)
Lossless ==
  /\ buf = SubSeq(input, offset + 1, pos)
  /\ \A k \in 1 .. Len(chunks) :
       LET c == chunks[k] IN
       /\ c.data = SubSeq(input, c.offset + 1, c.offset + Len(c.data))
       /\ c.offset + Len(c.data) =
            IF k = Len(chunks) THEN offset ELSE chunks[k + 1].offset
  /\ chunks # <<>> => chunks[1].offset = 0

(* The hash behind m bytes of a chunk of a stream that begins at o, in     *)
(* closed form: of the bytes behind the minimum size the last Width count, *)
(* each of them twice as much as the one after it.                         *)
Counting(m) == Min({Width, m - MinSize})

WindowSum(stream, o, m) ==
  LET sum[k \in 0 .. Counting(m)] ==
        IF k = 0 THEN 0 ELSE sum[k - 1] + (GEAR[stream[o + m - k + 1]] * 2^(k - 1))
  IN sum

WindowHash(stream, o, m) == WindowSum(stream, o, m)[Counting(m)] % 2^Width

Boundary(stream, o, m) ==
  m > MinSize /\ ZeroAt(WindowHash(stream, o, m), IF m <= AvgSize THEN HardBits ELSE EasyBits)

(* A chunk from o ends at the first boundary behind o, at MaxSize or with  *)
(* the stream.                                                             *)
CutAt(stream, o, n) ==
  /\ n > 0 /\ n <= MaxSize
  /\ \A m \in 1 .. n - 1 : ~Boundary(stream, o, m)
  /\ Boundary(stream, o, n) \/ n = MaxSize \/ o + n = Len(stream)

(* Every chunk ends at the first boundary of the stream behind its offset, *)
(* at MaxSize, or with the stream: where the cuts fall depends on content  *)
(* alone, never on the sizes of the blocks that read() returned. This is   *)
(* what deduplication between two backups of a file rests on               *)
(* (cas/chunker.py: boundaries from the bytes themselves).                 *)
ContentDefined ==
  \A k \in 1 .. Len(chunks) : CutAt(input, chunks[k].offset, Len(chunks[k].data))

(* Every stream is cut to its end.                                         *)
StreamEnds == <>(done /\ offset = Len(input))
=============================================================================
