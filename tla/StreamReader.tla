---------------------------- MODULE StreamReader -----------------------------
(***************************************************************************)
(* One download: the byte range of a file, cut into ranges of its parts;   *)
(* a part is read in chunks, which a goroutine fetches in batches and      *)
(* hands over through a channel; an encrypted part is read block by block, *)
(* each block sealed with a nonce of its own.  Bytes are positions: a      *)
(* buffer is the interval from..to-1 of the stored part.                   *)
(***************************************************************************)
EXTENDS Integers, Sequences

CONSTANTS
  Files,        \* files: the plain sizes of their parts, in order
  BlockData, BlockHeader, FileHeader,  \* 65536, 16 and 34 bytes
  MinChunk, MaxChunk,                  \* 1024 and 1048576 bytes
  Concurrency, Buffers,                \* chunks fetched together, and kept
  CopyBuffer,                          \* bytes io.CopyN asks for at a time
  Base, LowDigits, NonceDigits,        \* 256, 8 and 24
  Nonces        \* nonces of parts, NonceDigits digits, the lowest first

ASSUME ReaderAssumption ==
  /\ Files \subseteq Seq(Nat \ {0}) /\ <<>> \notin Files /\ Files # {}
  /\ {BlockData, BlockHeader, FileHeader, MinChunk, MaxChunk, Concurrency, Buffers, CopyBuffer}
       \subseteq Nat \ {0}
  /\ Base \in Nat \ {0, 1} /\ NonceDigits \in Nat /\ LowDigits \in 1..NonceDigits
  /\ Nonces \subseteq [1..NonceDigits -> 0..(Base - 1)] /\ Nonces # {}

VARIABLES
  req,      \* [st, file, enc, nonce, start, end, first, last]: the request
  pos,      \* part being read, from 0
  given,    \* bytes written to the client
  wrong,    \* history: a byte was not the one at its position
  src,      \* the multi reader: [limit, offset, chunk, left, right, total, current]
  producer, \* its goroutine: "none", "fetch", "push", "closed"
  batch,    \* chunks fetched and not handed over
  buffers,  \* bufferChan
  cur,      \* chunk being read
  dec,      \* the decrypter: [st, limit, discard, nonce, held, from, to, ok]
  faulted   \* history: a fetch failed, or the client went away

readVars == <<req, pos, given, wrong, src, producer, batch, buffers, cur, dec, faulted>>

Least(a, b)  == IF a < b THEN a ELSE b
BlockSize    == BlockHeader + BlockData
Nothing      == [from |-> 0, to |-> 0]
Length(b)    == b.to - b.from
NoValue      == -1

-----------------------------------------------------------------------------
(* Sizes.                                                                  *)

\* Whole blocks, and a shorter one for the rest.
EncryptedSize(size) ==
  FileHeader + (size \div BlockData) * BlockSize
  + IF size % BlockData # 0 THEN BlockHeader + (size % BlockData) ELSE 0

DecryptedSize(size) ==
  LET blocks == (size - FileHeader) \div BlockSize
      rest   == (size - FileHeader) % BlockSize IN
  blocks * BlockData + IF rest = 0 THEN 0 ELSE rest - BlockHeader

SizeOf(file) == LET sum[p \in 0..Len(file)] == IF p = 0 THEN 0 ELSE sum[p - 1] + file[p]
                IN sum[Len(file)]
PartSizes == req.file
Stored(p) == IF req.enc THEN EncryptedSize(PartSizes[p + 1]) ELSE PartSizes[p + 1]

\* NewReader takes every part to be as long as the first.
PartSize == IF req.enc THEN DecryptedSize(Stored(0)) ELSE Stored(0)

\* Parse: "first-last", either of them absent; several ranges are refused.
Parse(size, first, last) ==
  LET start == IF first = NoValue THEN size - last ELSE first
      end   == IF first = NoValue \/ last = NoValue THEN size - 1 ELSE Least(last, size - 1) IN
  [ok |-> start <= end /\ start >= 0, start |-> start, end |-> end]

\* calculatePartByteRanges: the range within part p.
PartStart(p) == IF req.start > p * PartSize THEN req.start - p * PartSize ELSE 0
PartEnd(p)   == Least(PartSize - 1, req.end - p * PartSize)
HasPart      == pos <= req.end \div PartSize /\ pos < Len(PartSizes)

\* calculateUnderlying.  OneBlock is a faulty variant that forgets the blocks
\* after the first.
OneBlock(limit, discard) == 1
BlocksToRead(limit, discard) ==
  LET more == limit - (BlockData - discard) IN
  1 + IF more > 0 THEN (more + BlockData - 1) \div BlockData ELSE 0
UnderlyingLimit(limit, discard) == BlocksToRead(limit, discard) * BlockSize

-----------------------------------------------------------------------------
(* Nonces: numbers of NonceDigits digits, the lowest first.                *)

\* A digit changes when every digit before it, from i on, overflows.
Carry(n, i) ==
  [k \in DOMAIN n |-> IF k >= i /\ \A j \in i..(k - 1) : n[j] = Base - 1
                      THEN (n[k] + 1) % Base ELSE n[k]]
Increment(n) == Carry(n, 1)

\* What a digit is worth, and the number that the first k digits make.
Worth    == LET worth[k \in Nat] == IF k = 0 THEN 1 ELSE worth[k - 1] * Base IN worth

\* A part has fewer blocks than the low digits can count (2^64).
ASSUME BlocksAssumption ==
  \A f \in Files : \A p \in DOMAIN f : f[p] \div BlockData < Worth[LowDigits]

Value(n) == LET value[k \in 0..NonceDigits] ==
                  IF k = 0 THEN 0 ELSE value[k - 1] + n[k] * Worth[k - 1] IN value

\* add: to the low digits, and a carry into the others.
Add(n, x) ==
  LET sum == Value(n)[LowDigits] + x
      low == [k \in DOMAIN n |->
                IF k <= LowDigits THEN (sum \div Worth[k - 1]) % Base ELSE n[k]] IN
  IF sum >= Worth[LowDigits] THEN Carry(low, LowDigits + 1) ELSE low

\* The encrypter increments the nonce after every block it seals.
Seals(n) == LET nonce[b \in Nat] == IF b = 0 THEN n ELSE Increment(nonce[b - 1]) IN nonce
SealedWith(block) == Seals(req.nonce)[block]

-----------------------------------------------------------------------------
(* The multi reader.                                                       *)

\* MaxChunk is halved until it is small enough.
Halved == LET chunk[k \in Nat] == IF k = 0 THEN MaxChunk ELSE chunk[k - 1] \div 2 IN chunk
CalculateChunkSize(start, end) ==
  LET Enough(k) == Halved[k] <= MinChunk \/ Halved[k] <= end - start IN
  Halved[CHOOSE k \in 0..MaxChunk : Enough(k) /\ \A j \in 0..(k - 1) : ~Enough(j)]

\* newTGMultiReader, on start..end of the stored part.
OpenSource(start, end) ==
  LET chunk  == CalculateChunkSize(start, end)
      offset == start - (start % chunk) IN
  /\ src' = [limit |-> end - start + 1, offset |-> offset, chunk |-> chunk,
             left |-> start - offset, right |-> (end % chunk) + 1,
             total |-> (end - offset + chunk) \div chunk, current |-> 0]
  /\ producer' = IF end < offset THEN "closed" ELSE "fetch"
  /\ batch' = <<>> /\ buffers' = <<>> /\ cur' = Nothing

\* fillBatch: the first and the last chunk are cut.
Cut(i, from, to) ==
  [from |-> IF i = 0 THEN from + src.left ELSE from,
   to   |-> IF i + 1 = src.total THEN from + src.right ELSE to]
ChunkOf(k) ==
  LET from == src.offset + k * src.chunk IN
  Cut(src.current + k, from, Least(from + src.chunk, Stored(pos)))

InBatch    == 0..(Least(Concurrency, src.total - src.current) - 1)
Exists(k)  == LET c == ChunkOf(k) IN c.from <= c.to /\ c.to <= Stored(pos)

FetchBatch ==
  /\ producer = "fetch" /\ \A k \in InBatch : Exists(k)
  /\ batch' = [k \in 1..Least(Concurrency, src.total - src.current) |-> ChunkOf(k - 1)]
  /\ producer' = "push"
  /\ UNCHANGED <<req, pos, given, wrong, src, buffers, cur, dec, faulted>>

\* A chunk fails, or does not come in time: the stream is abandoned.  LeftOpen
\* is a faulty variant that does not close the channel.
LeftOpen  == "none"
Abandoned == "closed"
FetchFails ==
  /\ producer = "fetch"
  /\ producer' = Abandoned /\ faulted' = TRUE
  /\ UNCHANGED <<req, pos, given, wrong, src, batch, buffers, cur, dec>>

\* A part that is shorter than the first has no such bytes: cutting the chunk
\* panics, and the program stops.
FetchPanics ==
  /\ producer = "fetch" /\ \E k \in InBatch : ~Exists(k)
  /\ req' = [req EXCEPT !.st = "crashed"] /\ producer' = "closed"
  /\ UNCHANGED <<pos, given, wrong, src, batch, buffers, cur, dec, faulted>>

\* The channel has room; AnyRoom is a faulty variant.
AnyRoom == TRUE
Room    == Len(buffers) < Buffers
HandOver ==
  /\ producer = "push" /\ batch # <<>> /\ Room
  /\ buffers' = Append(buffers, Head(batch)) /\ batch' = Tail(batch)
  /\ UNCHANGED <<req, pos, given, wrong, src, producer, cur, dec, faulted>>

NextBatch ==
  /\ producer = "push" /\ batch = <<>>
  /\ src' = [src EXCEPT !.current = @ + Concurrency, !.offset = @ + src.chunk * Concurrency]
  /\ producer' = IF src.current + Concurrency < src.total THEN "fetch" ELSE "closed"
  /\ UNCHANGED <<req, pos, given, wrong, batch, buffers, cur, dec, faulted>>

\* tgMultiReader.Read: at most want bytes of the chunk at hand.
AtHand      == IF Length(cur) > 0 THEN cur ELSE Head(buffers)
Piece(want) == [from |-> AtHand.from, to |-> Least(AtHand.from + want, AtHand.to)]
SourceReads(want) ==
  /\ src.limit > 0 /\ (Length(cur) > 0 \/ buffers # <<>>)
  /\ cur' = [AtHand EXCEPT !.from = Piece(want).to]
  /\ buffers' = IF Length(cur) > 0 THEN buffers ELSE Tail(buffers)
  /\ src' = [src EXCEPT !.limit = @ - Length(Piece(want))]
  /\ UNCHANGED <<producer, batch>>
NoMore == src.limit > 0 /\ Length(cur) <= 0 /\ buffers = <<>> /\ producer = "closed"

-----------------------------------------------------------------------------
(* The reader and the client.                                              *)

NoDecrypter == [st |-> "off", limit |-> 0, discard |-> 0, nonce |-> <<>>, held |-> Nothing,
                from |-> 0, to |-> 0, ok |-> TRUE]
NoSource == [limit |-> 0, offset |-> 0, chunk |-> 1, left |-> 0, right |-> 0, total |-> 0,
             current |-> 0]

\* The readers of a part are closed and the goroutine stops: a request ends, or
\* goes on with the next part.
Close ==
  /\ dec' = NoDecrypter /\ src' = NoSource /\ producer' = "none"
  /\ batch' = <<>> /\ buffers' = <<>> /\ cur' = Nothing
Ends(st)       == Close /\ req' = [req EXCEPT !.st = st]
MoveToNextPart == Close /\ req' = [req EXCEPT !.st = "open"] /\ pos' = pos + 1

\* streamFile with a range or without one.
Begin(file, enc, nonce, first, last) ==
  LET range == Parse(SizeOf(file), first, last) IN
  /\ req.st = "none"
  /\ req' = [st |-> IF range.ok THEN "open" ELSE "refused", file |-> file,
             enc |-> enc, nonce |-> nonce, start |-> range.start, end |-> range.end,
             first |-> first, last |-> last]
  /\ pos' = IF range.ok THEN range.start \div PartSize' ELSE 0
  /\ UNCHANGED <<given, wrong, src, producer, batch, buffers, cur, dec, faulted>>

\* getPartReader, with newDecrypterSeek: from the first byte the header and the
\* blocks in one go, otherwise the header on its own.  (A multi reader of the
\* plain range is opened before and left alone until the request ends.)
OpenPart ==
  LET start == PartStart(pos)
      limit == PartEnd(pos) - start + 1 IN
  /\ req.st = "open" /\ HasPart
  /\ req' = [req EXCEPT !.st = "reading"]
  /\ IF ~req.enc THEN OpenSource(start, PartEnd(pos)) /\ dec' = NoDecrypter
     ELSE /\ dec' = [NoDecrypter EXCEPT !.st = "header", !.limit = limit,
                                        !.discard = start % BlockData]
          /\ OpenSource(0, IF start > 0 THEN FileHeader - 1
                           ELSE Least(Stored(pos), FileHeader + UnderlyingLimit(limit, 0)) - 1)
  /\ UNCHANGED <<pos, given, wrong, faulted>>

\* Bytes from..to-1 of the plain part are written; at the end of a part's range
\* the next part is opened.
Left(size) == req.end - req.start + 1 - given - size
Gives(from, to, ok, ended) ==
  /\ given' = given + (to - from)
  /\ wrong' = (wrong \/ ~ok \/ pos * PartSize + from # req.start + given)
  /\ Left(to - from) <= 0 => Ends("whole") /\ UNCHANGED pos
  /\ Left(to - from) > 0 =>
       IF ended THEN MoveToNextPart ELSE UNCHANGED <<req, pos>>

\* An unencrypted part: EOF comes with the last byte of the range.
CopyPlain ==
  LET piece == Piece(Least(CopyBuffer, Left(0)))
      ended == src.limit <= Length(piece) IN
  /\ req.st = "reading" /\ ~req.enc /\ src.limit > 0 /\ (Length(cur) > 0 \/ buffers # <<>>)
  /\ Gives(piece.from, piece.to, TRUE, ended)
  /\ Left(Length(piece)) > 0 /\ ~ended => SourceReads(Length(piece)) /\ UNCHANGED dec
  /\ UNCHANGED faulted

\* No range is left, or the file has no such part: the client gets less.
OutOfParts ==
  /\ req.st = "open" /\ ~HasPart /\ Ends("short")
  /\ UNCHANGED <<pos, given, wrong, faulted>>

SourceFails ==
  /\ req.st = "reading" /\ NoMore /\ Ends("failed")
  /\ UNCHANGED <<pos, given, wrong, faulted>>

Disconnect ==
  /\ req.st \in {"open", "reading"} /\ Ends("gone") /\ faulted' = TRUE
  /\ UNCHANGED <<pos, given, wrong>>

-----------------------------------------------------------------------------
(* The decrypter.                                                          *)

\* readFill: pieces are put together until there are enough bytes, or no more.
Holding(piece) == IF Length(dec.held) = 0 THEN piece ELSE [dec.held EXCEPT !.to = @ + Length(piece)]
Fits(piece)    == Length(dec.held) = 0 \/ dec.held.to = piece.from
Filled(piece, size) == Length(Holding(piece)) = size \/ src.limit <= Length(piece)

\* newDecrypter reads the header, RangeSeek goes to the block of the first byte.
ReadHeader ==
  LET piece  == Piece(FileHeader - Length(dec.held))
      start  == PartStart(pos)
      blocks == start \div BlockData
      offset == FileHeader + blocks * BlockSize IN
  /\ req.st = "reading" /\ dec.st = "header" /\ src.limit > 0 /\ (Length(cur) > 0 \/ buffers # <<>>)
  /\ IF Length(Holding(piece)) < FileHeader
     THEN dec' = [dec EXCEPT !.held = Holding(piece)] /\ SourceReads(Length(piece))
     ELSE /\ dec' = [dec EXCEPT !.st = "fill", !.held = Nothing,
                                !.nonce = IF start = 0 THEN req.nonce ELSE Add(req.nonce, blocks)]
          /\ IF start = 0 THEN SourceReads(Length(piece))
             ELSE OpenSource(offset,
                    Least(Stored(pos), offset + UnderlyingLimit(dec.limit, dec.discard)) - 1)
  /\ UNCHANGED <<req, pos, given, wrong, faulted>>

\* secretbox.Open: the block must be whole, at its place, and sealed with the
\* nonce; a block that does not open is handed on as zeros.
Opens(block) ==
  LET index == (block.from - FileHeader) \div BlockSize IN
  /\ (block.from - FileHeader) % BlockSize = 0
  /\ block.to = Least(block.from + BlockSize, Stored(pos))
  /\ dec.nonce = SealedWith(index)
PlainFrom(block) == ((block.from - FileHeader) \div BlockSize) * BlockData

\* KeptNonce is a faulty variant.
KeptNonce(n)    == n
NextNonce(n)    == Increment(n)
Skipping(block) == PlainFrom(block) + dec.discard

\* decrypter.fillBuffer.
FillBlock ==
  LET piece == Piece(BlockSize - Length(dec.held))
      block == Holding(piece)
      size  == Length(block) - BlockHeader IN
  /\ req.st = "reading" /\ dec.st = "fill" /\ src.limit > 0 /\ (Length(cur) > 0 \/ buffers # <<>>)
  /\ \/ /\ ~Filled(piece, BlockSize)
        /\ dec' = [dec EXCEPT !.held = block, !.ok = @ /\ Fits(piece)]
        /\ SourceReads(Length(piece)) /\ UNCHANGED req
     \/ /\ Filled(piece, BlockSize) /\ size > 0 /\ dec.discard <= size
        /\ dec' = [dec EXCEPT !.st = IF dec.discard < size THEN "serve" ELSE "fill",
                              !.held = Nothing, !.discard = 0, !.nonce = NextNonce(@),
                              !.ok = @ /\ Fits(piece) /\ Opens(block), !.from = Skipping(block),
                              !.to = PlainFrom(block) + size]
        /\ SourceReads(Length(piece)) /\ UNCHANGED req
     \/ Filled(piece, BlockSize) /\ (size <= 0 \/ dec.discard > size) /\ Ends("failed")
  /\ UNCHANGED <<pos, given, wrong, faulted>>

\* decrypter.Read: EOF comes with the last byte of the limit.
CopyDecrypted ==
  LET size == Least(Least(CopyBuffer, Left(0)), Least(dec.to - dec.from, dec.limit)) IN
  /\ req.st = "reading" /\ dec.st = "serve" /\ dec.from < dec.to
  /\ Gives(dec.from, dec.from + size, dec.ok, size = dec.limit)
  /\ Left(size) > 0 /\ size # dec.limit =>
       /\ dec' = [dec EXCEPT !.from = @ + size, !.limit = @ - size,
                             !.st = IF dec.from + size = dec.to THEN "fill" ELSE "serve"]
       /\ UNCHANGED <<src, producer, batch, buffers, cur>>
  /\ UNCHANGED faulted

\* No more stored bytes: EOF before the limit.
BlocksEnd ==
  /\ req.st = "reading" /\ dec.st = "fill" /\ src.limit <= 0 /\ MoveToNextPart
  /\ UNCHANGED <<given, wrong, faulted>>

-----------------------------------------------------------------------------
ReadInit ==
  /\ req = [st |-> "none", file |-> CHOOSE f \in Files : TRUE, enc |-> FALSE,
            nonce |-> CHOOSE n \in Nonces : TRUE, start |-> 0, end |-> 0,
            first |-> 0, last |-> NoValue]
  /\ pos = 0 /\ given = 0 /\ wrong = FALSE /\ src = NoSource /\ producer = "none"
  /\ batch = <<>> /\ buffers = <<>> /\ cur = Nothing /\ dec = NoDecrypter /\ faulted = FALSE

\* Ranges of the request: a number may be absent, but not both.
ReadNext ==
  \/ \E file \in Files, enc \in BOOLEAN, nonce \in Nonces :
       \E first, last \in {NoValue} \cup 0..(SizeOf(file) + 1) :
         <<first, last>> # <<NoValue, NoValue>> /\ Begin(file, enc, nonce, first, last)
  \/ OpenPart \/ CopyPlain \/ SourceFails \/ Disconnect
  \/ FetchBatch \/ FetchFails \/ FetchPanics \/ HandOver \/ NextBatch
  \/ ReadHeader \/ FillBlock \/ CopyDecrypted \/ OutOfParts \/ BlocksEnd

\* A fetch answers, fails or times out; the goroutine and the handler go on.
Producing == FetchBatch \/ FetchFails \/ FetchPanics \/ HandOver \/ NextBatch
Reading   == OpenPart \/ CopyPlain \/ SourceFails \/ ReadHeader \/ FillBlock
             \/ CopyDecrypted \/ OutOfParts \/ BlocksEnd
ReadSpec == ReadInit /\ [][ReadNext]_readVars /\ WF_readVars(Producing) /\ WF_readVars(Reading)

-----------------------------------------------------------------------------
Ended == {"whole", "short", "failed", "gone"}
Even == \A p \in DOMAIN PartSizes : /\ PartSizes[p] <= PartSizes[1]
                                    /\ p < Len(PartSizes) => PartSizes[p] = PartSizes[1]

ReadTypeOK ==
  /\ req.st \in {"none", "refused", "open", "reading", "crashed"} \cup Ended
  /\ pos \in Nat /\ given \in 0..SizeOf(req.file)
  /\ (Even => src.limit >= 0) /\ Len(buffers) <= Buffers /\ Len(batch) <= Concurrency
  /\ producer \in {"none", "fetch", "push", "closed"}

\* A client is given the bytes it asked for, in order, and nothing else: where
\* the range begins, on a boundary of chunks, blocks or parts, does not matter,
\* as long as every part but the last is as long as the first
\* (calculatePartByteRanges, the cuts of fillBatch, calculateUnderlying, the
\* nonces).
InOrder ==
  /\ Even => ~wrong
  /\ req.st \in {"open", "reading", "whole"} =>
       req.start..req.end =
         {b \in 0..(SizeOf(req.file) - 1) :
            IF req.first = NoValue THEN b >= SizeOf(req.file) - req.last
            ELSE b >= req.first /\ (req.last = NoValue \/ b <= req.last)}

\* A download that nothing disturbed ends with the last byte asked for, not
\* with an error and not before.
WholeUnlessDisturbed ==
  /\ req.st = "whole" => given = req.end - req.start + 1
  /\ req.st \in {"short", "failed", "crashed"} => faulted \/ ~Even

\* Every download ends, whatever the sizes of batches and of the channel.
DownloadEnds == req.st \in {"open", "reading"} ~> req.st \in Ended \cup {"crashed"}
=============================================================================
