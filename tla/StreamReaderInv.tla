--------------------------- MODULE StreamReaderInv ---------------------------
(***************************************************************************)
(* The inductive invariant of StreamReader: BaseInv holds of every file,   *)
(* EvenInv says where a download stands in a file of even parts.           *)
(***************************************************************************)
EXTENDS StreamReader

Statuses  == {"none", "refused", "open", "reading", "crashed"} \cup Ended
Producers == {"none", "fetch", "push", "closed"}
Chunk     == {c \in [from : Int, to : Int] : c.from <= c.to}
Digits    == [1..NonceDigits -> 0..(Base - 1)]

ReqTyped ==
  /\ req \in [st : Statuses, file : Files, enc : BOOLEAN, nonce : Nonces,
              start : Int, end : Int, first : Int, last : Int]
  /\ pos \in Nat /\ given \in Nat /\ wrong \in BOOLEAN /\ faulted \in BOOLEAN
SrcTyped ==
  /\ src \in [limit : Int, offset : Int, chunk : Nat \ {0}, left : Int, right : Int,
              total : Int, current : Nat]
  /\ producer \in Producers /\ (producer = "fetch" => src.current < src.total)
  /\ batch \in Seq(Chunk) /\ Len(batch) <= Concurrency
  /\ buffers \in Seq(Chunk) /\ Len(buffers) <= Buffers
  /\ cur \in Chunk
DecTyped ==
  dec \in [st : {"off", "header", "fill", "serve"}, limit : Int, discard : Int,
           nonce : Digits \cup {<<>>}, held : Chunk, from : Int, to : Int, ok : BOOLEAN]

\* The range is what the client asked for, and given is part of it.
Asked ==
  req.st \in {"open", "reading", "whole"} =>
    /\ req.start \in Nat /\ req.start <= req.end /\ req.end < SizeOf(req.file)
    /\ req.start..req.end =
         {b \in 0..(SizeOf(req.file) - 1) :
            IF req.first = NoValue THEN b >= SizeOf(req.file) - req.last
            ELSE b >= req.first /\ (req.last = NoValue \/ b <= req.last)}
Within ==
  /\ given <= SizeOf(req.file)
  /\ req.st \in {"none", "refused"} => given = 0 /\ ~wrong /\ src.limit >= 0
  /\ req.st \in {"open", "reading"} => given <= req.end - req.start
  /\ req.st = "whole" => given = req.end - req.start + 1

\* The part being read is one of the range, and only then a source is open.
Reads ==
  /\ req.st \in {"open", "reading"} => req.start < (pos + 1) * PartSizes[1]
  /\ req.st = "reading" => HasPart
  /\ producer \in {"fetch", "push"} => req.st = "reading"
Decrypting ==
  req.st = "reading" =>
    /\ req.enc <=> dec.st # "off"
    /\ req.enc => dec.limit > 0
    /\ dec.st = "header" => Length(dec.held) < FileHeader
    /\ dec.st \in {"fill", "serve"} => dec.nonce \in Digits /\ Length(dec.held) < BlockSize

\* The rest is of files whose parts are as long as the first, but the last.
Place ==
  /\ req.st \in {"short", "failed", "crashed"} => faulted
  /\ ~wrong
  /\ req.st # "reading" => src.limit >= 0
  /\ req.st = "open" => req.start + given = pos * PartSizes[1] + PartStart(pos)

\* The next byte of the part for the client, the end of the source and the next byte of it.
Here  == req.start + given - pos * PartSizes[1]
Stop  == src.offset + (src.total - src.current - 1) * src.chunk + src.right
At    == Stop - src.limit

Spans(x, s, y) ==
  IF s = <<>> THEN x = y
  ELSE /\ s[1].from = x /\ s[Len(s)].to = y
       /\ \A i \in 1..Len(s) : s[i].from < s[i].to /\ s[i].to <= y
       /\ \A i \in 1..(Len(s) - 1) : s[i].to = s[i + 1].from

\* Where the chunks that wait begin, those of the batch, and those not fetched.
Waiting == IF Length(cur) > 0 THEN cur.to ELSE At
Ahead   == IF src.current >= src.total THEN Stop
           ELSE IF producer # "push" THEN src.offset + IF src.current = 0 THEN src.left ELSE 0
           ELSE IF src.current + Concurrency < src.total
                THEN src.offset + src.chunk * Concurrency ELSE Stop
Fetched == IF batch = <<>> THEN Ahead ELSE batch[1].from

InLine ==
  /\ src.limit >= 0 /\ src.offset >= 0
  /\ src.left \in 0..(src.chunk - 1) /\ src.right \in 1..src.chunk
  /\ src.current = 0 /\ src.total = 1 => src.left < src.right
  /\ Length(cur) > 0 => cur.from = At /\ cur.to <= Stop
  /\ Spans(Waiting, buffers, Fetched) /\ Spans(Fetched, batch, Ahead)
  /\ Fetched <= Ahead /\ Ahead <= Stop
  /\ producer # "push" => batch = <<>>
  /\ producer # "none"
  /\ producer = "closed" => faulted \/ src.current >= src.total
Source == req.st = "reading" => InLine /\ Stop <= Stored(pos)

Plain ==
  req.st = "reading" /\ ~req.enc => Stop = PartEnd(pos) + 1 /\ At = Here

\* The block of a byte, where it is stored, and where what is read ends.
BlockOf(x)  == x \div BlockData
BlockAt(b)  == FileHeader + b * BlockSize
LastStop    == Least(Stored(pos), BlockAt(BlockOf(PartEnd(pos)) + 1))

Header ==
  req.st = "reading" /\ req.enc /\ dec.st = "header" =>
    /\ At = Length(dec.held) /\ At < FileHeader
    /\ Here = PartStart(pos) /\ dec.discard = Here % BlockData /\ dec.ok
    /\ Stop = IF Here > 0 THEN FileHeader ELSE LastStop
Block ==
  req.st = "reading" /\ req.enc =>
    /\ Here \in PartStart(pos)..PartEnd(pos) /\ dec.limit = PartEnd(pos) + 1 - Here
    /\ dec.st = "fill" =>
         /\ dec.ok /\ dec.discard = Here % BlockData /\ Stop = LastStop
         /\ dec.nonce = Seals(req.nonce)[BlockOf(Here)]
         /\ IF Length(dec.held) = 0 THEN At = BlockAt(BlockOf(Here))
            ELSE /\ dec.held.from = BlockAt(BlockOf(Here)) /\ dec.held.to = At
                 /\ At < Stop /\ Length(dec.held) < BlockSize
    /\ dec.st = "serve" =>
         /\ dec.ok /\ dec.discard = 0 /\ Stop = LastStop
         /\ dec.nonce = Seals(req.nonce)[BlockOf(Here) + 1]
         /\ Length(dec.held) = 0 /\ dec.from = Here /\ dec.from < dec.to
         /\ dec.to = Least((BlockOf(Here) + 1) * BlockData, PartSizes[pos + 1])
         /\ At = Least(BlockAt(BlockOf(Here) + 1), Stored(pos))

EvenInv == Even => Place /\ Source /\ Plain /\ Header /\ Block
BaseInv == ReqTyped /\ SrcTyped /\ DecTyped /\ Asked /\ Within /\ Reads /\ Decrypting
ReadInv == BaseInv /\ EvenInv
==============================================================================
