------------------------------ MODULE Framing ------------------------------
(***************************************************************************)
(* The three length-prefixed formats.  SoupBinTCP: append_packet writes    *)
(* packets into a byte stream, TCP delivers it in arbitrary chunks, and    *)
(* FrameParser takes the packets out again.  Raw ITCH files: append_raw    *)
(* and RawItchReader.  Capture files: CaptureWriter and CaptureReader.     *)
(* Either file may end anywhere: the writer died with part of it in its    *)
(* buffer, or the copy was cut short.                                      *)
(*                                                                         *)
(* A record is a packet (type byte and payload), an ITCH message or a      *)
(* datagram; only a captured datagram has a time.                          *)
(***************************************************************************)
EXTENDS Codec

CONSTANTS Records,      \* for every format, the records that may be written
          CompactAt,    \* 4096 in the code
          MaxRecords,   \* bound on the records written,
          MaxBytes      \* and on the bytes of two or more of them

Format == {"soup", "raw", "capture"}

ASSUME FramingAssumption ==
  /\ {CompactAt, MaxRecords, MaxBytes} \subseteq Nat
  /\ \A format \in Format : \A r \in Records[format] : Len(r.bytes) < Base^2

VARIABLES format,
          written,   \* records written, in order
          open,      \* more may be written
          stream,    \* bytes written and not yet read
          buf, consumed,
          parsed,    \* records the reader has returned, in order
          outcome    \* of reading a file

vars == <<format, written, open, stream, buf, consumed, parsed, outcome>>

(* kCaptureMagic *)
Magic == <<78, 83, 81, 67, 65, 80, 48, 49>>

(* append_packet, append_raw and CaptureWriter::write. *)
Framed(r) ==
  (IF format = "capture" THEN PutBe(r.ts, 8) ELSE << >>)
    \o PutBe(Len(r.bytes), 2) \o r.bytes

Init ==
  /\ format \in Format
  /\ stream = IF format = "capture" THEN Magic ELSE << >>
  /\ written = << >> /\ open = TRUE
  /\ buf = << >> /\ consumed = 0
  /\ parsed = << >>
  /\ outcome = "unopened"

Write(r) ==
  LET bytes == FlattenSeq([i \in DOMAIN written |-> Framed(written[i])])
  IN  /\ open
      /\ Len(written) < MaxRecords
      /\ written # << >> => Len(bytes) + Len(Framed(r)) <= MaxBytes
      /\ written' = Append(written, r)
      /\ stream' = stream \o Framed(r)
      /\ UNCHANGED <<format, open, buf, consumed, parsed, outcome>>

----------------------------------------------------------------------------
(* FrameParser *)

(* push with the n bytes a read returned. *)
Push(n) ==
  /\ buf' = buf \o SubSeq(stream, 1, n)
  /\ stream' = SubSeq(stream, n + 1, Len(stream))
  /\ UNCHANGED <<format, written, open, consumed, parsed, outcome>>

Available == Len(buf) - consumed

(* Mutant: the bytes of the length are swapped. *)
NextLengthLittleEndian == GetBe(<<buf[consumed + 2], buf[consumed + 1]>>)

NextLength == GetBe(SubSeq(buf, consumed + 1, consumed + 2))

(* Mutant: a packet waits for the first byte of the one behind it. *)
CompleteStrictly ==
  /\ Available >= 2
  /\ NextLength >= 1
  /\ Available > 2 + NextLength

Complete ==
  /\ Available >= 2
  /\ NextLength >= 1
  /\ Available >= 2 + NextLength

Compact(end) ==
  IF end > CompactAt /\ 2 * end > Len(buf)
    THEN buf' = SubSeq(buf, end + 1, Len(buf)) /\ consumed' = 0
    ELSE consumed' = end /\ UNCHANGED buf

NextPacket ==
  /\ Complete
  /\ parsed' = Append(parsed, [ts |-> 0,
                               bytes |-> SubSeq(buf, consumed + 3, consumed + 2 + NextLength)])
  /\ Compact(consumed + 2 + NextLength)
  /\ UNCHANGED <<format, written, open, stream, outcome>>

(* on_bytes and poll call next() until it returns nothing. *)
SoupStep ==
  /\ format = "soup"
  /\ (~Complete /\ \E n \in 1 .. Len(stream) : Push(n)) \/ NextPacket

----------------------------------------------------------------------------
(* RawItchReader and CaptureReader *)

(* The file keeps the first n bytes of what was written. *)
Close(n) ==
  /\ format # "soup" /\ open
  /\ open' = FALSE
  /\ stream' = SubSeq(stream, 1, n)
  /\ UNCHANGED <<format, written, buf, consumed, parsed, outcome>>

(* A capture without its magic is not read at all. *)
OpenFile ==
  /\ ~open /\ outcome = "unopened"
  /\ IF format = "raw"
       THEN outcome' = "reading" /\ UNCHANGED stream
       ELSE IF IsPrefix(Magic, stream)
         THEN outcome' = "reading" /\ stream' = SubSeq(stream, Len(Magic) + 1, Len(stream))
         ELSE outcome' = "refused" /\ UNCHANGED stream
  /\ UNCHANGED <<format, written, open, buf, consumed, parsed>>

HeaderBytes == IF format = "raw" THEN 2 ELSE 10

FileLength == GetBe(SubSeq(stream, HeaderBytes - 1, HeaderBytes))

EmptyRecord == Len(stream) >= HeaderBytes /\ FileLength = 0

WholeRecord == Len(stream) >= HeaderBytes /\ Len(stream) >= HeaderBytes + FileLength

(* A raw ITCH message must have a length, and the one of its type. *)
FramingError ==
  /\ format = "raw"
  /\ \/ EmptyRecord
     \/ WholeRecord /\ MessageSize(stream[HeaderBytes + 1]) \notin {0, FileLength}

NextRecord ==
  /\ outcome = "reading"
  /\ IF FramingError
       THEN outcome' = "error" /\ UNCHANGED <<stream, parsed>>
       ELSE IF WholeRecord
         THEN /\ parsed' = Append(parsed,
                   [ts |-> GetBe(SubSeq(stream, 1, HeaderBytes - 2)),
                    bytes |-> SubSeq(stream, HeaderBytes + 1, HeaderBytes + FileLength)])
              /\ stream' = SubSeq(stream, HeaderBytes + FileLength + 1, Len(stream))
              /\ UNCHANGED outcome
         ELSE outcome' = "end" /\ UNCHANGED <<stream, parsed>>
  /\ UNCHANGED <<format, written, open, buf, consumed>>

Read ==
  \/ SoupStep
  \/ \E n \in 0 .. Len(stream) : Close(n)
  \/ OpenFile
  \/ NextRecord

Next == (\E r \in Records[format] : Write(r)) \/ Read

Spec == Init /\ [][Next]_vars

----------------------------------------------------------------------------
(* Properties *)

Unread == SubSeq(written, Len(parsed) + 1, Len(written))

(***************************************************************************)
(* Records come out as they were written, in order, however the stream is  *)
(* cut up, wherever the parser's buffer is compacted and wherever a file   *)
(* ends: what is held and what is under way is the encoding of exactly the *)
(* records not returned yet, of which a file may lack the end.             *)
(***************************************************************************)
ParsedAsWritten ==
  LET left == FlattenSeq([i \in DOMAIN Unread |-> Framed(Unread[i])])
  IN  /\ IsPrefix(parsed, written)
      /\ format = "soup" => SubSeq(buf, consumed + 1, Len(buf)) \o stream = left
      /\ outcome \in {"reading", "end", "error"} => IsPrefix(stream, left)

(***************************************************************************)
(* Nothing that arrived in full is held back: when next() has no more, the *)
(* bytes that have arrived do not hold the next record.  A file's reader   *)
(* reports an error at a malformed message only, and at every one.         *)
(***************************************************************************)
NothingHeldBack ==
  /\ format = "soup" /\ stream = << >> /\ ~Complete => parsed = written
  /\ outcome = "end" /\ Unread # << >> => IsStrictPrefix(stream, Framed(Unread[1]))
  /\ outcome = "error" <=>
       /\ ~open /\ outcome \notin {"unopened", "reading"}
       /\ format = "raw" /\ Unread # << >>
       /\ IsPrefix(Framed(Unread[1]), stream)
       /\ LET msg == Unread[1].bytes
          IN  msg = << >> \/ MessageSize(msg[1]) \notin {0, Len(msg)}

============================================================================
