---------------------------- MODULE OnvifMetadata ----------------------------
(***************************************************************************)
(* OnvifMetadataPayloader: an XML document becomes RTP packets.  A         *)
(* document is a sequence of bytes, each the first of a character or not.  *)
(***************************************************************************)
EXTENDS Naturals, Sequences

CONSTANT PayloadMax     \* the bytes that fit behind the RTP header

ASSUME PayloadAssumption == PayloadMax \in Nat \ {0}

SeqModulus == 65536     \* the numbers of a uint16_t

\* SafeUtf8Chunk: back to the start of a character, unless there is none.
SafeUtf8Chunk(bytes) ==
  IF PayloadMax >= Len(bytes)
  THEN Len(bytes)
  ELSE LET starts == {n \in 1..PayloadMax : bytes[n + 1] = "first"}
       IN  IF starts = {} THEN PayloadMax
           ELSE CHOOSE n \in starts : \A k \in starts : k <= n

\* The packet of the bytes left, with the number WriteRtpHeader gives it, and
\* the payloader once that number is taken.
Packet(payloader, doc, left) ==
  [seq  |-> payloader.seq,
   doc  |-> doc,
   from |-> Len(doc) - Len(left),
   size |-> SafeUtf8Chunk(left),
   marker |-> SafeUtf8Chunk(left) = Len(left)]

NextNumber(payloader) ==
  [payloader EXCEPT !.seq = (@ + 1) % SeqModulus]

Rest(left) == SubSeq(left, SafeUtf8Chunk(left) + 1, Len(left))
==============================================================================
