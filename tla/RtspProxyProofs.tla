--------------------------- MODULE RtspProxyProofs ---------------------------
(***************************************************************************)
(* Proofs about RtspProxy, for any documents, payload sizes, first numbers *)
(* and medias, and fewer documents than a sequence number has values.      *)
(***************************************************************************)
EXTENDS RtspProxy, WellFoundedInduction, TLAPS

Bytes == {"first", "next"}

(***************************************************************************)
(* Every payloader is for a source of its own: the one in the map is for a *)
(* media that was made and configured, and a source that is not configured *)
(* yet has taken nothing.                                                  *)
(***************************************************************************)
Numbers == {n \in Nat : n < SeqModulus}

Payloader == [source : 1..MaxMedia, seq : Numbers]

Unused(m) == m > medias \/ (viewer = "calling" /\ m = medias)

SourcesOK ==
  /\ medias \in Nat /\ medias <= MaxMedia
  /\ viewer = "found" => medias < MaxMedia
  /\ viewer = "calling" => medias > 0
  /\ payloader = << >> \/ \E p \in Payloader : payloader = << p >> /\ ~Unused(p.source)
  /\ \A m \in 1..MaxMedia : Unused(m) => got[m] = << >>

(***************************************************************************)
(* The lock is held as long as a document is being sent.  What is left of  *)
(* it is its end.                                                          *)
(***************************************************************************)
EndOf(left, doc) ==
  /\ left \in Seq(Bytes) /\ Len(left) <= Len(doc)
  /\ \A i \in 1..Len(left) : left[i] = doc[Len(doc) - Len(left) + i]

Left(s) == \E d \in Documents, l \in Seq(Bytes) :
             s = << [doc |-> d, left |-> l] >> /\ EndOf(l, d)

SendingOK ==
  /\ mutex \in BOOLEAN
  /\ mutex <=> sending # << >>
  /\ sending # << >> => target = payloader /\ payloader # << >> /\ Left(sending) /\ sent > 0
  /\ sent \in Nat /\ sent <= MaxDocuments

(***************************************************************************)
(* The packets that a source has taken.                                    *)
(***************************************************************************)
PacketType == [seq : Numbers, doc : Documents, from : Nat, size : Nat, marker : BOOLEAN]

Sound(s) == /\ s \in Seq(PacketType)
            /\ \A i \in 1..Len(s) : SplitsCharacter(s[i]) => Splittable(s[i])

PacketsOK == got \in [1..MaxMedia -> Seq(PacketType)] /\ \A m \in 1..MaxMedia : Sound(got[m])

Follows(p, q, c) ==
  q.seq = (p.seq + 1) % SeqModulus =>
    \/ IF p.marker THEN q.from = 0 ELSE q.doc = p.doc /\ q.from = p.from + p.size
    \/ q.seq \in c /\ q.from = 0

Linked(s, c) == \A i \in 1..(Len(s) - 1) : Follows(s[i], s[i + 1], c)

(***************************************************************************)
(* The next packet, of what s says is being sent, goes on where packet p   *)
(* ended; or a packet got no buffer at the number n, and the next one      *)
(* begins a document.                                                      *)
(***************************************************************************)
Fresh(s) == s # << >> => Len(s[1].left) = Len(s[1].doc)

GoesOn(p, n, s, c) ==
  \/ IF p.marker
     THEN Fresh(s)
     ELSE /\ s # << >> /\ s[1].doc = p.doc
          /\ Len(s[1].doc) - Len(s[1].left) = p.from + p.size
  \/ n \in c /\ Fresh(s)

(***************************************************************************)
(* Between the last packet that the source of the payloader took and the   *)
(* next number n lie the g pushes that were refused since, at most one per *)
(* document that is over.                                                  *)
(***************************************************************************)
Over(s, t) == IF s = << >> THEN t ELSE t - 1

Gap(last, n, g, s, t, c) ==
  /\ g <= Over(s, t)
  /\ n = (last.seq + 1 + g) % SeqModulus
  /\ g = 0 => GoesOn(last, n, s, c)

NoSurprise(q, p, s, t, c) ==
  /\ Linked(q, c)
  /\ p # << >> /\ q # << >> => \E g \in Nat : Gap(q[Len(q)], p[1].seq, g, s, t, c)

Own(p, m) == IF p # << >> /\ p[1].source = m THEN p ELSE << >>

NumbersOK ==
  \A m \in 1..MaxMedia : NoSurprise(got[m], Own(payloader, m), sending, sent, cut[m])

CutsOK == cut \in [1..MaxMedia -> SUBSET Numbers]

ProxyInvariant == SourcesOK /\ SendingOK /\ PacketsOK /\ CutsOK /\ NumbersOK

------------------------------------------------------------------------------
(***************************************************************************)
(* A set of numbers with an upper bound has a greatest element.            *)
(***************************************************************************)
LEMMA Greatest ==
  ASSUME NEW max \in Nat, NEW S, S \subseteq 0..max, S # {}
  PROVE  \E n \in S : \A k \in S : k <= n
<1> DEFINE T == {max - n : n \in S}
           R == {p \in Nat \X Nat : p[1] < p[2]}
<1>1. IsWellFoundedOn(R, Nat)
  <2>1. R = OpToRel(<, Nat)
    BY DEF OpToRel
  <2>2. QED
    BY <2>1, NatLessThanWellFounded
<1>2. T \subseteq Nat /\ T # {}
  <2>1. \A n \in S : max - n \in Nat
    OBVIOUS
  <2>2. PICK n \in S : TRUE
    OBVIOUS
  <2>3. max - n \in T
    OBVIOUS
  <2>4. T \subseteq Nat
    BY <2>1
  <2>5. QED
    BY <2>3, <2>4
<1>3. PICK x \in T : \A y \in T : ~(<<y, x>> \in R)
  <2> HIDE DEF T, R
  <2>1. QED
    BY <1>1, <1>2, WFMin
<1>4. PICK n \in S : x = max - n
  OBVIOUS
<1>5. ASSUME NEW k \in S PROVE k <= n
  <2>1. max - k \in T /\ max - k \in Nat /\ x \in Nat
    BY <1>2
  <2>2. ~(max - k < x)
    BY <1>3, <2>1
  <2>3. QED
    BY <1>4, <2>1, <2>2
<1>6. QED
  BY <1>5

(***************************************************************************)
(* A chunk is all that is left, or ends before a character, or there is no *)
(* character to end at in what a packet can hold.                          *)
(***************************************************************************)
LEMMA ChunkFacts ==
  ASSUME NEW b \in Seq(Bytes)
  PROVE  /\ SafeUtf8Chunk(b) \in Nat
         /\ \/ SafeUtf8Chunk(b) = Len(b)
            \/ /\ SafeUtf8Chunk(b) \in 1..PayloadMax /\ PayloadMax < Len(b)
               /\ \/ b[SafeUtf8Chunk(b) + 1] = "first"
                  \/ \A n \in 1..PayloadMax : b[n + 1] = "next"
<1> DEFINE S == {n \in 1..PayloadMax : b[n + 1] = "first"}
<1>1. Len(b) \in Nat /\ PayloadMax \in Nat \ {0}
  BY PayloadAssumption
<1>2. CASE PayloadMax >= Len(b)
  BY <1>1, <1>2 DEF SafeUtf8Chunk
<1>3. CASE PayloadMax < Len(b) /\ S = {}
  <2>1. SafeUtf8Chunk(b) = PayloadMax
    BY <1>1, <1>3 DEF SafeUtf8Chunk
  <2>2. ASSUME NEW n \in 1..PayloadMax PROVE b[n + 1] = "next"
    <3>1. n + 1 \in 1..Len(b)
      BY <1>1, <1>3
    <3>2. b[n + 1] \in Bytes /\ n \notin S
      BY <1>3, <3>1
    <3>3. QED
      BY <3>2 DEF Bytes
  <2>3. QED
    BY <1>1, <1>3, <2>1, <2>2
<1>4. CASE PayloadMax < Len(b) /\ S # {}
  <2>1. SafeUtf8Chunk(b) = CHOOSE n \in S : \A k \in S : k <= n
    <3>1. ~(PayloadMax >= Len(b))
      BY <1>1, <1>4
    <3>2. QED
      BY <1>4, <3>1, Zenon DEF SafeUtf8Chunk
  <2>2. \E n \in S : \A k \in S : k <= n
    <3>1. S \subseteq 0..PayloadMax
      BY <1>1
    <3> HIDE DEF S
    <3>2. QED
      BY <1>1, <1>4, <3>1, Greatest
  <2>3. SafeUtf8Chunk(b) \in S
    <3> HIDE DEF S
    <3>1. QED
      BY <2>1, <2>2
  <2>4. QED
    BY <1>1, <1>4, <2>3
<1>5. QED
  BY <1>1, <1>2, <1>3, <1>4

LEMMA RestFacts ==
  ASSUME NEW b \in Seq(Bytes)
  PROVE  /\ Rest(b) \in Seq(Bytes)
         /\ Len(Rest(b)) = Len(b) - SafeUtf8Chunk(b)
         /\ SafeUtf8Chunk(b) <= Len(b)
         /\ \A i \in 1..Len(Rest(b)) : Rest(b)[i] = b[SafeUtf8Chunk(b) + i]
         /\ Rest(b) = << >> <=> SafeUtf8Chunk(b) = Len(b)
<1> DEFINE c == SafeUtf8Chunk(b)
<1>1. c \in Nat /\ c <= Len(b) /\ Len(b) \in Nat
  BY ChunkFacts, PayloadAssumption
<1>2. Rest(b) = SubSeq(b, c + 1, Len(b))
  BY DEF Rest
<1> HIDE DEF c
<1>3. Rest(b) \in Seq(Bytes)
  BY <1>1, <1>2
<1>4. Len(Rest(b)) = Len(b) - c
  BY <1>1, <1>2
<1>5. \A i \in 1..Len(Rest(b)) : Rest(b)[i] = b[c + i]
  <2>1. SUFFICES ASSUME NEW i \in 1..Len(Rest(b)) PROVE Rest(b)[i] = b[c + i]
    OBVIOUS
  <2>2. SubSeq(b, c + 1, Len(b))[i] = b[(c + 1) + i - 1]
    BY <1>1, <1>2, <1>4
  <2>3. (c + 1) + i - 1 = c + i
    BY <1>1
  <2>4. QED
    BY <1>2, <2>2, <2>3
<1>6. Rest(b) = << >> <=> c = Len(b)
  BY <1>1, <1>3, <1>4
<1>7. QED
  BY <1>1, <1>3, <1>4, <1>5, <1>6 DEF c

(***************************************************************************)
(* The end of a document after a packet, and the packet.                   *)
(***************************************************************************)
LEMMA EndAfterPacket ==
  ASSUME NEW d \in Seq(Bytes), NEW l \in Seq(Bytes), EndOf(l, d)
  PROVE  EndOf(Rest(l), d)
<1>1. /\ Rest(l) \in Seq(Bytes) /\ Len(Rest(l)) = Len(l) - SafeUtf8Chunk(l)
      /\ \A i \in 1..Len(Rest(l)) : Rest(l)[i] = l[SafeUtf8Chunk(l) + i]
      /\ SafeUtf8Chunk(l) \in Nat /\ Len(l) \in Nat /\ Len(d) \in Nat
  <2>1. SafeUtf8Chunk(l) \in Nat /\ Len(l) \in Nat /\ Len(d) \in Nat
    BY ChunkFacts
  <2>2. QED
    BY <2>1, RestFacts
<1>2. ASSUME NEW i \in 1..Len(Rest(l))
      PROVE  Rest(l)[i] = d[Len(d) - Len(Rest(l)) + i]
  <2>1. SafeUtf8Chunk(l) + i \in 1..Len(l)
    BY <1>1
  <2>2. l[SafeUtf8Chunk(l) + i] = d[Len(d) - Len(l) + (SafeUtf8Chunk(l) + i)]
    BY <2>1 DEF EndOf
  <2>3. Len(d) - Len(l) + (SafeUtf8Chunk(l) + i) = Len(d) - Len(Rest(l)) + i
    BY <1>1
  <2>4. QED
    BY <1>1, <2>2, <2>3
<1>3. QED
  BY <1>1, <1>2 DEF EndOf

LEMMA PacketFacts ==
  ASSUME NEW d \in Documents, NEW l \in Seq(Bytes), EndOf(l, d), NEW p \in Payloader
  PROVE  /\ Packet(p, d, l) \in PacketType
         /\ SplitsCharacter(Packet(p, d, l)) => Splittable(Packet(p, d, l))
<1> DEFINE c == SafeUtf8Chunk(l)
           f == Len(d) - Len(l)
<1>1. d \in Seq(Bytes) /\ Len(d) \in Nat /\ Len(l) \in Nat /\ c \in Nat
  BY ProxyAssumption, ChunkFacts DEF Bytes
<1>2. f \in Nat
  BY <1>1 DEF EndOf
<1>3. Packet(p, d, l) = [seq |-> p.seq, doc |-> d, from |-> f, size |-> c, marker |-> c = Len(l)]
  BY DEF Packet
<1>4. Packet(p, d, l) \in PacketType
  <2>1. p.seq \in Numbers /\ (c = Len(l)) \in BOOLEAN
    BY DEF Payloader
  <2> HIDE DEF c, f
  <2>2. QED
    BY <1>1, <1>2, <1>3, <2>1 DEF PacketType
<1>5. ASSUME SplitsCharacter(Packet(p, d, l)) PROVE Splittable(Packet(p, d, l))
  <2> HIDE DEF c, f
  <2>1. c # Len(l) /\ d[f + c + 1] = "next"
    <3>1. /\ Packet(p, d, l).marker = (c = Len(l)) /\ Packet(p, d, l).doc = d
          /\ Packet(p, d, l).from = f /\ Packet(p, d, l).size = c
      BY <1>3
    <3>2. QED
      BY <1>5, <3>1 DEF SplitsCharacter
  <2>2. /\ c \in 1..PayloadMax /\ PayloadMax < Len(l)
        /\ l[c + 1] = "first" \/ \A n \in 1..PayloadMax : l[n + 1] = "next"
    BY <2>1, ChunkFacts DEF c
  <2>3. \A n \in 1..PayloadMax : l[n + 1] = d[f + n + 1]
    <3>1. SUFFICES ASSUME NEW n \in 1..PayloadMax PROVE l[n + 1] = d[f + n + 1]
      OBVIOUS
    <3>2. n + 1 \in 1..Len(l)
      BY <1>1, <2>2, PayloadAssumption
    <3>3. l[n + 1] = d[f + (n + 1)]
      BY <3>2 DEF EndOf, f
    <3>4. f + (n + 1) = f + n + 1
      BY <1>2
    <3>5. QED
      BY <3>3, <3>4
  <2>4. \A n \in 1..PayloadMax : d[f + n + 1] = "next"
    BY <2>1, <2>2, <2>3
  <2>5. QED
    BY <1>3, <2>4 DEF Splittable
<1>6. QED
  BY <1>4, <1>5

(***************************************************************************)
(* Sequence numbers.                                                       *)
(***************************************************************************)
LEMMA NumberFacts ==
  ASSUME NEW s \in Numbers, NEW g \in Nat, g < SeqModulus
  PROVE  /\ (s + 1) % SeqModulus \in Numbers
         /\ (((s + 1 + g) % SeqModulus) + 1) % SeqModulus = (s + 1 + (g + 1)) % SeqModulus
         /\ (s + 1 + g) % SeqModulus = (s + 1) % SeqModulus => g = 0
<1>1. s \in Nat /\ s <= 65535 /\ g <= 65535 /\ SeqModulus = 65536
  BY DEF Numbers, SeqModulus
<1>2. (s + 1) % 65536 \in Nat /\ (s + 1) % 65536 < 65536
  BY <1>1
<1>3. (s + 1 + g) % 65536 = (s + 1) % 65536 => g = 0
  BY <1>1
<1>4. (((s + 1 + g) % 65536) + 1) % 65536 = (s + 1 + (g + 1)) % 65536
  BY <1>1
<1>5. QED
  BY <1>1, <1>2, <1>3, <1>4 DEF Numbers

LEMMA NextNumberFacts ==
  ASSUME NEW p \in Payloader
  PROVE  /\ NextNumber(p) \in Payloader /\ NextNumber(p).source = p.source
         /\ NextNumber(p).seq = (p.seq + 1) % SeqModulus
<1>1. p.seq \in Numbers /\ 0 \in Nat /\ 0 < SeqModulus
  BY DEF Payloader, SeqModulus
<1>2. (p.seq + 1) % SeqModulus \in Numbers
  BY <1>1, NumberFacts
<1>3. QED
  BY <1>2 DEF Payloader, NextNumber

(***************************************************************************)
(* A packet after the last one of a source.                                *)
(***************************************************************************)
LEMMA LinkedAppend ==
  ASSUME NEW s \in Seq(PacketType), NEW q \in PacketType, NEW c, Linked(s, c),
         s # << >> => Follows(s[Len(s)], q, c)
  PROVE  Linked(Append(s, q), c)
<1> DEFINE t == Append(s, q)
<1>1. Len(s) \in Nat /\ Len(t) = Len(s) + 1 /\ t[Len(s) + 1] = q
  OBVIOUS
<1>2. \A i \in 1..Len(s) : t[i] = s[i]
  OBVIOUS
<1>3. Len(s) # 0 => s # << >>
  OBVIOUS
<1> HIDE DEF t
<1>4. ASSUME NEW i \in 1..(Len(t) - 1) PROVE Follows(t[i], t[i + 1], c)
  <2>1. CASE i = Len(s)
    BY <1>1, <1>2, <1>3, <2>1
  <2>2. CASE i < Len(s)
    <3>1. i \in 1..(Len(s) - 1) /\ t[i] = s[i] /\ t[i + 1] = s[i + 1]
      BY <1>1, <1>2, <2>2
    <3>2. QED
      BY <3>1 DEF Linked
  <2>3. QED
    BY <1>1, <2>1, <2>2
<1>5. QED
  BY <1>4 DEF Linked, t

LEMMA SoundAppend ==
  ASSUME NEW s, Sound(s), NEW q \in PacketType, SplitsCharacter(q) => Splittable(q)
  PROVE  Sound(Append(s, q))
<1> DEFINE t == Append(s, q)
<1>1. /\ s \in Seq(PacketType)
      /\ \A i \in 1..Len(s) : SplitsCharacter(s[i]) => Splittable(s[i])
  BY DEF Sound
<1>2. /\ t \in Seq(PacketType) /\ Len(s) \in Nat /\ Len(t) = Len(s) + 1 /\ t[Len(s) + 1] = q
      /\ \A i \in 1..Len(s) : t[i] = s[i]
  BY <1>1
<1> HIDE DEF t
<1>3. \A i \in 1..Len(t) : i = Len(s) + 1 \/ i \in 1..Len(s)
  BY <1>2
<1>4. \A i \in 1..Len(t) : SplitsCharacter(t[i]) => Splittable(t[i])
  BY <1>1, <1>2, <1>3
<1>5. QED
  BY <1>2, <1>4 DEF Sound, t

(***************************************************************************)
(* One round of PushXml on the numbers: with the packet taken, or not.     *)
(***************************************************************************)
LEMMA TakenNumbers ==
  ASSUME NEW q \in Seq(PacketType), NEW p \in Payloader, NEW d \in Documents,
         NEW l \in Seq(Bytes), EndOf(l, d), NEW t \in Nat, t > 0, t <= MaxDocuments, NEW c,
         NoSurprise(q, << p >>, << [doc |-> d, left |-> l] >>, t, c)
  PROVE  NoSurprise(Append(q, Packet(p, d, l)), << NextNumber(p) >>,
                    IF Rest(l) # << >> THEN << [doc |-> d, left |-> Rest(l)] >> ELSE << >>, t, c)
<1> DEFINE k == Packet(p, d, l)
           s == << [doc |-> d, left |-> l] >>
           z == IF Rest(l) # << >> THEN << [doc |-> d, left |-> Rest(l)] >> ELSE << >>
<1>1. k \in PacketType
  BY PacketFacts
<1>2. /\ k.seq = p.seq /\ k.doc = d /\ k.from = Len(d) - Len(l) /\ k.size = SafeUtf8Chunk(l)
      /\ k.marker = (SafeUtf8Chunk(l) = Len(l))
  BY DEF Packet
<1>3. p.seq \in Numbers /\ d \in Seq(Bytes) /\ Len(d) \in Nat /\ Len(l) \in Nat
  BY ProxyAssumption DEF Payloader, Bytes
<1>4. s # << >> /\ s[1].doc = d /\ s[1].left = l
  OBVIOUS
<1>5. ASSUME q # << >> PROVE Follows(q[Len(q)], k, c)
  <2>1. q[Len(q)] \in PacketType
    BY <1>5
  <2>2. PICK last \in PacketType : last = q[Len(q)]
    BY <2>1
  <2>3. PICK g \in Nat : Gap(last, p.seq, g, s, t, c)
    <3>1. << p >> # << >> /\ << p >>[1] = p
      OBVIOUS
    <3>2. QED
      BY <1>5, <2>2, <3>1 DEF NoSurprise
  <2> HIDE DEF k, s
  <2>4. g < SeqModulus /\ last.seq \in Numbers
    BY <1>4, <2>3, ProxyAssumption DEF Gap, Over, PacketType, SeqModulus
  <2>5. k.seq = (last.seq + 1) % SeqModulus => g = 0
    BY <1>2, <2>3, <2>4, NumberFacts DEF Gap
  <2>6. g = 0 => \/ IF last.marker THEN k.from = 0
                     ELSE k.doc = last.doc /\ k.from = last.from + last.size
                 \/ k.seq \in c /\ k.from = 0
    <3>1. g = 0 => GoesOn(last, k.seq, s, c)
      BY <1>2, <2>3 DEF Gap
    <3>2. Fresh(s) => k.from = 0
      BY <1>2, <1>3, <1>4 DEF Fresh
    <3>3. QED
      BY <1>2, <1>3, <1>4, <3>1, <3>2 DEF GoesOn
  <2>7. QED
    BY <2>2, <2>5, <2>6 DEF Follows
<1>6. Linked(Append(q, k), c)
  <2> HIDE DEF k
  <2>1. QED
    BY <1>1, <1>5, LinkedAppend DEF NoSurprise
<1>7. GoesOn(k, NextNumber(p).seq, z, c)
  <2>1. /\ Rest(l) = << >> <=> SafeUtf8Chunk(l) = Len(l)
        /\ Len(Rest(l)) = Len(l) - SafeUtf8Chunk(l)
    BY RestFacts
  <2>2. SafeUtf8Chunk(l) \in Nat
    BY ChunkFacts
  <2>3. CASE Rest(l) = << >>
    <3>1. k.marker /\ z = << >>
      BY <1>2, <2>1, <2>3
    <3> HIDE DEF k, z
    <3>2. QED
      BY <3>1 DEF GoesOn, Fresh
  <2>4. CASE Rest(l) # << >>
    <3>1. ~k.marker /\ z # << >> /\ z[1].doc = d /\ z[1].left = Rest(l)
      BY <1>2, <2>1, <2>4
    <3> HIDE DEF k, z
    <3>2. Len(d) - Len(Rest(l)) = k.from + k.size
      BY <1>2, <1>3, <2>1, <2>2
    <3>3. QED
      BY <1>2, <3>1, <3>2 DEF GoesOn
  <2>5. QED
    BY <2>3, <2>4
<1>8. Gap(k, NextNumber(p).seq, 0, z, t, c)
  <2>1. 0 <= Over(z, t)
    <3> HIDE DEF z
    <3>1. QED
      BY DEF Over
  <2>2. NextNumber(p).seq = (k.seq + 1 + 0) % SeqModulus
    <3>1. p.seq + 1 + 0 = p.seq + 1
      BY <1>3 DEF Numbers
    <3>2. QED
      BY <1>2, <3>1, NextNumberFacts
  <2>3. QED
    BY <1>7, <2>1, <2>2, Zenon DEF Gap
<1>9. Append(q, k)[Len(Append(q, k))] = k
  <2> HIDE DEF k
  <2>1. QED
    BY <1>1
<1>10. << NextNumber(p) >>[1] = NextNumber(p)
  OBVIOUS
<1> HIDE DEF k, z
<1>11. NoSurprise(Append(q, k), << NextNumber(p) >>, z, t, c)
  BY <1>6, <1>8, <1>9, <1>10 DEF NoSurprise
<1>12. QED
  BY <1>11 DEF k, z

LEMMA LostNumbers ==
  ASSUME NEW q \in Seq(PacketType), NEW p \in Payloader, NEW s, s # << >>, NEW t \in Nat,
         t > 0, t <= MaxDocuments, NEW c, NoSurprise(q, << p >>, s, t, c)
  PROVE  NoSurprise(q, << NextNumber(p) >>, << >>, t, c)
<1>1. SUFFICES ASSUME q # << >>
               PROVE  \E g \in Nat : Gap(q[Len(q)], NextNumber(p).seq, g, << >>, t, c)
  BY DEF NoSurprise
<1>2. PICK last \in PacketType : last = q[Len(q)]
  BY <1>1
<1>3. PICK g \in Nat : Gap(last, p.seq, g, s, t, c)
  <2>1. << p >> # << >> /\ << p >>[1] = p
    OBVIOUS
  <2>2. QED
    BY <1>1, <1>2, <2>1 DEF NoSurprise
<1>4. g + 1 <= t /\ g < SeqModulus /\ last.seq \in Numbers
  BY <1>3, ProxyAssumption DEF Gap, Over, PacketType, SeqModulus
<1>5. NextNumber(p).seq = (last.seq + 1 + (g + 1)) % SeqModulus
  BY <1>3, <1>4, NumberFacts, NextNumberFacts DEF Gap
<1>6. Gap(last, NextNumber(p).seq, g + 1, << >>, t, c)
  BY <1>4, <1>5 DEF Gap, Over
<1>7. QED
  BY <1>2, <1>6

(***************************************************************************)
(* A packet that gets no buffer leaves the number, and drops the document. *)
(***************************************************************************)
LEMMA CutNumbers ==
  ASSUME NEW q \in Seq(PacketType), NEW p \in Payloader, NEW s, s # << >>, NEW t \in Nat,
         t > 0, NEW c, NoSurprise(q, << p >>, s, t, c)
  PROVE  NoSurprise(q, << p >>, << >>, t, c \cup {p.seq})
<1> DEFINE e == c \cup {p.seq}
<1>1. c \subseteq e /\ p.seq \in e
  OBVIOUS
<1> HIDE DEF e
<1>2. Linked(q, e)
  BY <1>1 DEF NoSurprise, Linked, Follows
<1>3. ASSUME q # << >> PROVE \E g \in Nat : Gap(q[Len(q)], p.seq, g, << >>, t, e)
  <2>1. PICK g \in Nat : Gap(q[Len(q)], p.seq, g, s, t, c)
    <3>1. << p >> # << >> /\ << p >>[1] = p
      OBVIOUS
    <3>2. QED
      BY <1>3, <3>1 DEF NoSurprise
  <2>2. g <= t
    BY <2>1 DEF Gap, Over
  <2>3. GoesOn(q[Len(q)], p.seq, << >>, e)
    BY <1>1 DEF GoesOn, Fresh
  <2>4. QED
    BY <2>1, <2>2, <2>3 DEF Gap, Over
<1>4. << p >>[1] = p
  OBVIOUS
<1>5. QED
  BY <1>2, <1>3, <1>4 DEF NoSurprise, e

(***************************************************************************)
(* A document is taken up; a source whose payloader is not in the map.     *)
(***************************************************************************)
LEMMA BegunNumbers ==
  ASSUME NEW q, NEW p, NEW d, NEW t \in Nat, NEW c, NoSurprise(q, p, << >>, t, c)
  PROVE  NoSurprise(q, p, << [doc |-> d, left |-> d] >>, t + 1, c)
<1> DEFINE s == << [doc |-> d, left |-> d] >>
<1>1. s # << >> /\ s[1].doc = d /\ s[1].left = d
  OBVIOUS
<1> HIDE DEF s
<1>2. Over(s, t + 1) = Over(<< >>, t)
  BY <1>1 DEF Over
<1>3. ASSUME NEW last, NEW n, NEW g, Gap(last, n, g, << >>, t, c)
      PROVE  Gap(last, n, g, s, t + 1, c)
  <2>1. GoesOn(last, n, << >>, c) => GoesOn(last, n, s, c)
    BY <1>1 DEF GoesOn, Fresh
  <2>2. QED
    BY <1>2, <1>3, <2>1 DEF Gap
<1>4. NoSurprise(q, p, s, t + 1, c)
  BY <1>3 DEF NoSurprise
<1>5. QED
  BY <1>4 DEF s

LEMMA NoNumbers ==
  ASSUME NEW q, NEW s, NEW t, NEW c
  PROVE  /\ NoSurprise(q, << >>, s, t, c) <=> Linked(q, c)
         /\ \A p : NoSurprise(<< >>, p, s, t, c)
BY DEF NoSurprise, Linked

------------------------------------------------------------------------------
LEMMA ProxyInit == Init => ProxyInvariant
<1> SUFFICES ASSUME Init PROVE ProxyInvariant
  OBVIOUS
<1> USE DEF Init
<1>1. got = [m \in 1..MaxMedia |-> << >>] /\ \A m \in 1..MaxMedia : got[m] = << >>
  OBVIOUS
<1>2. SourcesOK
  BY <1>1, ProxyAssumption DEF SourcesOK
<1>3. SendingOK
  <2>1. sent \in Nat /\ sent <= MaxDocuments
    BY ProxyAssumption
  <2>2. QED
    BY <2>1, Zenon DEF SendingOK
<1>4. PacketsOK
  <2>1. Sound(<< >>)
    BY DEF Sound
  <2>2. QED
    BY <1>1, <2>1 DEF PacketsOK
<1>5. NumbersOK /\ CutsOK
  BY <1>1, NoNumbers DEF NumbersOK, CutsOK
<1>6. QED
  BY <1>2, <1>3, <1>4, <1>5 DEF ProxyInvariant

(***************************************************************************)
(* The server, the viewers and the video leave the metadata alone.         *)
(***************************************************************************)
LEMMA ProxyApart ==
  ASSUME ProxyInvariant, UNCHANGED <<medias, payloader, metaVars>>,
         viewer' = viewer \/ (viewer = "idle" /\ viewer' = "found" /\ medias < MaxMedia)
  PROVE  ProxyInvariant'
<1> USE DEF metaVars
<1>1. \A m \in 1..MaxMedia : Unused(m)' <=> Unused(m)
  BY DEF Unused
<1>2. SourcesOK'
  <2>1. \A p \in Payloader : Unused(p.source)' <=> Unused(p.source)
    BY <1>1 DEF Payloader
  <2>2. QED
    BY <1>1, <2>1 DEF SourcesOK, ProxyInvariant
<1>3. SendingOK'
  BY DEF SendingOK, ProxyInvariant
<1>4. PacketsOK' /\ CutsOK'
  BY DEF PacketsOK, CutsOK, ProxyInvariant
<1>5. NumbersOK'
  BY DEF NumbersOK, ProxyInvariant
<1>6. QED
  BY <1>2, <1>3, <1>4, <1>5 DEF ProxyInvariant

LEMMA ConfigureStep ==
  ASSUME ProxyInvariant, OnMediaConfigure
  PROVE  ProxyInvariant'
<1> USE DEF metaVars
<1>1. CASE UNCHANGED <<viewer, medias>>
  BY <1>1, ProxyApart DEF OnMediaConfigure
<1>2. CASE viewer = "found" /\ viewer' = "calling" /\ medias' = medias + 1
  <2>1. UNCHANGED <<payloader, metaVars>> /\ medias \in Nat /\ medias < MaxMedia
    BY <1>2 DEF OnMediaConfigure, SourcesOK, ProxyInvariant
  <2>2. \A m \in 1..MaxMedia : Unused(m)' <=> Unused(m)
    BY <1>2, <2>1, ProxyAssumption DEF Unused
  <2>3. \A p \in Payloader : Unused(p.source)' <=> Unused(p.source)
    BY <2>2 DEF Payloader
  <2>4. SourcesOK'
    BY <1>2, <2>1, <2>2, <2>3, ProxyAssumption DEF SourcesOK, ProxyInvariant
  <2>5. SendingOK'
    BY <2>1 DEF SendingOK, ProxyInvariant
  <2>6. PacketsOK' /\ CutsOK'
    BY <2>1 DEF PacketsOK, CutsOK, ProxyInvariant
  <2>7. NumbersOK'
    BY <2>1 DEF NumbersOK, ProxyInvariant
  <2>8. QED
    BY <2>4, <2>5, <2>6, <2>7 DEF ProxyInvariant
<1>3. QED
  BY <1>1, <1>2 DEF OnMediaConfigure

LEMMA ReadyStep ==
  ASSUME ProxyInvariant, OnProxySinkReady
  PROVE  ProxyInvariant'
<1> USE DEF metaVars
<1>1. /\ viewer = "calling" /\ viewer' = "idle" /\ ~mutex
      /\ UNCHANGED <<medias, metaVars>>
  BY DEF OnProxySinkReady
<1>2. PICK n \in FirstNumbers : payloader' = << [source |-> medias, seq |-> n] >>
  BY DEF OnProxySinkReady
<1>3. medias \in 1..MaxMedia /\ n \in Numbers
  BY <1>1, ProxyAssumption DEF SourcesOK, ProxyInvariant, Numbers
<1>4. PICK p \in Payloader : p = [source |-> medias, seq |-> n]
  BY <1>3 DEF Payloader
<1>5. payloader' = << p >> /\ p.source = medias
  BY <1>2, <1>4
<1>6. got[medias] = << >>
  BY <1>1, <1>3 DEF SourcesOK, ProxyInvariant, Unused
<1>7. SourcesOK'
  <2>1. ~Unused(p.source)'
    BY <1>1, <1>3, <1>5 DEF Unused
  <2>2. \A m \in 1..MaxMedia : Unused(m)' => Unused(m)
    BY <1>1, <1>3 DEF Unused
  <2>3. \A m \in 1..MaxMedia : Unused(m)' => got'[m] = << >>
    BY <1>1, <2>2 DEF SourcesOK, ProxyInvariant
  <2>4. QED
    BY <1>1, <1>3, <1>5, <2>1, <2>3 DEF SourcesOK
<1>8. SendingOK'
  BY <1>1 DEF SendingOK, ProxyInvariant
<1>9. PacketsOK' /\ CutsOK'
  BY <1>1 DEF PacketsOK, CutsOK, ProxyInvariant
<1>10. NumbersOK'
  <2>1. SUFFICES ASSUME NEW m \in 1..MaxMedia
                 PROVE  NoSurprise(got[m], Own(payloader', m), sending, sent, cut[m])
    BY <1>1 DEF NumbersOK
  <2>2. CASE m = medias
    BY <1>6, <2>2, NoNumbers
  <2>3. CASE m # medias
    <3>1. Own(payloader', m) = << >>
      BY <1>5, <2>3 DEF Own
    <3>2. Linked(got[m], cut[m])
      BY DEF NumbersOK, ProxyInvariant, NoSurprise
    <3>3. QED
      BY <3>1, <3>2, NoNumbers
  <2>4. QED
    BY <2>2, <2>3
<1>11. QED
  BY <1>7, <1>8, <1>9, <1>10 DEF ProxyInvariant

LEMMA SendStep ==
  ASSUME ProxyInvariant, SendOnvifMetadata
  PROVE  ProxyInvariant'
<1>1. /\ sending = << >> /\ sent < MaxDocuments /\ payloader # << >> /\ target' = payloader
      /\ mutex' = TRUE /\ sent' = sent + 1 /\ UNCHANGED <<got, cut, viewer, medias, payloader>>
  BY DEF SendOnvifMetadata, sinkVars
<1>2. PICK d \in Documents : sending' = << [doc |-> d, left |-> d] >>
  BY DEF SendOnvifMetadata
<1>3. d \in Seq(Bytes) /\ sent \in Nat /\ EndOf(d, d)
  <2>1. d \in Seq(Bytes) /\ sent \in Nat
    BY ProxyAssumption DEF Bytes, SendingOK, ProxyInvariant
  <2>2. QED
    BY <2>1 DEF EndOf
<1>4. SourcesOK'
  <2>1. \A m : Unused(m)' <=> Unused(m)
    BY <1>1 DEF Unused
  <2>2. QED
    BY <1>1, <2>1 DEF SourcesOK, ProxyInvariant
<1>5. SendingOK'
  <2>1. Left(sending')
    BY <1>2, <1>3 DEF Left
  <2>2. sending' # << >> /\ sent' \in Nat /\ sent' > 0 /\ sent' <= MaxDocuments
    BY <1>1, <1>2, <1>3, ProxyAssumption
  <2>3. QED
    BY <1>1, <2>1, <2>2 DEF SendingOK
<1>6. PacketsOK' /\ CutsOK'
  BY <1>1 DEF PacketsOK, CutsOK, ProxyInvariant
<1>7. NumbersOK'
  <2>1. SUFFICES ASSUME NEW m \in 1..MaxMedia
                 PROVE  NoSurprise(got[m], Own(payloader, m), sending', sent + 1, cut[m])
    BY <1>1 DEF NumbersOK
  <2>2. NoSurprise(got[m], Own(payloader, m), << >>, sent, cut[m])
    BY <1>1 DEF NumbersOK, ProxyInvariant
  <2>3. QED
    BY <1>2, <1>3, <2>2, BegunNumbers
<1>8. QED
  BY <1>4, <1>5, <1>6, <1>7 DEF ProxyInvariant

(***************************************************************************)
(* One round of PushXml: the document goes on, is done, or is dropped.     *)
(***************************************************************************)
LEMMA PushStep ==
  ASSUME ProxyInvariant, PushPacket
  PROVE  ProxyInvariant'
<1>1. /\ sending # << >> /\ target = payloader /\ payloader # << >> /\ sent > 0
      /\ sent \in Nat /\ sent <= MaxDocuments /\ UNCHANGED <<sent, viewer, medias>>
  BY DEF PushPacket, SendingOK, ProxyInvariant
<1>2. PICK p \in Payloader : payloader = << p >> /\ ~Unused(p.source)
  BY <1>1 DEF SourcesOK, ProxyInvariant
<1>3. PICK d \in Documents, l \in Seq(Bytes) :
        sending = << [doc |-> d, left |-> l] >> /\ EndOf(l, d)
  BY <1>1 DEF SendingOK, ProxyInvariant, Left
<1>4. PICK r : r = Rest(l)
  OBVIOUS
<1>5. target[1] = p /\ sending[1] = [doc |-> d, left |-> l] /\ sending[1].left = l
      /\ sending[1].doc = d /\ [sending[1] EXCEPT !.left = r] = [doc |-> d, left |-> r]
  BY <1>1, <1>2, <1>3
<1>6. PICK taken \in BOOLEAN, n \in {p, NextNumber(p)} :
        /\ got' = IF taken THEN [got EXCEPT ![p.source] = Append(@, Packet(p, d, l))] ELSE got
        /\ payloader' = << n >>
        /\ IF taken /\ r # << >>
           THEN /\ sending' = << [doc |-> d, left |-> r] >>
                /\ target' = << n >> /\ mutex' = mutex
           ELSE sending' = << >> /\ target' = << >> /\ mutex' = FALSE
        /\ \/ n = NextNumber(p) /\ cut' = cut
           \/ n = p /\ ~taken /\ cut' = [cut EXCEPT ![p.source] = @ \cup {p.seq}]
  <2>1. PICK outcome \in Outcomes :
          /\ got' = IF outcome = "taken"
                    THEN [got EXCEPT ![p.source] = Append(@, Packet(p, d, l))] ELSE got
          /\ cut' = IF outcome = "no buffer"
                    THEN [cut EXCEPT ![p.source] = @ \cup {p.seq}] ELSE cut
          /\ payloader' = << IF outcome = "no buffer" THEN p ELSE NextNumber(p) >>
          /\ IF outcome = "taken" /\ r # << >>
             THEN /\ sending' = << [doc |-> d, left |-> r] >>
                  /\ target' = << IF outcome = "no buffer" THEN p ELSE NextNumber(p) >>
                  /\ mutex' = mutex
             ELSE sending' = << >> /\ target' = << >> /\ mutex' = FALSE
    BY <1>1, <1>4, <1>5 DEF PushPacket
  <2>2. CASE outcome = "no buffer"
    BY <2>1, <2>2
  <2>3. CASE outcome = "refused"
    BY <2>1, <2>3
  <2>4. CASE outcome = "taken"
    BY <2>1, <2>4
  <2>5. QED
    BY <2>2, <2>3, <2>4 DEF Outcomes
<1>7. /\ n \in Payloader /\ n.source = p.source
      /\ p.source \in 1..MaxMedia /\ Packet(p, d, l) \in PacketType
  BY <1>3, <1>6, NextNumberFacts, PacketFacts DEF Payloader
<1>8. got \in [1..MaxMedia -> Seq(PacketType)] /\ \A m \in 1..MaxMedia : Sound(got[m])
  BY DEF PacketsOK, ProxyInvariant
<1>9. /\ \A m \in 1..MaxMedia : m # p.source => got'[m] = got[m]
      /\ got'[p.source] = IF taken THEN Append(got[p.source], Packet(p, d, l)) ELSE got[p.source]
      /\ got' \in [1..MaxMedia -> Seq(PacketType)]
  BY <1>6, <1>7, <1>8
<1>10. SourcesOK'
  <2>1. \A m : Unused(m)' <=> Unused(m)
    BY <1>1 DEF Unused
  <2>2. \A m \in 1..MaxMedia : Unused(m)' => got'[m] = << >>
    BY <1>2, <1>9, <2>1 DEF SourcesOK, ProxyInvariant
  <2>3. ~Unused(n.source)'
    BY <1>1, <1>2, <1>7 DEF Unused
  <2>4. \E x \in Payloader : payloader' = << x >> /\ ~Unused(x.source)'
    BY <1>6, <1>7, <2>3
  <2>5. QED
    BY <1>1, <2>2, <2>4 DEF SourcesOK, ProxyInvariant
<1>11. SendingOK'
  <2>1. CASE taken /\ r # << >>
    <3>1. EndOf(r, d) /\ r \in Seq(Bytes)
      <4>1. d \in Seq(Bytes)
        BY ProxyAssumption DEF Bytes
      <4>2. QED
        BY <1>3, <1>4, <4>1, EndAfterPacket DEF EndOf
    <3>2. Left(sending')
      BY <1>6, <2>1, <3>1 DEF Left
    <3>3. /\ sending' # << >> /\ target' = payloader' /\ payloader' # << >>
          /\ mutex' = mutex
      <4>1. /\ sending' = << [doc |-> d, left |-> r] >>
            /\ target' = << n >> /\ mutex' = mutex
        BY <1>6, <2>1, Zenon
      <4>2. payloader' = << n >>
        BY <1>6, Zenon
      <4>3. << [doc |-> d, left |-> r] >> # << >> /\ << n >> # << >>
        OBVIOUS
      <4>4. QED
        BY <4>1, <4>2, <4>3, Zenon
    <3>4. QED
      BY <1>1, <3>2, <3>3 DEF SendingOK, ProxyInvariant
  <2>2. CASE ~(taken /\ r # << >>)
    BY <1>1, <1>6, <2>2 DEF SendingOK
  <2>3. QED
    BY <2>1, <2>2
<1>12. PacketsOK'
  <2>1. Sound(got'[p.source])
    <3>1. Sound(Append(got[p.source], Packet(p, d, l)))
      BY <1>3, <1>7, <1>8, PacketFacts, SoundAppend
    <3>2. QED
      BY <1>7, <1>8, <1>9, <3>1
  <2>2. QED
    BY <1>8, <1>9, <2>1 DEF PacketsOK
<1>13. NumbersOK'
  <2>1. NoSurprise(got[p.source], << p >>, sending, sent, cut[p.source])
    <3>1. Own(payloader, p.source) = << p >>
      BY <1>2 DEF Own
    <3>2. QED
      BY <1>7, <3>1 DEF NumbersOK, ProxyInvariant
  <2>2. Own(payloader', p.source) = << n >>
    BY <1>6, <1>7 DEF Own
  <2>3. got[p.source] \in Seq(PacketType)
    BY <1>7, <1>8
  <2>4. NoSurprise(got'[p.source], << n >>, sending', sent, cut'[p.source])
    <3>1. CASE taken
      <4>1. NoSurprise(Append(got[p.source], Packet(p, d, l)), << NextNumber(p) >>,
                       IF Rest(l) # << >> THEN << [doc |-> d, left |-> Rest(l)] >> ELSE << >>,
                       sent, cut[p.source])
        BY <1>1, <1>3, <2>1, <2>3, TakenNumbers
      <4>2. sending' = IF Rest(l) # << >> THEN << [doc |-> d, left |-> Rest(l)] >> ELSE << >>
        BY <1>4, <1>6, <3>1
      <4>3. n = NextNumber(p) /\ cut' = cut
        BY <1>6, <3>1
      <4>4. QED
        BY <1>9, <3>1, <4>1, <4>2, <4>3
    <3>2. CASE ~taken /\ n = NextNumber(p) /\ cut' = cut
      <4>1. NoSurprise(got[p.source], << NextNumber(p) >>, << >>, sent, cut[p.source])
        BY <1>1, <2>1, <2>3, LostNumbers
      <4>2. QED
        BY <1>6, <1>9, <3>2, <4>1
    <3>3. CASE ~taken /\ n = p /\ cut' = [cut EXCEPT ![p.source] = @ \cup {p.seq}]
      <4>1. NoSurprise(got[p.source], << p >>, << >>, sent, cut[p.source] \cup {p.seq})
        BY <1>1, <2>1, <2>3, CutNumbers
      <4>2. cut'[p.source] = cut[p.source] \cup {p.seq}
        BY <1>7, <3>3 DEF CutsOK, ProxyInvariant
      <4>3. sending' = << >> /\ got'[p.source] = got[p.source]
        BY <1>6, <1>9, <3>3
      <4>4. QED
        BY <3>3, <4>1, <4>2, <4>3
    <3>4. QED
      BY <1>6, <3>1, <3>2, <3>3
  <2>5. ASSUME NEW m \in 1..MaxMedia, m # p.source
        PROVE  NoSurprise(got'[m], Own(payloader', m), sending', sent, cut'[m])
    <3>1. Own(payloader', m) = << >>
      BY <1>6, <1>7, <2>5 DEF Own
    <3>2. cut'[m] = cut[m]
      BY <1>6, <1>7, <2>5 DEF CutsOK, ProxyInvariant
    <3>3. Linked(got'[m], cut'[m])
      BY <1>9, <2>5, <3>2 DEF NumbersOK, ProxyInvariant, NoSurprise
    <3>4. QED
      BY <3>1, <3>3, NoNumbers
  <2>6. QED
    BY <1>1, <2>2, <2>4, <2>5 DEF NumbersOK
<1>14. CutsOK'
  <2>1. p.seq \in Numbers
    BY DEF Payloader
  <2>2. QED
    BY <1>6, <1>7, <2>1 DEF CutsOK, ProxyInvariant
<1>15. QED
  BY <1>10, <1>11, <1>12, <1>13, <1>14 DEF ProxyInvariant

LEMMA ClearStep ==
  ASSUME ProxyInvariant, ClearSinks
  PROVE  ProxyInvariant'
<1>1. ~mutex /\ payloader' = << >> /\ UNCHANGED <<viewer, medias, metaVars>>
  BY DEF ClearSinks
<1> USE DEF metaVars
<1>2. SourcesOK'
  <2>1. \A m : Unused(m)' <=> Unused(m)
    BY <1>1 DEF Unused
  <2>2. QED
    BY <1>1, <2>1 DEF SourcesOK, ProxyInvariant
<1>3. SendingOK'
  BY <1>1 DEF SendingOK, ProxyInvariant
<1>4. PacketsOK' /\ CutsOK'
  BY <1>1 DEF PacketsOK, CutsOK, ProxyInvariant
<1>5. NumbersOK'
  <2>1. SUFFICES ASSUME NEW m \in 1..MaxMedia
                 PROVE  NoSurprise(got[m], Own(payloader', m), sending, sent, cut[m])
    BY <1>1 DEF NumbersOK
  <2>2. Own(payloader', m) = << >> /\ Linked(got[m], cut[m])
    BY <1>1 DEF Own, NumbersOK, ProxyInvariant, NoSurprise
  <2>3. QED
    BY <2>2, NoNumbers
<1>6. QED
  BY <1>2, <1>3, <1>4, <1>5 DEF ProxyInvariant

LEMMA ProxyStep == ProxyInvariant /\ [Next]_vars => ProxyInvariant'
<1> SUFFICES ASSUME ProxyInvariant, [Next]_vars PROVE ProxyInvariant'
  OBVIOUS
<1>1. CASE Loop
  BY <1>1, ProxyApart DEF Loop, Attach, LoopRun, LoopEnds, sinkVars
<1>2. CASE Startup \/ StartTimesOut
  BY <1>2, ProxyApart DEF Startup, Start, StartReturns, RegisterClient, StartTimesOut, sinkVars
<1>3. CASE StopRTSP \/ StopClients \/ ClientStopFails \/ RemoveMounts \/ QuitLoop \/ JoinLoop
  BY <1>3, ProxyApart DEF StopRTSP, StopClients, ClientStopFails, RemoveMounts, QuitLoop, JoinLoop, sinkVars
<1>4. CASE ClearSinks
  BY <1>4, ClearStep
<1>5. CASE ViewerAsks
  BY <1>5, ProxyApart DEF ViewerAsks
<1>6. CASE OnMediaConfigure
  BY <1>6, ConfigureStep
<1>7. CASE OnProxySinkReady
  BY <1>7, ReadyStep
<1>8. CASE SendOnvifMetadata
  BY <1>8, SendStep
<1>9. CASE PushPacket
  BY <1>9, PushStep
<1>10. CASE ForwardVideoRtp \/ ForwardPush
  BY <1>10, ProxyApart DEF ForwardVideoRtp, ForwardPush, sinkVars
<1>11. CASE UNCHANGED vars
  BY <1>11, ProxyApart DEF vars, sinkVars
<1>12. QED
  BY <1>1, <1>2, <1>3, <1>4, <1>5, <1>6, <1>7, <1>8, <1>9, <1>10, <1>11
  DEF Next, StopRest, Configure

(***************************************************************************)
(* DocumentsWhole holds however long the documents are and whatever the    *)
(* size of a packet, also across the wrap of the sequence number: with     *)
(* consecutive numbers a document is continued or a new one begun; a       *)
(* character is split only where no packet could hold it; and the          *)
(* payloader in use is never one that was replaced.                        *)
(***************************************************************************)
THEOREM DocumentsStayWhole == Spec => []DocumentsWhole
<1>1. ProxyInvariant => DocumentsWhole
  <2> SUFFICES ASSUME ProxyInvariant PROVE DocumentsWhole
    OBVIOUS
  <2>1. \A m \in 1..MaxMedia : Linked(got[m], cut[m])
    BY DEF NumbersOK, ProxyInvariant, NoSurprise
  <2>2. \A m \in 1..MaxMedia : Sound(got[m])
    BY DEF PacketsOK, ProxyInvariant
  <2>3. sending # << >> => target = payloader
    BY DEF SendingOK, ProxyInvariant
  <2>4. QED
    BY <2>1, <2>2, <2>3 DEF DocumentsWhole, Linked, Follows, Sound
<1>2. QED
  BY <1>1, ProxyInit, ProxyStep, PTL DEF Spec

------------------------------------------------------------------------------
(***************************************************************************)
(* How far the start or the stop has come, and what that says of the loop  *)
(* and of those who use the sources.  An aborted program stays as it was.  *)
(***************************************************************************)
Places == {"start", "attaching", "register", "up", "clients", "mounts", "quit", "join",
           "sinks", "stopped", "hung", "aborted"}

Told == {"join", "sinks", "stopped"}

ProxyStages ==
  /\ mpc \in Places
  /\ lpc \in {"none", "attach", "attached", "running", "ended"}
  /\ quit \in {"no", "told", "lost"}
  /\ mpc = "start" <=> lpc = "none"
  /\ lpc = "attach" => mpc \in {"attaching", "aborted"}
  /\ mpc \in Told => quit # "no"
  /\ quit # "no" => mpc \in Told \cup {"aborted"}
  /\ quit = "lost" => lpc = "running" /\ mpc \in {"join", "aborted"}
  /\ lpc = "ended" => quit = "told"
  /\ mpc \in {"sinks", "stopped"} => lpc = "ended"

UsersStages ==
  /\ mpc \in {"clients", "hung", "mounts", "quit"} \cup Told => sending = << >>
  /\ mpc \in {"mounts", "quit"} \cup Told => forwarding = 0
  /\ mpc \in {"start", "attaching", "register"} => /\ viewer = "idle" /\ mounted = FALSE
                                                 /\ sending = << >> /\ forwarding = 0
  /\ mpc \in {"up", "clients", "hung", "mounts"} => mounted = TRUE /\ context = TRUE
  /\ mpc \in {"quit"} \cup Told => mounted = FALSE /\ context = FALSE

(***************************************************************************)
(* The main thread takes its places in order, and no other changes them.   *)
(***************************************************************************)
LEMMA StagesStep == ProxyStages /\ UsersStages /\ [Next]_vars => ProxyStages'
<1> SUFFICES ASSUME ProxyStages, UsersStages, [Next]_vars PROVE ProxyStages'
  OBVIOUS
<1> USE DEF ProxyStages, Places, Told, Alive
<1>1. CASE Attach BY <1>1 DEF Attach
<1>2. CASE LoopRun BY <1>2 DEF LoopRun
<1>3. CASE LoopEnds BY <1>3 DEF LoopEnds
<1>4. CASE Startup \/ StartTimesOut
  BY <1>4 DEF Startup, Start, StartReturns, RegisterClient, StartTimesOut
<1>5. CASE StopRTSP \/ StopClients \/ ClientStopFails \/ RemoveMounts
  BY <1>5 DEF StopRTSP, StopClients, ClientStopFails, RemoveMounts
<1>6. CASE QuitLoop BY <1>6 DEF QuitLoop
<1>7. CASE JoinLoop \/ ClearSinks BY <1>7 DEF JoinLoop, ClearSinks
<1>8. CASE OnMediaConfigure BY <1>8 DEF OnMediaConfigure, UsersStages
<1>9. CASE UNCHANGED <<mpc, lpc, quit>> BY <1>9
<1>10. QED
  BY <1>1, <1>2, <1>3, <1>4, <1>5, <1>6, <1>7, <1>8, <1>9
  DEF Next, Loop, StopRest, Configure, ViewerAsks, OnProxySinkReady, SendOnvifMetadata,
      PushPacket, ForwardVideoRtp, ForwardPush, serverVars, vars

(***************************************************************************)
(* Nobody begins to send or to forward once the stop has begun, and nobody *)
(* asks for a mount point that is not there yet.                           *)
(***************************************************************************)
LEMMA UsersStep == ProxyStages /\ UsersStages /\ [Next]_vars => UsersStages'
<1> SUFFICES ASSUME ProxyStages, UsersStages, [Next]_vars PROVE UsersStages'
  OBVIOUS
<1> USE DEF UsersStages, ProxyStages, Places, Told, Alive, sinkVars, metaVars, serverVars
<1>1. CASE Loop BY <1>1 DEF Loop, Attach, LoopRun, LoopEnds
<1>2. CASE Startup \/ StartTimesOut
  BY <1>2 DEF Startup, Start, StartReturns, RegisterClient, StartTimesOut
<1>3. CASE StopRTSP \/ StopRest \/ ClientStopFails
  BY <1>3 DEF StopRTSP, StopRest, ClientStopFails, StopClients, RemoveMounts, QuitLoop, JoinLoop, ClearSinks
<1>4. CASE ViewerAsks BY <1>4 DEF ViewerAsks
<1>5. CASE Configure BY <1>5 DEF Configure, OnMediaConfigure, OnProxySinkReady
<1>6. CASE SendOnvifMetadata BY <1>6 DEF SendOnvifMetadata
<1>7. CASE PushPacket
  <2>1. /\ UNCHANGED <<mpc, mounted, context, viewer, forwarding>> /\ sending # << >>
    BY <1>7 DEF PushPacket
  <2>2. mpc = "up" \/ mpc = "aborted" BY <2>1
  <2> QED BY <2>1, <2>2
<1>8. CASE ForwardVideoRtp \/ ForwardPush BY <1>8 DEF ForwardVideoRtp, ForwardPush
<1>9. CASE UNCHANGED vars BY <1>9 DEF vars
<1>10. QED BY <1>1, <1>2, <1>3, <1>4, <1>5, <1>6, <1>7, <1>8, <1>9 DEF Next

(***************************************************************************)
(* When StopRTSP has returned, the loop thread is joined, the mount point  *)
(* and its context are gone, and nobody sends; while it joins the loop, a  *)
(* quit was told, and it waits there for ever only if that was lost before *)
(* g_main_loop_run, as in a client's Stop that hangs.  A viewer meets a context that is gone only after      *)
(* RemoveMounts, never while the proxy is up.                              *)
(***************************************************************************)
StopIsOrderly ==
  /\ mpc = "stopped" => /\ lpc = "ended" /\ mounted = FALSE /\ context = FALSE
                        /\ sending = << >> /\ ~mutex /\ forwarding = 0
  /\ mpc = "join" => lpc \in {"attached", "running", "ended"} /\ quit \in {"told", "lost"}
  /\ QuitLost => mpc = "hung" \/ (lpc = "running" /\ mpc \in {"join", "aborted"})
  /\ viewer = "found" /\ context = FALSE => mpc \in {"quit"} \cup Told \cup {"aborted"}

(***************************************************************************)
(* The safety half of ProxyStopEnds: however viewers, senders and the loop *)
(* thread interleave with it, StopRTSP leaves nothing behind, and it has   *)
(* two ways to wait for ever, both a quit that came before its loop ran.   *)
(***************************************************************************)
THEOREM StopAlwaysOrderly == Spec => []StopIsOrderly
<1>1. Init => ProxyStages /\ UsersStages
  BY DEF Init, ProxyStages, UsersStages, Places, Told
<1>2. ProxyInvariant /\ ProxyStages /\ UsersStages => StopIsOrderly
  BY Zenon DEF ProxyInvariant, SendingOK, ProxyStages, UsersStages, StopIsOrderly, Told, Places,
     QuitLost
<1>3. QED
  BY <1>1, <1>2, ProxyInit, ProxyStep, StagesStep, UsersStep, PTL DEF Spec
==============================================================================
