-------------------------- MODULE SspStreamsProofs --------------------------
(***************************************************************************)
(* Lemmas about the operators of SspStreams: the searches find a position  *)
(* of the list, a handover turns a stream list into a stream list, and     *)
(* which streams the loop of remove_temporary_streams looks at, keeps and  *)
(* removes.                                                                *)
(***************************************************************************)
EXTENDS SspStreams, FiniteSetTheorems, SequenceTheorems, WellFoundedInduction, TLAPS

\* A nonempty set of natural numbers has a least element, and Min is it.
LEMMA MinOfNaturals ==
    ASSUME NEW I, \A i \in I : i \in Nat, I # {}
    PROVE  Min(I) \in I /\ \A i \in I : Min(I) <= i
<1> DEFINE less == OpToRel(<, Nat)
<1>1. PICK x \in I : \A y \in I : <<y, x>> \notin less
  BY NatLessThanWellFounded, WFMin
<1>2. ASSUME NEW y \in I PROVE x <= y
  <2>1. x \in Nat /\ y \in Nat
    OBVIOUS
  <2>2. y < x => <<y, x>> \in less
    BY <2>1 DEF OpToRel
  <2>3. ~ (y < x)
    <3> HIDE DEF less
    <3>1. QED
      BY <1>1, <2>2
  <2>4. QED
    BY <2>1, <2>3
<1>3. QED
  BY <1>2 DEF Min

\* The first position of a set of positions is one of them, and 0 means none.
LEMMA FirstOfPosition ==
    ASSUME NEW n \in Nat, NEW I, \A i \in I : i \in 1 .. n
    PROVE  /\ FirstOf(I) \in 0 .. n
           /\ FirstOf(I) = 0 <=> I = {}
           /\ FirstOf(I) # 0 => FirstOf(I) \in I
<1>1. CASE I = {}
  BY <1>1 DEF FirstOf
<1>2. CASE I # {}
  <2>1. Min(I) \in I
    BY <1>2, MinOfNaturals
  <2>2. QED
    BY <1>2, <2>1 DEF FirstOf
<1>3. QED
  BY <1>1, <1>2

\* Every rank up to the cardinality of a set of positions is the rank of one of
\* its elements: what RemoveTemporaryStreams needs to be a list without holes.
LEMMA RankExists ==
    ASSUME NEW n \in Nat, NEW I, \A i \in I : i \in 1 .. n,
           NEW k \in 1 .. Cardinality(I)
    PROVE  Nth(I, k) \in I
<1> DEFINE upTo(i) == {j \in I : j <= i}
           enough  == {i \in 1 .. n : Cardinality(upTo(i)) >= k}
<1>1. \A i \in Nat : IsFiniteSet(upTo(i)) /\ Cardinality(upTo(i)) \in Nat
  <2>1. IsFiniteSet(I)
    <3>1. I \subseteq 1 .. n /\ IsFiniteSet(1 .. n)
      BY FS_Interval
    <3>2. QED
      BY <3>1, FS_Subset
  <2>2. \A i \in Nat : upTo(i) \subseteq I
    OBVIOUS
  <2>3. QED
    BY <2>1, <2>2, FS_Subset, FS_CardinalityType
<1>2. upTo(n) = I /\ upTo(0) = {}
  OBVIOUS
<1>3. n \in enough
  <2>1. Cardinality(upTo(n)) >= k
    BY <1>1, <1>2
  <2>2. n # 0
    BY <1>2, <2>1, FS_EmptySet
  <2>3. QED
    BY <2>1, <2>2
<1>4. PICK m \in enough : \A i \in enough : m <= i
  <2>1. \A i \in enough : i \in Nat
    OBVIOUS
  <2> HIDE DEF enough
  <2>2. Min(enough) \in enough /\ \A i \in enough : Min(enough) <= i
    BY <1>3, <2>1, MinOfNaturals
  <2>3. QED
    BY <2>2
<1>5. m \in 1 .. n /\ Cardinality(upTo(m)) >= k
  OBVIOUS
<1>6. Cardinality(upTo(m - 1)) < k
  <2>1. CASE m = 1
    <3>1. upTo(m - 1) = {}
      BY <1>2, <2>1
    <3>2. QED
      BY <3>1, FS_EmptySet
  <2>2. CASE m > 1
    <3>1. m - 1 \in 1 .. n /\ m - 1 \notin enough
      <4> HIDE DEF enough
      <4>1. QED
        BY <1>4, <1>5, <2>2
    <3>2. Cardinality(upTo(m - 1)) \in Nat
      BY <1>1, <3>1
    <3>3. QED
      BY <3>1, <3>2
  <2>3. QED
    BY <1>5, <2>1, <2>2
<1> HIDE DEF enough
<1>7. m \in I
  <2>1. SUFFICES ASSUME m \notin I PROVE FALSE
    OBVIOUS
  <2>2. upTo(m) = upTo(m - 1)
    BY <1>5, <2>1
  <2>3. m - 1 \in Nat /\ m \in Nat
    BY <1>5
  <2> HIDE DEF upTo
  <2>4. QED
    BY <1>1, <1>5, <1>6, <2>2, <2>3
<1>8. upTo(m) = upTo(m - 1) \cup {m} /\ m \notin upTo(m - 1)
  <2>1. \A j \in I : j <= m <=> (j <= m - 1 \/ j = m)
    BY <1>5
  <2>2. ~ (m <= m - 1)
    BY <1>5
  <2>3. QED
    BY <1>7, <2>1, <2>2
<1>9. m - 1 \in Nat /\ m \in Nat
  BY <1>5
<1>10. Cardinality(upTo(m)) = k
  <2> HIDE DEF upTo
  <2>1. Cardinality(upTo(m)) = Cardinality(upTo(m - 1)) + 1
    BY <1>1, <1>8, <1>9, FS_AddElement
  <2>2. Cardinality(upTo(m)) \in Nat /\ Cardinality(upTo(m - 1)) \in Nat
    BY <1>1, <1>9
  <2>3. QED
    BY <1>5, <1>6, <2>1, <2>2
<1>11. QED
  BY <1>7, <1>10 DEF Nth

\* The greatest element of a set of natural numbers is Max.
LEMMA MaxIs ==
    ASSUME NEW I, \A i \in I : i \in Nat, NEW m \in I, \A i \in I : i <= m
    PROVE  Max(I) = m
<1>1. \A y \in I : m >= y
  OBVIOUS
<1>2. Max(I) \in I /\ \A y \in I : Max(I) >= y
  BY <1>1 DEF Max
<1>3. QED
  BY <1>1, <1>2

-----------------------------------------------------------------------------
\* add_temporary_streams makes a stream list of a stream list.
LEMMA AddTemporaryType ==
    ASSUME NEW ss \in Seq(Stream), NEW port \in Port
    PROVE  AddTemporaryStreams(ss, port) \in Seq(Stream)
<1>1. ASSUME NEW i \in 1 .. 2 * Len(ss)
      PROVE  AddTemporaryStreams(ss, port)[i] \in Stream
  <2>1. CASE i % 2 = 1
    <3>1. (i + 1) \div 2 \in 1 .. Len(ss)
      BY <2>1
    <3>2. QED
      BY <2>1, <3>1, ElementOfSeq DEF AddTemporaryStreams
  <2>2. CASE i % 2 # 1
    <3>1. i \div 2 \in 1 .. Len(ss)
      BY <2>2
    <3>2. ss[i \div 2].media \in Media
      <4>1. ss[i \div 2] \in Stream
        BY <3>1, ElementOfSeq
      <4>2. QED
        BY <4>1 DEF Stream
    <3>3. QED
      BY <2>2, <3>2 DEF AddTemporaryStreams, Stream
  <2>3. QED
    BY <2>1, <2>2
<1>2. AddTemporaryStreams(ss, port) \in [1 .. 2 * Len(ss) -> Stream]
  BY <1>1 DEF AddTemporaryStreams
<1>3. QED
  BY <1>2

Copy(s, port) == [media |-> s.media, port |-> port, rtcp_port |-> port, temporary |-> TRUE]

\* add_temporary_streams keeps every stream and puts its copy behind it.
LEMMA AddTemporaryPositions ==
    ASSUME NEW ss \in Seq(Stream), NEW port \in Port
    PROVE  LET added_to == AddTemporaryStreams(ss, port)
           IN  /\ added_to \in Seq(Stream) /\ Len(added_to) = 2 * Len(ss)
               /\ \A k \in 1 .. Len(ss) : /\ added_to[2 * k - 1] = ss[k]
                                          /\ added_to[2 * k] = Copy(ss[k], port)
<1> DEFINE added_to == AddTemporaryStreams(ss, port)
<1>1. Len(ss) \in Nat
  OBVIOUS
<1>2. added_to \in Seq(Stream)
  BY AddTemporaryType
<1>3. DOMAIN added_to = 1 .. 2 * Len(ss)
  BY DEF AddTemporaryStreams
<1>4. Len(added_to) = 2 * Len(ss)
  <2> HIDE DEF added_to
  <2>1. Len(added_to) \in Nat /\ DOMAIN added_to = 1 .. Len(added_to)
    BY <1>2
  <2>2. QED
    BY <1>1, <1>3, <2>1
<1>5. ASSUME NEW k \in 1 .. Len(ss)
      PROVE  added_to[2 * k - 1] = ss[k] /\ added_to[2 * k] = Copy(ss[k], port)
  <2>1. /\ 2 * k - 1 \in 1 .. 2 * Len(ss) /\ (2 * k - 1) % 2 = 1
        /\ ((2 * k - 1) + 1) \div 2 = k
    BY <1>1
  <2>2. 2 * k \in 1 .. 2 * Len(ss) /\ (2 * k) % 2 # 1 /\ (2 * k) \div 2 = k
    BY <1>1
  <2>3. QED
    BY <2>1, <2>2 DEF AddTemporaryStreams, Copy
<1>6. QED
  BY <1>2, <1>4, <1>5

\* Every port that was served is served still, and so is the new one.
LEMMA AddTemporaryServes ==
    ASSUME NEW ss \in Seq(Stream), NEW port \in Port
    PROVE  LET added_to == AddTemporaryStreams(ss, port)
           IN  /\ \A p : ContainPort(ss, p) => ContainPort(added_to, p)
               /\ ss # <<>> => ContainPort(added_to, port)
               /\ \A i \in DOMAIN ss : \E j \in DOMAIN added_to : added_to[j].media = ss[i].media
<1> DEFINE added_to == AddTemporaryStreams(ss, port)
<1>1. /\ added_to \in Seq(Stream) /\ Len(added_to) = 2 * Len(ss)
      /\ \A k \in 1 .. Len(ss) : /\ added_to[2 * k - 1] = ss[k]
                                 /\ added_to[2 * k] = Copy(ss[k], port)
  BY AddTemporaryPositions
<1> HIDE DEF added_to
<1>2. /\ Len(ss) \in Nat /\ DOMAIN ss = 1 .. Len(ss)
      /\ DOMAIN added_to = 1 .. 2 * Len(ss)
  BY <1>1
<1>3. \A k \in DOMAIN ss : 2 * k - 1 \in DOMAIN added_to /\ 2 * k \in DOMAIN added_to
  BY <1>2
<1>4. ASSUME NEW p, ContainPort(ss, p) PROVE ContainPort(added_to, p)
  <2>1. PICK k \in DOMAIN ss : p \in {ss[k].port, GetRtcpPort(ss[k])}
    BY <1>4 DEF ContainPort
  <2>2. added_to[2 * k - 1] = ss[k]
    BY <1>1, <1>2
  <2>3. QED
    BY <1>3, <2>1, <2>2 DEF ContainPort
<1>5. ASSUME ss # <<>> PROVE ContainPort(added_to, port)
  <2>1. 1 \in DOMAIN ss
    BY <1>2, <1>5
  <2>2. added_to[2 * 1] = Copy(ss[1], port)
    BY <1>1, <1>2, <2>1
  <2>3. added_to[2 * 1].port = port
    BY <2>2 DEF Copy
  <2>4. QED
    BY <1>3, <2>1, <2>3 DEF ContainPort
<1>6. \A i \in DOMAIN ss : \E j \in DOMAIN added_to : added_to[j].media = ss[i].media
  BY <1>1, <1>2, <1>3
<1>7. QED
  BY <1>4, <1>5, <1>6 DEF added_to

\* remove_temporary_streams makes a stream list of a stream list.
LEMMA RemoveTemporaryType ==
    ASSUME NEW ss \in Seq(Stream)
    PROVE  RemoveTemporaryStreams(ss) \in Seq(Stream)
<1> DEFINE kept == Kept(ss)
<1>1. Len(ss) \in Nat /\ kept \subseteq 1 .. Len(ss)
  BY DEF Kept
<1>2. Cardinality(kept) \in Nat
  <2>1. IsFiniteSet(1 .. Len(ss))
    BY <1>1, FS_Interval
  <2> HIDE DEF kept
  <2>2. QED
    BY <1>1, <2>1, FS_Subset, FS_CardinalityType
<1>3. ASSUME NEW k \in 1 .. Cardinality(kept)
      PROVE  RemoveTemporaryStreams(ss)[k] \in Stream
  <2>1. Nth(kept, k) \in 1 .. Len(ss)
    <3> HIDE DEF kept
    <3>1. QED
      BY <1>1, RankExists
  <2>2. ss[Nth(kept, k)] \in Stream
    BY <2>1, ElementOfSeq
  <2>3. \A s \in Stream, b \in BOOLEAN : [s EXCEPT !.temporary = b] \in Stream
    BY DEF Stream
  <2>4. RemoveTemporaryStreams(ss)[k] =
           [ss[Nth(kept, k)] EXCEPT !.temporary =
                ss[Nth(kept, k)].temporary /\ Nth(kept, k) \notin Visited(ss)]
    BY DEF RemoveTemporaryStreams
  <2>5. QED
    BY <2>2, <2>3, <2>4
<1>4. RemoveTemporaryStreams(ss) \in [1 .. Cardinality(kept) -> Stream]
  BY <1>3 DEF RemoveTemporaryStreams
<1>5. QED
  BY <1>2, <1>4

\* Ports are numbers; -1 is none of them.
LEMMA PortIsNat ==
    ASSUME NEW p \in Port
    PROVE  p \in Nat /\ p # -1
<1>1. MaxPort \in Nat
  BY DEF MaxPort
<1>2. QED
  BY <1>1 DEF Port

\* The cast to unsigned short makes a port of every number, and keeps a port.
LEMMA U16Type ==
    ASSUME NEW p \in Nat
    PROVE  U16(p) \in Port /\ (p \in Port => U16(p) = p)
<1>1. MaxPort \in Nat
  BY DEF MaxPort
<1>2. p % (MaxPort + 1) \in 0 .. MaxPort
  BY <1>1
<1>3. p \in 0 .. MaxPort => p % (MaxPort + 1) = p
  BY <1>1
<1>4. QED
  BY <1>2, <1>3 DEF U16, Port

\* The ports the searches report fit an unsigned short, or are -1.
LEMMA PortType ==
    ASSUME NEW ss \in Seq(Stream), NEW media
    PROVE  /\ GetStreamPort(ss, media) \in Port \cup {-1}
           /\ GetStreamRtcpPort(ss, media) \in Port \cup {-1}
<1> DEFINE i == StreamOfMedia(ss, media)
<1>1. i \in 0 .. Len(ss)
  <2>1. Len(ss) \in Nat /\ \A j \in {j \in DOMAIN ss : ss[j].media = media} : j \in 1 .. Len(ss)
    OBVIOUS
  <2>2. QED
    BY <2>1, FirstOfPosition DEF StreamOfMedia
<1>2. CASE i = 0
  BY <1>2 DEF GetStreamPort, GetStreamRtcpPort
<1>3. CASE i \in 1 .. Len(ss)
  <2>1. ss[i].port \in Nat /\ ss[i].rtcp_port \in Nat
    <3> HIDE DEF i
    <3>1. ss[i] \in Stream
      BY <1>3, ElementOfSeq
    <3>2. ss[i].port \in Port /\ ss[i].rtcp_port \in Port
      BY <3>1 DEF Stream
    <3>3. QED
      BY <3>2, PortIsNat
  <2>2. GetRtcpPort(ss[i]) \in Nat
    BY <2>1 DEF GetRtcpPort
  <2>3. \A p \in Nat : U16(p) \in Port
    BY U16Type
  <2>4. QED
    BY <2>1, <2>2, <2>3 DEF GetStreamPort, GetStreamRtcpPort
<1>4. QED
  BY <1>1, <1>2, <1>3

\* A search for a media type reports the ports of one stream of that type, cast
\* to unsigned short, if there is one.
LEMMA StreamOfMediaIs ==
    ASSUME NEW ss \in Seq(Stream), NEW media
    PROVE  \/ /\ \A j \in DOMAIN ss : ss[j].media # media
              /\ GetStreamPort(ss, media) = -1 /\ GetStreamRtcpPort(ss, media) = -1
           \/ \E i \in DOMAIN ss :
                /\ ss[i].media = media
                /\ GetStreamPort(ss, media) = ss[i].port
                /\ GetStreamRtcpPort(ss, media) = U16(GetRtcpPort(ss[i]))
<1> DEFINE found == {j \in DOMAIN ss : ss[j].media = media}
           i     == StreamOfMedia(ss, media)
<1>1. Len(ss) \in Nat /\ \A j \in found : j \in 1 .. Len(ss)
  OBVIOUS
<1>2. (i = 0 <=> found = {}) /\ (i # 0 => i \in found)
  <2>1. i = FirstOf(found)
    BY DEF StreamOfMedia
  <2> HIDE DEF found, i
  <2>2. QED
    BY <1>1, <2>1, FirstOfPosition
<1>3. CASE i = 0
  BY <1>2, <1>3 DEF GetStreamPort, GetStreamRtcpPort
<1>4. CASE i # 0
  <2>1. i \in DOMAIN ss /\ ss[i].media = media
    BY <1>2, <1>4
  <2>2. GetStreamPort(ss, media) = U16(ss[i].port)
        /\ GetStreamRtcpPort(ss, media) = U16(GetRtcpPort(ss[i]))
    BY <1>4 DEF GetStreamPort, GetStreamRtcpPort
  <2> HIDE DEF i
  <2>3. ss[i] \in Stream
    BY <2>1, ElementOfSeq
  <2>4. ss[i].port \in Port
    BY <2>3 DEF Stream
  <2>5. U16(ss[i].port) = ss[i].port
    BY <2>4, PortIsNat, U16Type
  <2>6. QED
    BY <2>1, <2>2, <2>5
<1>5. QED
  BY <1>3, <1>4

\* If the RTCP ports of the streams are ports, the cast changes none.
LEMMA PortsOfMedia ==
    ASSUME NEW ss \in Seq(Stream), NEW media,
           \A j \in DOMAIN ss : GetRtcpPort(ss[j]) \in Port
    PROVE  \/ /\ \A j \in DOMAIN ss : ss[j].media # media
              /\ GetStreamPort(ss, media) = -1 /\ GetStreamRtcpPort(ss, media) = -1
           \/ \E i \in DOMAIN ss :
                /\ ss[i].media = media
                /\ GetStreamPort(ss, media) = ss[i].port
                /\ GetStreamRtcpPort(ss, media) = GetRtcpPort(ss[i])
<1>1. \A q \in Port : U16(q) = q
  BY PortIsNat, U16Type
<1>2. QED
  BY <1>1, StreamOfMediaIs

\* A search for a port ends at a position of the list, or finds nothing.
LEMMA SearchPosition ==
    ASSUME NEW ss \in Seq(Stream), NEW q
    PROVE  GetStreamType(ss, q) \in 0 .. Len(ss) /\ GetStreamTypeRtcp(ss, q) \in 0 .. Len(ss)
<1> DEFINE I == {i \in DOMAIN ss : q \in {ss[i].port, GetRtcpPort(ss[i])}}
           J == {i \in DOMAIN ss : q = GetRtcpPort(ss[i])}
<1>1. Len(ss) \in Nat /\ (\A i \in I : i \in 1 .. Len(ss)) /\ \A i \in J : i \in 1 .. Len(ss)
  OBVIOUS
<1>2. GetStreamType(ss, q) = FirstOf(I) /\ GetStreamTypeRtcp(ss, q) = FirstOf(J)
  BY DEF GetStreamType, GetStreamTypeRtcp
<1> HIDE DEF I, J
<1>3. QED
  BY <1>1, <1>2, FirstOfPosition

-----------------------------------------------------------------------------
(* What a rule changes of the searches *)

LEMMA Halves ==
    ASSUME NEW n \in Nat, NEW j \in 1 .. 2 * n
    PROVE  \E k \in 1 .. n : j = 2 * k - 1 \/ j = 2 * k
<1> DEFINE k == (j + 1) \div 2
<1>1. k \in 1 .. n /\ (j = 2 * k - 1 \/ j = 2 * k)
  OBVIOUS
<1>2. QED
  BY <1>1

LEMMA CopyPorts ==
    ASSUME NEW s, NEW new, new # 0
    PROVE  Copy(s, new).port = new /\ GetRtcpPort(Copy(s, new)) = new
           /\ Copy(s, new).media = s.media
BY DEF Copy, GetRtcpPort

\* The first position that fits, when a copy that fits follows a stream that does.
LEMMA FirstAmongCopies ==
    ASSUME NEW n \in Nat, NEW I, \A i \in I : i \in 1 .. n,
           NEW J, \A j \in J : j \in 1 .. 2 * n,
           \A k \in 1 .. n : (2 * k - 1 \in J <=> k \in I) /\ (2 * k \in J => k \in I)
    PROVE  FirstOf(J) = IF FirstOf(I) = 0 THEN 0 ELSE 2 * FirstOf(I) - 1
<1>1. ASSUME NEW j \in J
      PROVE  \E k \in I : j = 2 * k - 1 \/ j = 2 * k
  <2>1. PICK k \in 1 .. n : j = 2 * k - 1 \/ j = 2 * k
    BY Halves
  <2>2. QED
    BY <2>1
<1>2. CASE I = {}
  <2>1. J = {}
    BY <1>1, <1>2
  <2>2. QED
    BY <1>2, <2>1 DEF FirstOf
<1>3. CASE I # {}
  <2> DEFINE f == Min(I)
             g == Min(J)
  <2>1. f \in I /\ \A i \in I : f <= i
    BY <1>3, MinOfNaturals
  <2>2. 2 * f - 1 \in J
    BY <2>1
  <2>3. g \in J /\ \A j \in J : g <= j
    <3>1. \A j \in J : j \in Nat
      OBVIOUS
    <3>2. QED
      BY <2>2, <3>1, MinOfNaturals
  <2>4. PICK k \in I : g = 2 * k - 1 \/ g = 2 * k
    BY <1>1, <2>3
  <2> HIDE DEF f, g
  <2>5. f <= k /\ g <= 2 * f - 1 /\ f \in 1 .. n /\ k \in 1 .. n
    BY <2>1, <2>2, <2>3
  <2>6. g = 2 * f - 1 /\ f # 0
    BY <2>4, <2>5
  <2>7. QED
    BY <1>3, <2>2, <2>6 DEF FirstOf, f, g
<1>4. QED
  BY <1>2, <1>3

\* A rule to a port that no stream uses makes the streams serve that port as well.
LEMMA AddedPorts ==
    ASSUME NEW ss \in Seq(Stream), NEW new \in Port \ {0}, NEW q
    PROVE  ContainPort(AddTemporaryStreams(ss, new), q)
             <=> ContainPort(ss, q) \/ (q = new /\ ss # <<>>)
<1> DEFINE two == AddTemporaryStreams(ss, new)
<1>1. /\ two \in Seq(Stream) /\ Len(two) = 2 * Len(ss)
      /\ \A k \in 1 .. Len(ss) : /\ two[2 * k - 1] = ss[k]
                                 /\ two[2 * k] = Copy(ss[k], new)
  BY AddTemporaryPositions
<1>2. (\A r : ContainPort(ss, r) => ContainPort(two, r)) /\ (ss # <<>> => ContainPort(two, new))
  BY AddTemporaryServes
<1> HIDE DEF two
<1>3. ASSUME ContainPort(two, q)
      PROVE  ContainPort(ss, q) \/ (q = new /\ ss # <<>>)
  <2>1. PICK j \in DOMAIN two : q \in {two[j].port, GetRtcpPort(two[j])}
    BY <1>3 DEF ContainPort
  <2>2. PICK k \in 1 .. Len(ss) : j = 2 * k - 1 \/ j = 2 * k
    <3>1. j \in 1 .. 2 * Len(ss) /\ Len(ss) \in Nat
      BY <1>1
    <3>2. QED
      BY <3>1, Halves
  <2>3. CASE j = 2 * k - 1
    <3>1. two[j] = ss[k] /\ k \in DOMAIN ss
      BY <1>1, <2>3
    <3>2. QED
      BY <2>1, <3>1 DEF ContainPort
  <2>4. CASE j = 2 * k
    <3>1. two[j] = Copy(ss[k], new) /\ ss # <<>>
      BY <1>1, <2>4
    <3>2. QED
      BY <2>1, <3>1, CopyPorts
  <2>5. QED
    BY <2>2, <2>3, <2>4
<1>4. QED
  BY <1>2, <1>3 DEF two

\* It leaves the result of every search for another port or for a media type.
LEMMA AddedSearches ==
    ASSUME NEW ss \in Seq(Stream), NEW new \in Port \ {0}
    PROVE  LET two == AddTemporaryStreams(ss, new)
               At(k) == IF k = 0 THEN 0 ELSE 2 * k - 1
           IN  /\ \A q : q # new => /\ GetStreamType(two, q) = At(GetStreamType(ss, q))
                                    /\ GetStreamTypeRtcp(two, q) = At(GetStreamTypeRtcp(ss, q))
               /\ \A media : StreamOfMedia(two, media) = At(StreamOfMedia(ss, media))
<1> DEFINE two   == AddTemporaryStreams(ss, new)
           At(k) == IF k = 0 THEN 0 ELSE 2 * k - 1
<1>1. /\ two \in Seq(Stream) /\ Len(two) = 2 * Len(ss)
      /\ \A k \in 1 .. Len(ss) : /\ two[2 * k - 1] = ss[k]
                                 /\ two[2 * k] = Copy(ss[k], new)
  BY AddTemporaryPositions
<1> HIDE DEF two
<1>2. /\ Len(ss) \in Nat /\ DOMAIN ss = 1 .. Len(ss) /\ DOMAIN two = 1 .. 2 * Len(ss)
      /\ \A k \in 1 .. Len(ss) : 2 * k - 1 \in DOMAIN two /\ 2 * k \in DOMAIN two
  BY <1>1
<1>3. \A k \in 1 .. Len(ss) : /\ two[2 * k].port = new /\ GetRtcpPort(two[2 * k]) = new
                              /\ two[2 * k].media = ss[k].media
  BY <1>1, CopyPorts
<1>4. ASSUME NEW q, q # new
      PROVE  /\ GetStreamType(two, q) = At(GetStreamType(ss, q))
             /\ GetStreamTypeRtcp(two, q) = At(GetStreamTypeRtcp(ss, q))
  <2> DEFINE I  == {i \in DOMAIN ss : q \in {ss[i].port, GetRtcpPort(ss[i])}}
             J  == {i \in DOMAIN two : q \in {two[i].port, GetRtcpPort(two[i])}}
             Ir == {i \in DOMAIN ss : q = GetRtcpPort(ss[i])}
             Jr == {i \in DOMAIN two : q = GetRtcpPort(two[i])}
  <2>1. /\ \A i \in I : i \in 1 .. Len(ss)
        /\ \A j \in J : j \in 1 .. 2 * Len(ss)
        /\ \A k \in 1 .. Len(ss) : (2 * k - 1 \in J <=> k \in I) /\ (2 * k \in J => k \in I)
    BY <1>1, <1>2, <1>3, <1>4
  <2>2. /\ \A i \in Ir : i \in 1 .. Len(ss)
        /\ \A j \in Jr : j \in 1 .. 2 * Len(ss)
        /\ \A k \in 1 .. Len(ss) : (2 * k - 1 \in Jr <=> k \in Ir) /\ (2 * k \in Jr => k \in Ir)
    BY <1>1, <1>2, <1>3, <1>4
  <2>3. /\ GetStreamType(ss, q) = FirstOf(I) /\ GetStreamType(two, q) = FirstOf(J)
        /\ GetStreamTypeRtcp(ss, q) = FirstOf(Ir) /\ GetStreamTypeRtcp(two, q) = FirstOf(Jr)
    BY DEF GetStreamType, GetStreamTypeRtcp
  <2> HIDE DEF I, J, Ir, Jr
  <2>4. FirstOf(J) = At(FirstOf(I))
    BY <1>2, <2>1, FirstAmongCopies
  <2>5. FirstOf(Jr) = At(FirstOf(Ir))
    BY <1>2, <2>2, FirstAmongCopies
  <2>6. QED
    BY <2>3, <2>4, <2>5
<1>5. ASSUME NEW media
      PROVE  StreamOfMedia(two, media) = At(StreamOfMedia(ss, media))
  <2> DEFINE I == {i \in DOMAIN ss : ss[i].media = media}
             J == {i \in DOMAIN two : two[i].media = media}
  <2>1. /\ \A i \in I : i \in 1 .. Len(ss)
        /\ \A j \in J : j \in 1 .. 2 * Len(ss)
        /\ \A k \in 1 .. Len(ss) : (2 * k - 1 \in J <=> k \in I) /\ (2 * k \in J => k \in I)
    BY <1>1, <1>2, <1>3
  <2>2. StreamOfMedia(ss, media) = FirstOf(I) /\ StreamOfMedia(two, media) = FirstOf(J)
    BY DEF StreamOfMedia
  <2> HIDE DEF I, J
  <2>3. QED
    BY <1>2, <2>1, <2>2, FirstAmongCopies
<1>6. QED
  BY <1>4, <1>5 DEF two

-----------------------------------------------------------------------------
(* What remove_temporary_streams makes of a list *)

\* What remove_temporary_streams makes of the stream at x if it keeps it.
Result(b, x) == [b[x] EXCEPT !.temporary = @ /\ x \notin Visited(b)]

\* The position of the last temporary stream before x, or 0.
LastTemporary(b, x) == Max({0} \cup {j \in 1 .. x - 1 : b[j].temporary})

LEMMA LastTemporaryIs ==
    ASSUME NEW b, NEW x \in Nat \ {0}
    PROVE  /\ LastTemporary(b, x) \in Nat
           /\ LastTemporary(b, x + 1) = IF b[x].temporary THEN x ELSE LastTemporary(b, x)
<1> DEFINE T(y) == {0} \cup {j \in 1 .. y - 1 : b[j].temporary}
           D == {x - j : j \in T(x)}
<1>1. LastTemporary(b, x) \in Nat
  <2>1. PICK d \in D : \A e \in D : d <= e
    <3>1. D # {} /\ \A e \in D : e \in Nat
      OBVIOUS
    <3> HIDE DEF D
    <3>2. QED
      BY <3>1, MinOfNaturals
  <2>2. PICK j \in T(x) : d = x - j
    OBVIOUS
  <2>3. \A i \in T(x) : i \in Nat /\ i <= j
    <3>1. TAKE i \in T(x)
    <3>2. i \in Nat /\ j \in Nat
      OBVIOUS
    <3>3. x - j <= x - i
      BY <2>1, <2>2
    <3>4. QED
      BY <3>2, <3>3
  <2> HIDE DEF T
  <2>4. Max(T(x)) = j
    BY <2>2, <2>3, MaxIs
  <2>5. QED
    BY <2>2, <2>3, <2>4 DEF LastTemporary, T
<1>2. CASE b[x].temporary
  <2>1. x \in T(x + 1) /\ \A i \in T(x + 1) : i \in Nat /\ i <= x
    BY <1>2
  <2> HIDE DEF T
  <2>2. Max(T(x + 1)) = x
    BY <2>1, MaxIs
  <2>3. QED
    BY <1>1, <1>2, <2>2 DEF LastTemporary, T
<1>3. CASE ~ b[x].temporary
  <2>1. T(x + 1) = T(x)
    <3>1. \A j \in 1 .. (x + 1) - 1 : j \in 1 .. x - 1 \/ j = x
      OBVIOUS
    <3>2. \A j \in 1 .. x - 1 : j \in 1 .. (x + 1) - 1
      OBVIOUS
    <3>3. QED
      BY <1>3, <3>1, <3>2
  <2>2. QED
    BY <1>1, <1>3, <2>1 DEF LastTemporary
<1>4. QED
  BY <1>1, <1>2, <1>3

\* The loop looks at the first stream, and at every stream unless it has looked at
\* the one before and taken it out.
LEMMA VisitedSteps ==
    ASSUME NEW b \in Seq(Stream)
    PROVE  /\ 1 \in 1 .. Len(b) => 1 \in Visited(b)
           /\ \A x \in 1 .. Len(b) : x + 1 \in 1 .. Len(b) =>
                 (x + 1 \in Visited(b) <=> x \notin Visited(b) \/ b[x].temporary)
<1>1. DOMAIN b = 1 .. Len(b) /\ Len(b) \in Nat
  OBVIOUS
<1>2. \A x \in 1 .. Len(b) : x \in Visited(b) <=> (x - 1 - LastTemporary(b, x)) % 2 = 0
  BY <1>1 DEF Visited, LastTemporary
<1>3. ASSUME 1 \in 1 .. Len(b) PROVE 1 \in Visited(b)
  <2>1. {0} \cup {j \in 1 .. 1 - 1 : b[j].temporary} = {0}
    OBVIOUS
  <2>2. LastTemporary(b, 1) = 0
    BY <2>1, MaxIs DEF LastTemporary
  <2>3. QED
    BY <1>2, <1>3, <2>2
<1>4. ASSUME NEW x \in 1 .. Len(b), x + 1 \in 1 .. Len(b)
      PROVE  x + 1 \in Visited(b) <=> x \notin Visited(b) \/ b[x].temporary
  <2>1. PICK x1 \in 1 .. Len(b) : x1 = x + 1
    BY <1>4
  <2>2. PICK y, z : y = LastTemporary(b, x) /\ z = LastTemporary(b, x1)
    OBVIOUS
  <2>3. y \in Nat /\ z = IF b[x].temporary THEN x ELSE y
    <3>1. x \in Nat \ {0}
      OBVIOUS
    <3>2. QED
      BY <2>1, <2>2, <3>1, LastTemporaryIs, Zenon
  <2>4. /\ x \in Visited(b) <=> (x - 1 - y) % 2 = 0
        /\ x1 \in Visited(b) <=> (x1 - 1 - z) % 2 = 0
    BY <1>2, <2>2
  <2>5. CASE b[x].temporary
    <3>1. x1 - 1 - z = 0
      BY <2>1, <2>3, <2>5
    <3>2. QED
      BY <2>1, <2>4, <2>5, <3>1
  <2>6. CASE ~ b[x].temporary
    <3>1. (x1 - 1 - y) % 2 = 0 <=> (x - 1 - y) % 2 # 0
      BY <2>1, <2>3
    <3>2. QED
      BY <2>1, <2>3, <2>4, <2>6, <3>1
  <2>7. QED
    BY <2>5, <2>6
<1>5. QED
  BY <1>3, <1>4

\* A strictly increasing enumeration of a set is the one Nth makes.
LEMMA NthIs ==
    ASSUME NEW n \in Nat, NEW g \in [1 .. n -> Nat],
           \A i, j \in 1 .. n : i < j => g[i] < g[j],
           NEW I, I = {g[i] : i \in 1 .. n}
    PROVE  Cardinality(I) = n /\ \A k \in 1 .. n : Nth(I, k) = g[k]
<1>1. \A i, j \in 1 .. n : (g[i] <= g[j] <=> i <= j) /\ (g[i] = g[j] => i = j)
  <2>1. TAKE i, j \in 1 .. n
  <2>2. g[i] \in Nat /\ g[j] \in Nat /\ (i < j \/ i = j \/ j < i)
    OBVIOUS
  <2>3. (i < j => g[i] < g[j]) /\ (j < i => g[j] < g[i])
    OBVIOUS
  <2>4. QED
    BY <2>2, <2>3
<1>2. ASSUME NEW k \in 0 .. n
      PROVE  Cardinality({g[i] : i \in 1 .. k}) = k
  <2> DEFINE f == [i \in 1 .. k |-> g[i]]
  <2>1. f \in Bijection(1 .. k, {g[i] : i \in 1 .. k})
    BY <1>1 DEF Bijection, Injection, Surjection, IsInjective
  <2>2. IsFiniteSet(1 .. k) /\ Cardinality(1 .. k) = k
    BY FS_Interval
  <2>3. QED
    BY <2>1, <2>2, FS_Bijection DEF ExistsBijection
<1>3. Cardinality(I) = n
  BY <1>2
<1>4. ASSUME NEW k \in 1 .. n
      PROVE  Cardinality({j \in I : j <= g[k]}) = k
  <2>1. {j \in I : j <= g[k]} = {g[i] : i \in 1 .. k}
    <3>1. ASSUME NEW j \in I, j <= g[k] PROVE j \in {g[i] : i \in 1 .. k}
      BY <1>1, <3>1
    <3>2. ASSUME NEW i \in 1 .. k PROVE g[i] \in I /\ g[i] <= g[k]
      BY <1>1
    <3>3. QED
      BY <3>1, <3>2
  <2>2. k \in 0 .. n
    OBVIOUS
  <2>3. QED
    BY <1>2, <2>1, <2>2, Zenon
<1>5. ASSUME NEW k \in 1 .. n PROVE Nth(I, k) = g[k]
  <2>1. g[k] \in I /\ Cardinality({j \in I : j <= g[k]}) = k
    BY <1>4
  <2>2. PICK x : x = Nth(I, k)
    OBVIOUS
  <2>3. x \in I /\ Cardinality({j \in I : j <= x}) = k
    BY <2>1, <2>2 DEF Nth
  <2>4. PICK y \in 1 .. n : x = g[y]
    BY <2>3
  <2>5. y = k
    BY <1>4, <2>3, <2>4
  <2>6. QED
    BY <2>2, <2>4, <2>5
<1>6. QED
  BY <1>3, <1>5

\* The positions in b are those of its streams.
LEMMA Positions ==
    ASSUME NEW b \in Seq(Stream)
    PROVE  /\ Len(b) \in Nat
           /\ \A q \in Visited(b) : q \in 1 .. Len(b)
           /\ \A q \in Kept(b) : q \in 1 .. Len(b)
           /\ \A q \in 1 .. Len(b) : /\ b[q] \in Stream
                                     /\ q \in Kept(b) <=> (q \in Visited(b) => b[q].temporary)
                                     /\ q \in Kept(b) /\ q \in Visited(b) =>
                                          [b[q] EXCEPT !.temporary = ~b[q].temporary] = Result(b, q)
                                     /\ q \notin Visited(b) => b[q] = Result(b, q)
<1>1. Len(b) \in Nat /\ DOMAIN b = 1 .. Len(b)
  OBVIOUS
<1>2. \A q \in 1 .. Len(b) : b[q] \in Stream
  BY ElementOfSeq
<1>3. \A q \in 1 .. Len(b) : q \in Kept(b) <=> (q \in Visited(b) => b[q].temporary)
  BY <1>1 DEF Kept
<1>4. ASSUME NEW q \in 1 .. Len(b), b[q].temporary, q \in Visited(b)
      PROVE  [b[q] EXCEPT !.temporary = ~b[q].temporary] = Result(b, q)
  <2>1. PICK x : x = b[q]
    OBVIOUS
  <2>2. x.temporary = TRUE /\ (~x.temporary) = FALSE
    BY <1>2, <1>4, <2>1 DEF Stream
  <2>3. (x.temporary /\ q \notin Visited(b)) = FALSE
    BY <1>4
  <2>4. QED
    BY <2>1, <2>2, <2>3 DEF Result
<1>5. ASSUME NEW q \in 1 .. Len(b), q \notin Visited(b)
      PROVE  b[q] = Result(b, q)
  <2>1. PICK x : x = b[q]
    OBVIOUS
  <2>2. x \in Stream /\ (x.temporary /\ q \notin Visited(b)) = x.temporary
    BY <1>2, <1>5, <2>1 DEF Stream
  <2>3. [x EXCEPT !.temporary = x.temporary] = x
    BY <2>2 DEF Stream
  <2>4. Result(b, q) = [x EXCEPT !.temporary = x.temporary]
    BY <2>1, <2>2 DEF Result
  <2>5. QED
    BY <2>1, <2>3, <2>4
<1>6. QED
  BY <1>1, <1>2, <1>3, <1>4, <1>5 DEF Visited, Kept
=============================================================================
